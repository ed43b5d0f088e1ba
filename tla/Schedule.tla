----------------------------- MODULE Schedule ------------------------------
(***************************************************************************)
(* `run_all` (crates/modelq-backend/src/schedule.rs): a call hands items   *)
(* 1..items to `threads` scoped worker threads from a queue behind a       *)
(* mutex, joins them and returns the results in item order.  With one      *)
(* thread or one item the caller does the work itself; worker 1 stands     *)
(* for the caller then.  Any item's work may panic.                        *)
(*                                                                         *)
(* An item's result is its index: what the properties tell apart is which  *)
(* items ran, how often, and in which order their results come back.       *)
(***************************************************************************)
EXTENDS Integers, Sequences, FiniteSets, SequencesExt

CONSTANTS
  Workers,   \* bound on the worker threads of a call
  MaxItems   \* bound on the items of a call

ASSUME ScheduleAssumption ==
  /\ Workers \in Nat \ {0}
  /\ MaxItems \in Nat

VARIABLES
  call,      \* what run_all is doing, or how it ended
  items,     \* number of items of the call
  threads,   \* worker threads of the call; 1 when the caller works itself
  head,      \* the item the queue hands out next
  at,        \* at[w]: where worker w is
  hand,      \* hand[w]: the item worker w took last
  done,      \* done[w]: the worker's own vector of finished items
  joined,    \* number of workers joined so far
  results    \* what the call returned when it returned Ok

queueVars    == <<items, threads, head>>
workerVars   == <<at, hand, done>>
scheduleVars == <<call, queueVars, workerVars, joined, results>>

Worker  == 1..Workers
Active  == 1..threads
Places  == {"take", "work", "ended", "panicked"}
Calls   == {"idle", "running", "failing", "ok", "WorkerPanicked", "panicked"}

\* Bug: a panicked thread is waited for like a running one.
BuggyOver(w) == at[w] = "ended"

\* The thread is over and, unless it panicked, its vector can be collected.
Over(w) == at[w] \in {"ended", "panicked"}

Sequential == threads = 1

TypeOK ==
  /\ call \in Calls
  /\ items \in Nat
  /\ threads \in Worker
  /\ head \in 1..(items + 1)
  /\ at \in [Worker -> Places]
  /\ hand \in [Worker -> Nat]
  /\ done \in [Worker -> Seq(1..items)]
  /\ joined \in 0..threads

Init ==
  /\ call = "idle"
  /\ items = 0 /\ threads = 1 /\ head = 1
  /\ at = [w \in Worker |-> "ended"]
  /\ hand = [w \in Worker |-> 0]
  /\ done = [w \in Worker |-> <<>>]
  /\ joined = 0
  /\ results = <<>>

\* `threads.min(items.len())', at least the caller.
ThreadsFor(n, requested) ==
  LET least == IF requested < n THEN requested ELSE n
  IN  IF least <= 1 THEN 1 ELSE least

\* A call with n items and `requested' threads begins.
Start(n, requested) ==
  /\ call \notin {"running", "failing"}
  /\ call' = "running"
  /\ items' = n
  /\ threads' = ThreadsFor(n, requested)
  /\ head' = 1
  /\ at' = [w \in Worker |-> IF w <= threads' THEN "take" ELSE "ended"]
  /\ hand' = [w \in Worker |-> 0]
  /\ done' = [w \in Worker |-> <<>>]
  /\ joined' = 0
  /\ results' = <<>>

\* Bug: the queue hands out one item more than it holds.
BuggyQueued == head <= items + 1

\* The queue still holds an item.
Queued == head <= items

\* Bug: the queue is read and advanced without holding the lock.
BuggyTake(w) ==
  /\ at[w] = "take"
  /\ hand' = [hand EXCEPT ![w] = head]
  /\ IF Queued
       THEN /\ at' = [at EXCEPT ![w] = "work"]
            /\ \E h \in {head, head + 1} : head' = h
       ELSE at' = [at EXCEPT ![w] = "ended"] /\ UNCHANGED head
  /\ UNCHANGED <<call, items, threads, done, joined, results>>

\* Under the lock: take the next item, or find the queue empty and end.
Take(w) ==
  /\ at[w] = "take"
  /\ IF Queued
       THEN /\ hand' = [hand EXCEPT ![w] = head]
            /\ at' = [at EXCEPT ![w] = "work"]
            /\ head' = head + 1
       ELSE /\ at' = [at EXCEPT ![w] = "ended"]
            /\ UNCHANGED <<hand, head>>
  /\ UNCHANGED <<call, items, threads, done, joined, results>>

\* The work on the item in hand returns, and its result is pushed.
Finish(w) ==
  /\ at[w] = "work"
  /\ done' = [done EXCEPT ![w] = Append(@, hand[w])]
  /\ at' = [at EXCEPT ![w] = "take"]
  /\ UNCHANGED <<call, queueVars, hand, joined, results>>

\* The work panics: the thread unwinds and its results are lost with it.
Panic(w) ==
  /\ at[w] = "work"
  /\ at' = [at EXCEPT ![w] = "panicked"]
  /\ done' = [done EXCEPT ![w] = <<>>]
  /\ UNCHANGED <<call, queueVars, hand, joined, results>>

Step(w) == Take(w) \/ Finish(w) \/ Panic(w)

-----------------------------------------------------------------------------
(***************************************************************************)
(* The caller.                                                             *)
(***************************************************************************)

\* All vectors one after the other, in the order the workers were spawned.
Collected == FlattenSeq([w \in Active |-> done[w]])

\* Bug: the collected results are not sorted.
BuggySorted(s) == s

\* The place of entry i in a stable sort: equal entries keep their order.
Place(s, i) == Cardinality({j \in DOMAIN s : s[j] < s[i] \/ (s[j] = s[i] /\ j <= i)})

\* `sort_by_key' on the index.
Sorted(s) == [k \in DOMAIN s |-> s[CHOOSE i \in DOMAIN s : Place(s, i) = k]]

\* Bug: the joining goes on past a panicked worker and forgets it.
BuggyJoinNext ==
  /\ call = "running" /\ ~Sequential
  /\ joined < threads
  /\ Over(joined + 1)
  /\ joined' = joined + 1
  /\ UNCHANGED <<call, queueVars, workerVars, results>>

\* Joins the next worker in spawn order.  The first panicked worker ends the
\* joining; those after it are left to the scope.
JoinNext ==
  /\ call = "running" /\ ~Sequential
  /\ joined < threads
  /\ Over(joined + 1)
  /\ IF at[joined + 1] = "panicked" THEN call' = "failing" ELSE UNCHANGED call
  /\ joined' = joined + 1
  /\ UNCHANGED <<queueVars, workerVars, results>>

\* All workers were joined: the call returns.
ReturnResults ==
  /\ call = "running"
  /\ IF Sequential THEN at[1] = "ended" ELSE joined = threads
  /\ call' = "ok"
  /\ results' = Sorted(Collected)
  /\ UNCHANGED <<queueVars, workerVars, joined>>

\* Bug: the call returns with the first panic, as from threads that no scope
\* waits for.
BuggyScopeEnds ==
  /\ call = "failing"
  /\ call' = IF \E w \in Active : w > joined /\ at[w] = "panicked"
               THEN "panicked" ELSE "WorkerPanicked"
  /\ UNCHANGED <<queueVars, workerVars, joined, results>>

\* The scope waits for the workers nobody joined, and itself panics if one of
\* them panicked too.
ScopeEnds ==
  /\ call = "failing"
  /\ \A w \in Active : Over(w)
  /\ call' = IF \E w \in Active : w > joined /\ at[w] = "panicked"
               THEN "panicked" ELSE "WorkerPanicked"
  /\ UNCHANGED <<queueVars, workerVars, joined, results>>

\* The caller's own work panicked.
CallerPanics ==
  /\ call = "running" /\ Sequential /\ at[1] = "panicked"
  /\ call' = "panicked"
  /\ UNCHANGED <<queueVars, workerVars, joined, results>>

Caller == JoinNext \/ ReturnResults \/ ScopeEnds \/ CallerPanics

\* One call, with any number of items and of requested threads, 0 included.
Next ==
  \/ /\ call = "idle"
     /\ \E n \in 0..MaxItems, requested \in 0..Workers : Start(n, requested)
  \/ \E w \in Worker : Step(w)
  \/ Caller

\* Every thread keeps being scheduled, and the work on an item ends.
Fairness ==
  /\ \A w \in Worker : WF_scheduleVars(Step(w))
  /\ WF_scheduleVars(Caller)

Spec == Init /\ [][Next]_scheduleVars /\ Fairness

-----------------------------------------------------------------------------
(***************************************************************************)
(* Properties.                                                             *)
(***************************************************************************)

\* The items worker w is working on or has finished.
ItemsOf(w) == Range(done[w]) \cup (IF at[w] = "work" THEN {hand[w]} ELSE {})

\* No worker has an item twice, and no two workers share one.
NoItemTwice ==
  /\ \A w \in Worker :
       /\ IsInjective(done[w])
       /\ at[w] = "work" => hand[w] \notin Range(done[w])
  /\ \A w, v \in Worker : w # v => ItemsOf(w) \cap ItemsOf(v) = {}

\* Every item handed out is somewhere, unless a panic took it.
NoItemLost ==
  (\A w \in Worker : at[w] # "panicked") =>
    \A i \in 1..(head - 1) : \E w \in Worker : i \in ItemsOf(w)

\* Every item runs exactly once (schedule.rs:91-99), whoever takes it: the
\* queue, the workers' hands and their vectors never share or lose an item.
ExactlyOnce == NoItemTwice /\ NoItemLost

\* Results come back in item order for any thread count (schedule.rs:8-9,
\* 23-25): whichever worker ran an item, its result is in the item's place, and
\* no panic is swallowed, since a panicked worker's item has no result.
ResultsInOrder == call = "ok" => results = [i \in 1..items |-> i]

\* The call is over, whichever way it went.
CallEnded == call \in {"ok", "WorkerPanicked", "panicked"}

\* No worker outlives the call (the scope of schedule.rs:45-65): whoever
\* panicked, and wherever the joining stopped, the items and the closure that
\* the workers borrow are given back only when every worker is over.
NoWorkerOutlives == CallEnded => \A w \in Worker : at[w] \in {"ended", "panicked"}

\* A call always ends, whoever panics.
CallEnds == call = "running" ~> CallEnded
=============================================================================
