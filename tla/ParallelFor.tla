------------------------------ MODULE ParallelFor ------------------------------
(***************************************************************************)
(* parallel_for of codec.cpp: the only place where the codec runs threads. *)
(* The caller walks a loop (serial calls, thread creation or joins; its    *)
(* loop variable is `cursor'), the workers claim indices from the shared   *)
(* atomic counter `next' with fetch_add.  A worker's step is split into    *)
(* the claim and the end of fn, so the calls of two workers overlap.       *)
(***************************************************************************)
EXTENDS Integers

CONSTANTS Counts,        \* the values of the argument count
          Requests,      \* the values of the argument requested
          SerialCutoff,  \* 128 in the code: fewer indices run in the caller
          MaxThreads,    \* no request is larger
          Failures       \* which of "spawn" and "call" may throw

ASSUME ArgumentsAssumption == /\ Counts \subseteq Nat
                              /\ Requests \subseteq 0 .. MaxThreads
                              /\ SerialCutoff \in Nat
                              /\ MaxThreads \in Nat \ {0}

VARIABLES count, requested,  \* the arguments
          caller,            \* where the calling thread is
          cursor,            \* its loop variable (i, t or the thread to join)
          next,              \* the atomic counter
          worker,            \* worker[t]: "none", "claim", "run" or "exited"
          item,              \* item[t]: the index the worker claimed last
          calls              \* calls[i]: calls fn(i) that have ended

vars == <<count, requested, caller, cursor, next, worker, item, calls>>

Threads == 0 .. (MaxThreads - 1)
Indices == 0 .. (count - 1)

\* max(1, min(requested == 0 ? 1 : requested, count))
Workers == IF requested = 0 \/ count = 0 THEN 1
           ELSE IF requested < count THEN requested ELSE count

Serial == Workers = 1 \/ count < SerialCutoff

Ended == caller \in {"returned", "threw", "terminated"}

Init == /\ count \in Counts
        /\ requested \in Requests
        /\ caller = "enter"
        /\ cursor = 0
        /\ next = 0
        /\ worker = [t \in Threads |-> "none"]
        /\ item = [t \in Threads |-> 0]
        /\ calls = [i \in Indices |-> 0]

--------------------------------------------------------------------------------
(* The calling thread *)

Enter == /\ caller = "enter"
         /\ caller' = IF count = 0 THEN "returned"
                      ELSE IF Serial THEN "serial" ELSE "spawn"
         /\ UNCHANGED <<count, requested, cursor, next, worker, item, calls>>

\* Mutant: the loop condition is i <= count.
SerialCallOneMore == /\ caller = "serial"
                     /\ cursor <= count
                     /\ calls' = [calls EXCEPT ![cursor] = @ + 1]
                     /\ cursor' = cursor + 1
                     /\ UNCHANGED <<count, requested, caller, next, worker, item>>

SerialCall == /\ caller = "serial"
              /\ cursor < count
              /\ calls' = [calls EXCEPT ![cursor] = @ + 1]
              /\ cursor' = cursor + 1
              /\ UNCHANGED <<count, requested, caller, next, worker, item>>

SerialReturn == /\ caller = "serial"
                /\ cursor >= count
                /\ caller' = "returned"
                /\ UNCHANGED <<count, requested, cursor, next, worker, item, calls>>

\* threads.emplace_back(...)
Spawn == /\ caller = "spawn"
         /\ cursor < Workers
         /\ worker' = [worker EXCEPT ![cursor] = "claim"]
         /\ cursor' = cursor + 1
         /\ UNCHANGED <<count, requested, caller, next, item, calls>>

StartJoining == /\ caller = "spawn"
                /\ cursor >= Workers
                /\ caller' = "join"
                /\ cursor' = 0
                /\ UNCHANGED <<count, requested, next, worker, item, calls>>

\* Mutant: the threads are detached.
Detach == /\ caller = "join"
          /\ cursor < Workers
          /\ cursor' = cursor + 1
          /\ UNCHANGED <<count, requested, caller, next, worker, item, calls>>

\* t.join() returns
Join == /\ caller = "join"
        /\ cursor < Workers
        /\ worker[cursor] = "exited"
        /\ cursor' = cursor + 1
        /\ UNCHANGED <<count, requested, caller, next, worker, item, calls>>

Return == /\ caller = "join"
          /\ cursor >= Workers
          /\ caller' = "returned"
          /\ UNCHANGED <<count, requested, cursor, next, worker, item, calls>>

\* Mutant: the exception leaves the function and the threads already made run on.
SpawnFailsDetached == /\ "spawn" \in Failures
                      /\ caller = "spawn"
                      /\ cursor < Workers
                      /\ caller' = "threw"
                      /\ UNCHANGED <<count, requested, cursor, next, worker, item, calls>>

\* The std::thread constructor throws.  While the exception leaves the function
\* `threads' is destroyed: destroying a joinable thread is std::terminate.
SpawnFails == /\ "spawn" \in Failures
              /\ caller = "spawn"
              /\ cursor < Workers
              /\ caller' = IF cursor = 0 THEN "threw" ELSE "terminated"
              /\ UNCHANGED <<count, requested, cursor, next, worker, item, calls>>

\* fn throws (its lines allocate) in the calling thread.
SerialCallFails == /\ "call" \in Failures
                   /\ caller = "serial"
                   /\ cursor < count
                   /\ caller' = "threw"
                   /\ UNCHANGED <<count, requested, cursor, next, worker, item, calls>>

--------------------------------------------------------------------------------
(* A worker; std::terminate stops every thread of the process *)

\* Mutants: a plain next++, whose store another worker's store may overwrite;
\* a worker that waits for more work.
ClaimPlain(t) == /\ caller # "terminated"
                 /\ worker[t] = "claim"
                 /\ next' \in {next, next + 1}
                 /\ worker' = [worker EXCEPT ![t] = IF next >= count THEN "exited" ELSE "run"]
                 /\ item' = [item EXCEPT ![t] = next]
                 /\ UNCHANGED <<count, requested, caller, cursor, calls>>
ClaimWait(t) == /\ caller # "terminated"
                /\ worker[t] = "claim"
                /\ next < count
                /\ next' = next + 1
                /\ worker' = [worker EXCEPT ![t] = "run"]
                /\ item' = [item EXCEPT ![t] = next]
                /\ UNCHANGED <<count, requested, caller, cursor, calls>>

\* i = next.fetch_add(1), one atomic step
Claim(t) == /\ caller # "terminated"
            /\ worker[t] = "claim"
            /\ next' = next + 1
            /\ worker' = [worker EXCEPT ![t] = IF next >= count THEN "exited" ELSE "run"]
            /\ item' = [item EXCEPT ![t] = next]
            /\ UNCHANGED <<count, requested, caller, cursor, calls>>

\* fn(i) ends
Finish(t) == /\ caller # "terminated"
             /\ worker[t] = "run"
             /\ calls' = [calls EXCEPT ![item[t]] = @ + 1]
             /\ worker' = [worker EXCEPT ![t] = "claim"]
             /\ UNCHANGED <<count, requested, caller, cursor, next, item>>

\* An exception that leaves a thread's function is std::terminate.
CallFails(t) == /\ "call" \in Failures
                /\ ~Ended
                /\ worker[t] = "run"
                /\ caller' = "terminated"
                /\ UNCHANGED <<count, requested, cursor, next, worker, item, calls>>

--------------------------------------------------------------------------------
CallerSteps == Enter \/ SerialCall \/ SerialReturn \/ Spawn \/ StartJoining \/ Join \/ Return
WorkerSteps(t) == Claim(t) \/ Finish(t)
Throws == SpawnFails \/ SerialCallFails \/ \E t \in Threads : CallFails(t)

Next == CallerSteps \/ Throws \/ \E t \in Threads : WorkerSteps(t)

Safe == Init /\ [][Next]_vars

\* The operating system runs every thread that can run, and fn, a pass over one
\* line, ends; no failure has to happen.
Fairness == /\ WF_vars(CallerSteps)
            /\ \A t \in Threads : WF_vars(WorkerSteps(t))

Spec == Safe /\ Fairness

--------------------------------------------------------------------------------
\* Every variable holds a value the code can give it; the caller's loop variable
\* never passes the number of indices.
TypeOK == /\ count \in Counts
          /\ requested \in Requests
          /\ caller \in {"enter", "serial", "spawn", "join", "returned", "threw", "terminated"}
          /\ cursor \in 0 .. count
          /\ next \in Nat
          /\ worker \in [Threads -> {"none", "claim", "run", "exited"}]
          /\ item \in [Threads -> Nat]
          /\ calls \in [Indices -> Nat]

\* When parallel_for returns, fn has been called for each index, and never twice:
\* the second pass of a level reads only finished lines.
ReturnedAfterEveryCall == caller = "returned" => \A i \in Indices : calls[i] = 1

\* No line is ever processed by two workers at once, nor again after it was
\* finished: workers write their lines without a lock.
LinesNotShared ==
  \A t \in Threads : worker[t] = "run" =>
    /\ item[t] \in Indices
    /\ calls[item[t]] = 0
    /\ \A u \in Threads \ {t} : worker[u] = "run" => item[u] # item[t]

\* The workers hold references to the caller's next, count and fn: none may be
\* alive once the call has returned or thrown.
NoWorkerOutlivesTheCall ==
  caller \in {"returned", "threw"} => \A t \in Threads : worker[t] \in {"none", "exited"}

\* Every call of parallel_for ends, also when a thread cannot be created or fn
\* throws.
Termination == <>Ended

--------------------------------------------------------------------------------
(* parallel_for implements ForEach *)

Promise == INSTANCE ForEach WITH
             status <- IF caller = "returned" THEN "returned"
                       ELSE IF Ended THEN "failed" ELSE "running"

\* Threads, counter and joins are an implementation of ForEach: an index is
\* applied at most once, nothing is applied after the return, and the return
\* comes after all of them.
ImplementsForEach == Promise!Spec
================================================================================
