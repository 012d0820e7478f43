----------------------------- MODULE ChunkPool -----------------------------
(***************************************************************************)
(* The worker pool of BsdiffChunk.diff (src/tools/scripts/build_utils/     *)
(* bsdiff_chunk.py), from the -j option of main() to pool.join():          *)
(*                                                                         *)
(*   Init       main() parses -j and builds BsdiffChunk(threads=jobs),     *)
(*              whose constructor sets self.threads (lines 60-73, 339-375)*)
(*   CreatePool ThreadPool(multiprocessing.cpu_count()) (lines 235-238)    *)
(*   Take(w)    worker w takes the next chunk job from the task queue      *)
(*   Finish(w)  worker w returns its job's result                          *)
(*   Join       pool.map returns, pool.close(), pool.join() (lines 260-262)*)
(*                                                                         *)
(* What a job computes is BsdiffChunk's DiffChunk; here a job is its chunk *)
(* id.  pool.map cuts the job list into tasks of chunksize jobs, which is  *)
(* 1 while there are fewer than 4 jobs per worker.                         *)
(***************************************************************************)
EXTENDS Integers, Sequences, FiniteSets

CONSTANTS
  CpuCount,   \* multiprocessing.cpu_count()
  JobsArgs,   \* values the -j option may take (0: the default)
  MaxChunks,  \* the most chunk jobs a call submits
  Idle        \* a model value: a worker without a task

ASSUME CpuCount \in Nat \ {0}
ASSUME JobsArgs \subseteq Nat
ASSUME MaxChunks \in Nat \ {0}

VARIABLES
  threads,   \* self.threads
  chunks,    \* len(to_list): the jobs pool.map submits
  phase,     \* "start", "map" or "joined"
  poolSize,  \* the number of worker threads of the pool
  queue,     \* the task queue: chunk ids not yet taken
  running,   \* running[w]: the job worker w is running, or Idle
  finished   \* the jobs whose result is in

vars == <<threads, chunks, phase, poolSize, queue, running, finished>>

Workers == 1..CpuCount

Threads(jobs) == IF jobs = 0 THEN CpuCount ELSE jobs

Init ==
  /\ \E jobs \in JobsArgs : threads = Threads(jobs)
  /\ chunks \in 1..MaxChunks
  /\ phase = "start"
  /\ poolSize = 0
  /\ queue = <<>>
  /\ running = [w \in Workers |-> Idle]
  /\ finished = {}

\* The pool is sized by the CPU count; self.threads is only printed.
CreatePool ==
  /\ phase = "start"
  /\ poolSize' = CpuCount
  /\ queue' = [k \in 1..chunks |-> k - 1]
  /\ phase' = "map"
  /\ UNCHANGED <<threads, chunks, running, finished>>

Take(w) ==
  /\ phase = "map"
  /\ w <= poolSize
  /\ running[w] = Idle
  /\ queue # <<>>
  /\ running' = [running EXCEPT ![w] = Head(queue)]
  /\ queue' = Tail(queue)
  /\ UNCHANGED <<threads, chunks, phase, poolSize, finished>>

\* The worker puts its result in the result list and waits for a task.
Finish(w) ==
  /\ running[w] # Idle
  /\ finished' = finished \cup {running[w]}
  /\ running' = [running EXCEPT ![w] = Idle]

FinishStep(w) ==
  /\ phase = "map"
  /\ Finish(w)
  /\ UNCHANGED <<threads, chunks, phase, poolSize, queue>>

\* pool.map returns once every result is in; close and join then wait for
\* the workers.
Join ==
  /\ phase = "map"
  /\ finished = 0..chunks - 1
  /\ \A w \in Workers : running[w] = Idle
  /\ phase' = "joined"
  /\ UNCHANGED <<threads, chunks, poolSize, queue, running, finished>>

Next ==
  \/ CreatePool
  \/ \E w \in Workers : Take(w) \/ FinishStep(w)
  \/ Join

\* The pool's threads keep taking tasks while the queue holds any, and the
\* main thread resumes once pool.map has all results.
Fairness ==
  /\ WF_vars(CreatePool)
  /\ \A w \in Workers : WF_vars(Take(w)) /\ WF_vars(FinishStep(w))
  /\ WF_vars(Join)

Spec == Init /\ [][Next]_vars /\ Fairness

-----------------------------------------------------------------------------
(* Properties                                                              *)

TypeOK ==
  /\ threads \in Nat \ {0}
  /\ phase \in {"start", "map", "joined"}
  /\ queue \in Seq(0..MaxChunks - 1)
  /\ \A w \in Workers : running[w] = Idle \/ running[w] \in 0..MaxChunks - 1
  /\ finished \subseteq 0..MaxChunks - 1

\* The spec (section 5) runs the per-chunk diffs on a pool of `threads`
\* workers, `threads` being the -j option or the CPU count; the code sizes
\* the pool by cpu_count() (line 238), so more than `threads` chunks may be
\* diffed at once.
WithinThreads == Cardinality({w \in Workers : running[w] # Idle}) <= threads

=============================================================================
