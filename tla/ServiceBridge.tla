---------------------------- MODULE ServiceBridge ----------------------------
(***************************************************************************)
(* The desktop application's bridge to the privileged service:             *)
(* src/apps/os-desktop/src-tauri/src/service_bridge.rs and the command     *)
(* service_call of lib.rs.  Commands of the user interface run as tasks of *)
(* their own and share one bridge behind a fair mutex.  The holder writes  *)
(* its request to the service's stdin, a pipe, and polls the channel that  *)
(* a reader thread fills with the answers it finds on the service's        *)
(* stdout, for 30 seconds at most.  The service serves one request at a    *)
(* time, in the order of the pipe, and never learns that a caller gave up. *)
(***************************************************************************)
EXTENDS Integers, Sequences, FiniteSets

CONSTANTS
  Calls,     \* the calls of the user interface
  Startup,   \* the task that starts the service
  Keep,      \* eviction window: answers of the last Keep ids are kept
  Capacity   \* how many requests fit into the pipe

ASSUME StartupAssumption == Startup \notin Calls
ASSUME KeepAssumption == Keep \in Nat
ASSUME CapacityAssumption == Capacity \in Nat \ {0}

Tasks == Calls \cup {Startup}

VARIABLES
  step,      \* per task: new, queued for the mutex, writing, polling, done
  lock,      \* the tasks that hold (the first) or wait for the mutex
  running,   \* the bridge's `process' is Some
  alive,     \* the service's process runs
  nextId,    \* the next request id
  idOf,      \* per call: its request id, 0 when it has none
  pipe,      \* ids in the service's stdin
  serving,   \* the id the service serves, 0 for none, and whether it took effect
  ran,       \* history: the ids whose requests took effect, in order
  channel,   \* ids of answers that the bridge has not received yet
  buffered,  \* ids of answers received by a call that was not theirs
  answer     \* per call: what it returned

vars == <<step, lock, running, alive, nextId, idOf, pipe, serving, ran,
          channel, buffered, answer>>
bridge == <<step, lock, running, nextId, idOf, buffered, answer>>

Errors == {"unavailable", "write_failed", "timeout", "died"}
Holds(x, s) == lock # <<>> /\ Head(lock) = x /\ step[x] = s
NoRequest == [id |-> 0, done |-> FALSE]

-----------------------------------------------------------------------------
(* The tasks of the desktop application.                                   *)

\* The task reaches bridge.lock().await.
Enter(x) ==
  /\ step[x] = "new"
  /\ step' = [step EXCEPT ![x] = "queued"]
  /\ lock' = Append(lock, x)
  /\ UNCHANGED <<running, alive, nextId, idOf, pipe, serving, ran, channel, buffered, answer>>

Leave(x) ==
  /\ step' = [step EXCEPT ![x] = "done"]
  /\ lock' = Tail(lock)

Return(c, a) == Leave(c) /\ answer' = [answer EXCEPT ![c] = a]

\* The setup task: the binary may be missing, or not start.
Start ==
  /\ Holds(Startup, "queued")
  /\ Leave(Startup)
  /\ \E ok \in BOOLEAN : running' = ok /\ alive' = ok
  /\ UNCHANGED <<nextId, idOf, pipe, serving, ran, channel, buffered, answer>>

Unavailable(c) ==
  /\ Holds(c, "queued") /\ ~running
  /\ Return(c, "unavailable")
  /\ UNCHANGED <<running, alive, nextId, idOf, pipe, serving, ran, channel, buffered>>

\* Mutants: the mutex is released before the request is written; the counter
\* of ids wraps around.
BeginUnlocked(c) ==
  /\ Holds(c, "queued") /\ running
  /\ step' = [step EXCEPT ![c] = "writing"] /\ lock' = Tail(lock)
  /\ idOf' = [idOf EXCEPT ![c] = nextId]
  /\ nextId' = nextId + 1
  /\ UNCHANGED <<running, alive, pipe, serving, ran, channel, buffered, answer>>
BeginWrapped(c) ==
  /\ Holds(c, "queued") /\ running
  /\ step' = [step EXCEPT ![c] = "writing"]
  /\ idOf' = [idOf EXCEPT ![c] = 1 + ((nextId - 1) % 2)]
  /\ nextId' = nextId + 1
  /\ UNCHANGED <<lock, running, alive, pipe, serving, ran, channel, buffered, answer>>

Begin(c) ==
  /\ Holds(c, "queued") /\ running
  /\ step' = [step EXCEPT ![c] = "writing"]
  /\ idOf' = [idOf EXCEPT ![c] = nextId]
  /\ nextId' = nextId + 1
  /\ UNCHANGED <<lock, running, alive, pipe, serving, ran, channel, buffered, answer>>

\* retain(k > id.saturating_sub(50)), when there are more than 50
Evicted(id) ==
  IF Cardinality(buffered) > Keep THEN {k \in buffered : k > id - Keep} ELSE buffered

\* write_all returns when the whole request is in the pipe.
Write(c) ==
  /\ Holds(c, "writing") /\ alive
  /\ Len(pipe) < Capacity
  /\ pipe' = Append(pipe, idOf[c])
  /\ IF idOf[c] \in Evicted(idOf[c])
     THEN Return(c, "result") /\ buffered' = Evicted(idOf[c]) \ {idOf[c]}
     ELSE /\ step' = [step EXCEPT ![c] = "polling"]
          /\ buffered' = Evicted(idOf[c])
          /\ UNCHANGED <<lock, answer>>
  /\ UNCHANGED <<running, alive, nextId, idOf, serving, ran, channel>>

\* A broken pipe: `process' stays Some.
WriteFails(c) ==
  /\ Holds(c, "writing") /\ ~alive
  /\ Return(c, "write_failed")
  /\ UNCHANGED <<running, alive, nextId, idOf, pipe, serving, ran, channel, buffered>>

\* Mutant: the first answer is taken for the call's own.
ReceiveAny(c) ==
  /\ Holds(c, "polling") /\ channel # <<>>
  /\ channel' = Tail(channel)
  /\ Return(c, "result")
  /\ UNCHANGED <<running, alive, nextId, idOf, pipe, serving, ran, buffered>>

\* try_recv, Ok
Receive(c) ==
  /\ Holds(c, "polling") /\ channel # <<>>
  /\ channel' = Tail(channel)
  /\ IF Head(channel) = idOf[c]
     THEN Return(c, "result") /\ UNCHANGED buffered
     ELSE buffered' = buffered \cup {Head(channel)} /\ UNCHANGED <<step, lock, answer>>
  /\ UNCHANGED <<running, alive, nextId, idOf, pipe, serving, ran>>

\* Mutants: a request that timed out is sent again; the mutex is not released.
TimeOutRetries(c) ==
  /\ Holds(c, "polling") /\ channel = <<>>
  /\ Return(c, "timeout")
  /\ pipe' = IF Len(pipe) < Capacity /\ alive THEN Append(pipe, idOf[c]) ELSE pipe
  /\ UNCHANGED <<running, alive, nextId, idOf, serving, ran, channel, buffered>>
TimeOutLocked(c) ==
  /\ Holds(c, "polling") /\ channel = <<>>
  /\ step' = [step EXCEPT ![c] = "done"]
  /\ answer' = [answer EXCEPT ![c] = "timeout"]
  /\ UNCHANGED <<lock, running, alive, nextId, idOf, pipe, serving, ran, channel, buffered>>

\* try_recv, Empty, and the deadline has passed
TimeOut(c) ==
  /\ Holds(c, "polling") /\ channel = <<>>
  /\ Return(c, "timeout")
  /\ UNCHANGED <<running, alive, nextId, idOf, pipe, serving, ran, channel, buffered>>

\* try_recv, Disconnected
Disconnect(c) ==
  /\ Holds(c, "polling") /\ channel = <<>> /\ ~alive
  /\ Return(c, "died")
  /\ running' = FALSE
  /\ UNCHANGED <<alive, nextId, idOf, pipe, serving, ran, channel, buffered>>

-----------------------------------------------------------------------------
(* The service: serve() of ipc.rs.                                         *)

ReadRequest ==
  /\ alive /\ serving = NoRequest /\ pipe # <<>>
  /\ serving' = [id |-> Head(pipe), done |-> FALSE]
  /\ pipe' = Tail(pipe)
  /\ UNCHANGED <<bridge, alive, ran, channel>>

Execute ==
  /\ serving.id # 0 /\ ~serving.done
  /\ ran' = Append(ran, serving.id)
  /\ serving' = [serving EXCEPT !.done = TRUE]
  /\ UNCHANGED <<bridge, alive, pipe, channel>>

Respond ==
  /\ serving.done
  /\ channel' = Append(channel, serving.id)
  /\ serving' = NoRequest
  /\ UNCHANGED <<bridge, alive, pipe, ran>>

Die ==
  /\ alive
  /\ alive' = FALSE /\ serving' = NoRequest /\ pipe' = <<>>
  /\ UNCHANGED <<bridge, ran, channel>>

-----------------------------------------------------------------------------
Init ==
  /\ step = [x \in Tasks |-> "new"] /\ lock = <<>>
  /\ running = FALSE /\ alive = FALSE
  /\ nextId = 1 /\ idOf = [c \in Calls |-> 0]
  /\ pipe = <<>> /\ serving = NoRequest /\ ran = <<>>
  /\ channel = <<>> /\ buffered = {}
  /\ answer = [c \in Calls |-> "none"]

Call(c) ==
  \/ Unavailable(c) \/ Begin(c)
  \/ Write(c) \/ WriteFails(c)
  \/ Receive(c) \/ TimeOut(c) \/ Disconnect(c)

Holder == Start \/ \E c \in Calls : Call(c)
Service == ReadRequest \/ Execute \/ Respond

Next == (\E x \in Tasks : Enter(x)) \/ Holder \/ Service \/ Die

Spec == Init /\ [][Next]_vars

\* Whoever holds the mutex is scheduled by the runtime and polls a clock.
\* The service reads its next request once it has answered the last one, but
\* nothing says that it ever ends a request: the scripts it runs have no time
\* limit.
FairSpec == Spec /\ WF_vars(Holder) /\ WF_vars(ReadRequest) /\ WF_vars(Respond)

-----------------------------------------------------------------------------
(* Properties.                                                             *)

Ids == 1..(nextId - 1)

\* Every queue holds ids that were given out, and only the holder of the
\* mutex is past it.
TypeOK ==
  /\ step \in [Tasks -> {"new", "queued", "writing", "polling", "done"}]
  /\ lock \in Seq(Tasks)
  /\ running \in BOOLEAN /\ alive \in BOOLEAN
  /\ nextId \in Nat \ {0}
  /\ idOf \in [Calls -> Ids \cup {0}]
  /\ pipe \in Seq(Ids) /\ Len(pipe) <= Capacity
  /\ serving \in [id: Ids, done: BOOLEAN] \cup {NoRequest}
  /\ ran \in Seq(Ids) /\ channel \in Seq(Ids) /\ buffered \subseteq Ids
  /\ answer \in [Calls -> Errors \cup {"none", "result"}]
  /\ \A x \in Tasks : step[x] \in {"writing", "polling"} => Holds(x, step[x])

\* However many calls time out, the buffer holds no more than the window and
\* the answers that were outstanding in the pipe and in the service.
BufferBounded == Cardinality(buffered) <= Keep + Capacity + 1

\* An answer that is kept in the buffer or received late has no reader: its
\* call has returned.
LateAnswersAreOrphans ==
  \A c \in Calls : step[c] # "done" =>
    /\ idOf[c] \notin buffered
    /\ \A i \in DOMAIN channel : channel[i] = idOf[c] => i = Len(channel)

\* The buffer of late answers is bounded (service_bridge.rs:171-172, "prevent
\* unbounded memory growth") and serves nobody: the mutex admits one call at a
\* time, so that there is never another "caller that owns it" (line 199).
BufferHoldsOrphans == BufferBounded /\ LateAnswersAreOrphans

\* A call that was answered "timeout" or "died" may take effect, but no later
\* call takes effect before it: what the user interface sends after a timeout
\* meets a service that is done with the timed-out request, or lost it.
EffectsInOrder ==
  \A i, j \in DOMAIN ran : i < j => ran[i] < ran[j]

\* REQUEST_TIMEOUT and service_bridge.rs:186-189, "so the tokio runtime can
\* schedule other tasks while we wait": a call that has reached the mutex
\* returns, whatever the service does, unless the pipe fills up for good:
\* write_all has no time limit.
PipeDrains == []<>(Len(pipe) < Capacity)
EveryCallReturns ==
  PipeDrains => \A c \in Calls : step[c] = "queued" ~> step[c] = "done"

-----------------------------------------------------------------------------
(* The bridge implements RemoteCalls.                                      *)

CallOf(id) == CHOOSE c \in Calls : idOf[c] = id
Outcome(c) ==
  IF answer[c] = "none" THEN "open" ELSE IF answer[c] = "result" THEN "result" ELSE "error"

Remote == INSTANCE RemoteCalls
  WITH taken <- [id \in Ids |-> CallOf(id)],
       ran <- IF ran = <<>> THEN 0 ELSE ran[Len(ran)],
       effects <- {CallOf(ran[i]) : i \in DOMAIN ran},
       outcome <- [c \in Calls |-> Outcome(c)]

\* One answer per call, and a result is that of the call's own execution.
AnswersAreOwn == Remote!Spec
=============================================================================
