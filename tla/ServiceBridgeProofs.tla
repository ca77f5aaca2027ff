------------------------- MODULE ServiceBridgeProofs -------------------------
(***************************************************************************)
(* Proofs about ServiceBridge: its type invariant, the order of effects,   *)
(* the buffer of late answers, and that the bridge implements RemoteCalls. *)
(***************************************************************************)
EXTENDS ServiceBridge, FiniteSetTheorems, SequenceTheorems, TLAPS

-----------------------------------------------------------------------------
(* The inductive strengthening of the safety properties.                   *)

Elements(s) == {s[i] : i \in DOMAIN s}
Busy(c) == step[c] \in {"writing", "polling"}
InService == IF serving = NoRequest THEN {} ELSE {serving.id}
Outstanding == Elements(channel) \cup InService \cup Elements(pipe)

\* Ids are given out one by one, each to one call, and the mutex makes the
\* call at work the one with the newest.
NewestAtWork ==
  /\ \A c \in Calls : step[c] \in {"new", "queued"} => idOf[c] = 0
  /\ \A c \in Calls : Busy(c) => idOf[c] # 0 /\ idOf[c] = nextId - 1
  /\ \A c, d \in Calls : idOf[c] = idOf[d] /\ idOf[c] # 0 => c = d
  /\ \A id \in Ids : \E c \in Calls : idOf[c] = id

\* Requests and answers pass pipe, service and channel in the order of the ids.
InOrder ==
  /\ \A i, j \in DOMAIN channel : i < j => channel[i] < channel[j]
  /\ \A i, j \in DOMAIN pipe : i < j => pipe[i] < pipe[j]
  /\ \A i \in DOMAIN channel, j \in DOMAIN pipe : channel[i] < pipe[j]
  /\ serving # NoRequest =>
       /\ \A i \in DOMAIN channel : channel[i] < serving.id
       /\ \A j \in DOMAIN pipe : serving.id < pipe[j]

\* An id that is not written yet is nowhere, an awaited one not put aside.
OwnIsAhead ==
  /\ \A c \in Calls : Busy(c) => idOf[c] \notin buffered
  /\ \A c \in Calls : step[c] = "writing" =>
       idOf[c] \notin Outstanding \cup Elements(ran)

\* Effects precede the requests that are still to be executed.
EffectsBehind ==
  /\ EffectsInOrder
  /\ \A i \in DOMAIN ran, j \in DOMAIN pipe : ran[i] < pipe[j]
  /\ serving # NoRequest =>
       \A i \in DOMAIN ran : ran[i] < serving.id \/ (serving.done /\ ran[i] = serving.id)

\* An answer is that of an executed request.
AnsweredWasRun ==
  /\ Elements(channel) \cup buffered \subseteq Elements(ran)
  /\ serving.done => serving.id \in Elements(ran)
  /\ \A c \in Calls : step[c] # "done" => answer[c] = "none"

\* While nobody polls, at most the pipe and the service are to be worked off;
\* what is put aside while a call polls was outstanding when it was written.
BacklogBounded ==
  /\ IsFiniteSet(buffered) /\ BufferBounded
  /\ (\A c \in Calls : step[c] # "polling") => Cardinality(Outstanding) <= Capacity + 1
  /\ \A c \in Calls : step[c] = "polling" =>
       Cardinality(buffered \cup (Outstanding \ {idOf[c]})) <= Keep + Capacity + 1

IInv ==
  /\ TypeOK /\ NewestAtWork /\ InOrder /\ OwnIsAhead
  /\ EffectsBehind /\ AnsweredWasRun /\ BacklogBounded

-----------------------------------------------------------------------------
(* Sequences.                                                              *)

LEMMA TailLemma ==
  ASSUME NEW S, NEW s \in Seq(S), s # <<>>
  PROVE  /\ Tail(s) \in Seq(S) /\ Head(s) \in S /\ Len(s) \in Nat \ {0}
         /\ DOMAIN s = 1 .. Len(s) /\ Head(s) = s[1]
         /\ Len(Tail(s)) = Len(s) - 1
         /\ DOMAIN Tail(s) = 1 .. (Len(s) - 1)
         /\ \A i \in 1 .. (Len(s) - 1) : Tail(s)[i] = s[i + 1] /\ i + 1 \in DOMAIN s
OBVIOUS

LEMMA AppendLemma ==
  ASSUME NEW S, NEW s \in Seq(S), NEW e \in S
  PROVE  /\ Append(s, e) \in Seq(S) /\ Len(s) \in Nat
         /\ DOMAIN s = 1 .. Len(s)
         /\ Len(Append(s, e)) = Len(s) + 1
         /\ DOMAIN Append(s, e) = 1 .. (Len(s) + 1)
         /\ Append(s, e)[Len(s) + 1] = e
         /\ \A i \in 1 .. Len(s) : Append(s, e)[i] = s[i]
         /\ s # <<>> => Head(Append(s, e)) = Head(s)
OBVIOUS

Ascending(s) == \A i, j \in DOMAIN s : i < j => s[i] < s[j]

LEMMA TailAscending ==
  ASSUME NEW s \in Seq(Int), s # <<>>, Ascending(s)
  PROVE  /\ Ascending(Tail(s)) /\ 1 \in DOMAIN s
         /\ \A i \in DOMAIN Tail(s) : s[1] < Tail(s)[i]
         /\ \A i \in DOMAIN Tail(s) : \E k \in DOMAIN s : Tail(s)[i] = s[k]
<1>1. \A i \in DOMAIN Tail(s) : Tail(s)[i] = s[i + 1] /\ i + 1 \in DOMAIN s /\ i \in Nat /\ 1 < i + 1
  BY TailLemma
<1>2. 1 \in DOMAIN s
  BY TailLemma
<1>3. \A i \in DOMAIN Tail(s) : s[1] < Tail(s)[i]
  BY <1>1, <1>2 DEF Ascending
<1>4. ASSUME NEW i \in DOMAIN Tail(s), NEW j \in DOMAIN Tail(s), i < j
      PROVE  Tail(s)[i] < Tail(s)[j]
  <2>1. i + 1 < j + 1 /\ i + 1 \in DOMAIN s /\ j + 1 \in DOMAIN s
    BY <1>1, <1>4
  <2> QED BY <1>1, <2>1 DEF Ascending
<1> QED BY <1>1, <1>2, <1>3, <1>4 DEF Ascending

LEMMA AppendAscending ==
  ASSUME NEW s \in Seq(Int), NEW e \in Int, Ascending(s), \A i \in DOMAIN s : s[i] < e
  PROVE  /\ Ascending(Append(s, e))
         /\ \A i \in DOMAIN Append(s, e) :
              (i \in DOMAIN s /\ Append(s, e)[i] = s[i]) \/ Append(s, e)[i] = e
<1>1. \A i \in DOMAIN Append(s, e) :
        (i \in DOMAIN s /\ Append(s, e)[i] = s[i]) \/ (i = Len(s) + 1 /\ Append(s, e)[i] = e)
  BY AppendLemma
<1>2. Len(s) \in Nat /\ DOMAIN s = 1 .. Len(s)
  BY AppendLemma
<1>3. ASSUME NEW i \in DOMAIN Append(s, e), NEW j \in DOMAIN Append(s, e), i < j
      PROVE  Append(s, e)[i] < Append(s, e)[j]
  <2>1. i \in DOMAIN s
    BY <1>1, <1>2, <1>3, AppendLemma
  <2>2. CASE j \in DOMAIN s
    BY <1>1, <1>2, <1>3, <2>1, <2>2 DEF Ascending
  <2>3. CASE j = Len(s) + 1
    BY <1>1, <1>2, <2>1, <2>3
  <2> QED BY <1>1, <2>2, <2>3
<1> QED BY <1>1, <1>3 DEF Ascending

LEMMA ElementsTail ==
  ASSUME NEW S, NEW s \in Seq(S), s # <<>>
  PROVE  Elements(s) = {Head(s)} \cup Elements(Tail(s))
<1>1. \A i \in DOMAIN s : i = 1 \/ (i - 1 \in DOMAIN Tail(s) /\ Tail(s)[i - 1] = s[i])
  BY TailLemma
<1>2. ASSUME NEW e \in Elements(s) PROVE e \in {Head(s)} \cup Elements(Tail(s))
  <2>1. PICK i \in DOMAIN s : e = s[i]
    BY DEF Elements
  <2>2. CASE i = 1
    BY <2>1, <2>2, TailLemma
  <2>3. CASE i - 1 \in DOMAIN Tail(s) /\ Tail(s)[i - 1] = s[i]
    BY <2>1, <2>3 DEF Elements
  <2> QED BY <1>1, <2>2, <2>3
<1>3. Head(s) \in Elements(s) /\ Elements(Tail(s)) \subseteq Elements(s)
  BY TailLemma DEF Elements
<1> QED BY <1>2, <1>3

LEMMA ElementsAppend ==
  ASSUME NEW S, NEW s \in Seq(S), NEW e \in S
  PROVE  Elements(Append(s, e)) = Elements(s) \cup {e}
BY AppendLemma DEF Elements

LEMMA ElementsIn ==
  ASSUME NEW S, NEW s \in Seq(S)
  PROVE  Elements(s) \subseteq S
BY DEF Elements

LEMMA ElementsFinite ==
  ASSUME NEW S, NEW s \in Seq(S)
  PROVE  IsFiniteSet(Elements(s)) /\ Cardinality(Elements(s)) <= Len(s)
<1>0. Len(s) \in Nat
  OBVIOUS
<1>1. IsFiniteSet(1 .. Len(s)) /\ Cardinality(1 .. Len(s)) = Len(s)
  BY <1>0, FS_Interval
<1>2. [i \in 1 .. Len(s) |-> s[i]] \in Surjection(1 .. Len(s), Elements(s))
  BY DEF Surjection, Elements
<1> QED BY <1>1, <1>2, FS_Surjection

-----------------------------------------------------------------------------
(* Type correctness.                                                       *)

\* More ids are given out, none is taken back.
LEMMA MoreIds ==
  ASSUME NEW m \in Nat, NEW n \in Nat, m <= n
  PROVE  /\ 1 .. m \subseteq 1 .. n
         /\ \A s \in Seq(1 .. m) : s \in Seq(1 .. n)
<1>1. 1 .. m \subseteq 1 .. n OBVIOUS
<1> QED BY <1>1, SeqMonotonic

LEMMA InitIInv == Init => IInv
<1> SUFFICES ASSUME Init PROVE IInv
  OBVIOUS
<1> USE DEF Init
<1>1. Ids = {}
  BY DEF Ids
<1>2. TypeOK
  <2>1. pipe \in Seq(Ids) /\ lock \in Seq(Tasks) /\ ran \in Seq(Ids) /\ channel \in Seq(Ids)
    BY EmptySeq
  <2>2. Len(pipe) <= Capacity
    BY CapacityAssumption
  <2>3. /\ idOf \in [Calls -> Ids \cup {0}]
        /\ answer \in [Calls -> Errors \cup {"none", "result"}]
        /\ step \in [Tasks -> {"new", "queued", "writing", "polling", "done"}]
    OBVIOUS
  <2>4. nextId \in Nat \ {0} /\ buffered \subseteq Ids
    OBVIOUS
  <2>5. \A x \in Tasks : step[x] \in {"writing", "polling"} => Holds(x, step[x])
    OBVIOUS
  <2>6. serving \in [id: Ids, done: BOOLEAN] \cup {NoRequest}
    OBVIOUS
  <2>7. running \in BOOLEAN /\ alive \in BOOLEAN
    BY Zenon
  <2> HIDE DEF Init
  <2> QED BY <2>1, <2>2, <2>3, <2>4, <2>5, <2>6, <2>7 DEF TypeOK
<1>3. Elements(channel) = {} /\ Elements(pipe) = {} /\ Outstanding = {}
  BY DEF Elements, Outstanding, InService
<1>4. NewestAtWork /\ InOrder /\ OwnIsAhead
  BY <1>1 DEF NewestAtWork, InOrder, OwnIsAhead, Busy, Tasks
<1>5. EffectsBehind /\ AnsweredWasRun
  BY <1>3 DEF EffectsBehind, EffectsInOrder, AnsweredWasRun, NoRequest, Tasks
<1>6. BacklogBounded
  <2>1. IsFiniteSet({}) /\ Cardinality({}) = 0
    BY FS_EmptySet
  <2> QED BY <2>1, <1>3, KeepAssumption, CapacityAssumption DEF BacklogBounded, BufferBounded, Tasks
<1> QED BY <1>2, <1>4, <1>5, <1>6 DEF IInv

\* The holder of the mutex returns.
LEMMA ReturnType ==
  ASSUME TypeOK, NEW c \in Calls, NEW s, Holds(c, s),
         NEW a \in Errors \cup {"result"}, Return(c, a)
  PROVE  /\ step' \in [Tasks -> {"new", "queued", "writing", "polling", "done"}]
         /\ lock' \in Seq(Tasks)
         /\ answer' \in [Calls -> Errors \cup {"none", "result"}]
         /\ \A x \in Tasks : step'[x] \notin {"writing", "polling"}
<1>1. lock' \in Seq(Tasks)
  BY TailLemma DEF TypeOK, Holds, Return, Leave
<1>2. answer' \in [Calls -> Errors \cup {"none", "result"}]
  BY DEF TypeOK, Return
<1>3. step' = [step EXCEPT ![c] = "done"] /\ c \in Tasks /\ Head(lock) = c
  BY DEF Return, Leave, Holds, Tasks
<1> QED BY <1>1, <1>2, <1>3 DEF TypeOK, Holds

LEMMA TypeInductive ==
  ASSUME TypeOK, NewestAtWork, [Next]_vars
  PROVE  TypeOK'
<1> USE DEF TypeOK
<1>0. CASE UNCHANGED vars
  BY <1>0 DEF vars, Holds, Ids
<1>1. ASSUME NEW x \in Tasks, Enter(x) PROVE TypeOK'
  <2>1. lock' \in Seq(Tasks) /\ (lock # <<>> => lock' # <<>> /\ Head(lock') = Head(lock))
    BY <1>1, AppendLemma, EmptySeq DEF Enter
  <2>2. \A y \in Tasks : step'[y] \in {"writing", "polling"} => Holds(y, step[y])'
    BY <1>1, <2>1 DEF Enter, Holds
  <2> QED BY <1>1, <2>1, <2>2 DEF Enter, Ids
<1>2. CASE Start
  BY <1>2 DEF Start, Leave, Holds, Ids, Tasks
<1>3. ASSUME NEW c \in Calls, Unavailable(c) PROVE TypeOK'
  BY <1>3, ReturnType DEF Unavailable, Ids, Errors
<1>4. ASSUME NEW c \in Calls, Begin(c) PROVE TypeOK'
  <2>1. nextId' = nextId + 1 /\ Ids' = 1 .. nextId /\ Ids = 1 .. (nextId - 1)
    BY <1>4 DEF Begin, Ids
  <2>2. Ids \subseteq Ids' /\ nextId \in Ids' /\ \A s \in Seq(Ids) : s \in Seq(Ids')
    BY <2>1, MoreIds
  <2>3. /\ pipe' \in Seq(Ids') /\ ran' \in Seq(Ids') /\ channel' \in Seq(Ids')
        /\ Len(pipe') <= Capacity /\ buffered' \subseteq Ids'
        /\ serving' \in [id: Ids', done: BOOLEAN] \cup {NoRequest}
    BY <1>4, <2>2 DEF Begin
  <2>4. idOf' \in [Calls -> Ids' \cup {0}]
    BY <1>4, <2>2 DEF Begin
  <2>5. \A x \in Tasks : step'[x] \in {"writing", "polling"} => Holds(x, step[x])'
    BY <1>4 DEF Begin, Holds, Tasks
  <2> QED BY <1>4, <2>1, <2>3, <2>4, <2>5 DEF Begin, Tasks
<1>5. ASSUME NEW c \in Calls, Write(c) PROVE TypeOK'
  <2>1. idOf[c] \in Ids
    BY <1>5 DEF Write, Holds, NewestAtWork, Busy
  <2>2. pipe' \in Seq(Ids) /\ Len(pipe') <= Capacity
    BY <1>5, <2>1, AppendLemma, CapacityAssumption DEF Write
  <2>3. buffered' \subseteq Ids
    BY <1>5 DEF Write, Evicted
  <2>4. CASE idOf[c] \in Evicted(idOf[c])
    BY <1>5, <2>2, <2>3, <2>4, ReturnType DEF Write, Ids
  <2>5. CASE idOf[c] \notin Evicted(idOf[c])
    <3>1. \A x \in Tasks : step'[x] \in {"writing", "polling"} => Holds(x, step[x])'
      BY <1>5, <2>5 DEF Write, Holds, Tasks
    <3> QED BY <1>5, <2>2, <2>3, <2>5, <3>1 DEF Write, Ids
  <2> QED BY <2>4, <2>5
<1>6. ASSUME NEW c \in Calls, WriteFails(c) PROVE TypeOK'
  BY <1>6, ReturnType DEF WriteFails, Ids, Errors
<1>7. ASSUME NEW c \in Calls, Receive(c) PROVE TypeOK'
  <2>1. channel' \in Seq(Ids) /\ buffered' \subseteq Ids
    BY <1>7, TailLemma DEF Receive
  <2>2. CASE Head(channel) = idOf[c]
    BY <1>7, <2>1, <2>2, ReturnType DEF Receive, Ids
  <2>3. CASE Head(channel) # idOf[c]
    BY <1>7, <2>1, <2>3 DEF Receive, Ids, Holds
  <2> QED BY <2>2, <2>3
<1>8. ASSUME NEW c \in Calls, TimeOut(c) PROVE TypeOK'
  BY <1>8, ReturnType DEF TimeOut, Ids, Errors
<1>9. ASSUME NEW c \in Calls, Disconnect(c) PROVE TypeOK'
  BY <1>9, ReturnType DEF Disconnect, Ids, Errors
<1>10. CASE ReadRequest
  <2>1. Head(pipe) \in Ids /\ pipe' \in Seq(Ids) /\ Len(pipe') <= Capacity
    BY <1>10, TailLemma, CapacityAssumption DEF ReadRequest
  <2> QED BY <1>10, <2>1 DEF ReadRequest, bridge, Holds, Ids
<1>11. CASE Execute
  <2>0. serving \in [id: Ids, done: BOOLEAN]
    BY <1>11 DEF Execute, NoRequest
  <2>1. serving.id \in Ids /\ ran' \in Seq(Ids)
    BY <1>11, <2>0, AppendLemma DEF Execute
  <2>2. serving' \in [id: Ids, done: BOOLEAN]
    BY <1>11, <2>0 DEF Execute
  <2> QED BY <1>11, <2>1, <2>2 DEF Execute, bridge, Holds, Ids
<1>12. CASE Respond
  <2>1. serving.id \in Ids /\ channel' \in Seq(Ids)
    BY <1>12, AppendLemma DEF Respond, NoRequest
  <2> QED BY <1>12, <2>1 DEF Respond, bridge, Holds, Ids
<1>13. CASE Die
  <2>1. Ids' = Ids
    BY <1>13 DEF Die, bridge, Ids
  <2>2. pipe' \in Seq(Ids) /\ Len(pipe') <= Capacity
    BY <1>13, EmptySeq, CapacityAssumption DEF Die
  <2> QED BY <1>13, <2>1, <2>2 DEF Die, bridge, Holds
<1> QED BY <1>0, <1>1, <1>2, <1>3, <1>4, <1>5, <1>6, <1>7, <1>8, <1>9, <1>10, <1>11, <1>12, <1>13
        DEF Next, Holder, Call, Service

-----------------------------------------------------------------------------
(* The inductive invariant, conjunct by conjunct.                          *)

\* At most one call is at work.
LEMMA OneAtWork ==
  ASSUME TypeOK, NEW c \in Calls, NEW d \in Calls, Busy(c), Busy(d)
  PROVE  c = d
BY DEF TypeOK, Busy, Holds, Tasks

\* A step of the service or of a task that returns gives out no id.
LEMMA NewestInductive ==
  ASSUME TypeOK, NewestAtWork, [Next]_vars
  PROVE  NewestAtWork'
<1> USE DEF NewestAtWork, Busy
<1>1. CASE UNCHANGED <<step, idOf, nextId>>
  BY <1>1 DEF Ids
<1>2. ASSUME NEW x \in Tasks, UNCHANGED <<idOf, nextId>>,
             \/ step' = [step EXCEPT ![x] = "done"]
             \/ step[x] = "new" /\ step' = [step EXCEPT ![x] = "queued"]
             \/ step[x] = "writing" /\ step' = [step EXCEPT ![x] = "polling"]
      PROVE  NewestAtWork'
  BY <1>2 DEF TypeOK, Ids, Tasks
<1>3. ASSUME NEW c \in Calls, Begin(c) PROVE NewestAtWork'
  <2>1. /\ step[c] = "queued" /\ idOf[c] = 0
        /\ step' = [step EXCEPT ![c] = "writing"]
        /\ idOf' = [idOf EXCEPT ![c] = nextId] /\ nextId' = nextId + 1
    BY <1>3 DEF Begin, Holds
  <2>11. nextId \in Nat \ {0} /\ \A d \in Calls : idOf[d] < nextId
    <3>1. nextId \in Nat \ {0}
      BY DEF TypeOK
    <3>2. ASSUME NEW d \in Calls PROVE idOf[d] < nextId
      <4>1. idOf[d] \in 1 .. (nextId - 1) \/ idOf[d] = 0
        BY DEF TypeOK, Ids
      <4> QED BY <3>1, <4>1
    <3> QED BY <3>1, <3>2
  <2>2. \A d \in Calls : Busy(d) => d = c
    BY <1>3 DEF Begin, Holds, TypeOK, Tasks
  <2>3. \A d \in Calls : Busy(d)' => d = c
    BY <2>1, <2>2 DEF TypeOK, Tasks
  <2>4. \A id \in Ids' : id = nextId \/ id \in Ids
    BY <2>1, <2>11 DEF Ids
  <2>5. \A id \in Ids' : \E d \in Calls : idOf'[d] = id
    <3> SUFFICES ASSUME NEW id \in Ids' PROVE \E d \in Calls : idOf'[d] = id
      OBVIOUS
    <3>1. CASE id = nextId
      BY <3>1, <2>1 DEF TypeOK
    <3>2. CASE id \in Ids
      <4>1. PICK d \in Calls : idOf[d] = id
        BY <3>2
      <4>2. id # 0
        BY <3>2 DEF Ids
      <4> QED BY <4>1, <4>2, <2>1 DEF TypeOK
    <3> QED BY <2>4, <3>1, <3>2
  <2>6. \A d \in Calls : step'[d] \in {"new", "queued"} => idOf'[d] = 0
    BY <2>1 DEF TypeOK, Tasks
  <2>7. \A d \in Calls : Busy(d)' => idOf'[d] # 0 /\ idOf'[d] = nextId' - 1
    BY <2>1, <2>11, <2>3 DEF TypeOK
  <2>8. \A d, e \in Calls : idOf'[d] = idOf'[e] /\ idOf'[d] # 0 => d = e
    BY <2>1, <2>11 DEF TypeOK
  <2> QED BY <2>5, <2>6, <2>7, <2>8
<1>4. ASSUME NEW c \in Calls, Write(c) PROVE NewestAtWork'
  BY <1>4, <1>2 DEF Write, Return, Leave, Holds, Tasks
<1>5. ASSUME NEW c \in Calls, Receive(c) PROVE NewestAtWork'
  BY <1>5, <1>1, <1>2 DEF Receive, Return, Leave, Tasks
<1>6. ASSUME NEW c \in Calls, Unavailable(c) \/ WriteFails(c) \/ TimeOut(c) \/ Disconnect(c)
      PROVE  NewestAtWork'
  BY <1>6, <1>2 DEF Unavailable, WriteFails, TimeOut, Disconnect, Return, Leave, Tasks
<1>7. ASSUME NEW x \in Tasks, Enter(x) PROVE NewestAtWork'
  BY <1>7, <1>2 DEF Enter
<1>8. CASE Start
  BY <1>8, <1>2 DEF Start, Leave, Tasks
<1>9. CASE Service \/ Die
  BY <1>9, <1>1 DEF Service, ReadRequest, Execute, Respond, Die, bridge
<1>10. CASE UNCHANGED vars
  BY <1>10, <1>1 DEF vars
<1> QED BY <1>3, <1>4, <1>5, <1>6, <1>7, <1>8, <1>9, <1>10 DEF Next, Holder, Call

\* What is written now is newer than anything outstanding, executed or put aside.
LEMMA WriterIsNewest ==
  ASSUME TypeOK, NewestAtWork, OwnIsAhead, NEW c \in Calls, step[c] = "writing"
  PROVE  /\ idOf[c] \in Ids /\ idOf[c] = nextId - 1
         /\ \A i \in DOMAIN channel : channel[i] < idOf[c]
         /\ \A i \in DOMAIN pipe : pipe[i] < idOf[c]
         /\ \A i \in DOMAIN ran : ran[i] < idOf[c]
         /\ serving # NoRequest => serving.id < idOf[c]
<1>1. idOf[c] \in Ids /\ idOf[c] = nextId - 1
  BY DEF TypeOK, NewestAtWork, Busy
<1>2. /\ \A i \in DOMAIN channel : channel[i] \in Ids /\ channel[i] # idOf[c]
      /\ \A i \in DOMAIN pipe : pipe[i] \in Ids /\ pipe[i] # idOf[c]
      /\ \A i \in DOMAIN ran : ran[i] \in Ids /\ ran[i] # idOf[c]
  BY DEF TypeOK, OwnIsAhead, Outstanding, Elements
<1>3. serving # NoRequest => serving.id \in Ids /\ serving.id # idOf[c]
  BY DEF TypeOK, OwnIsAhead, Outstanding, InService
<1>4. nextId \in Nat /\ \A id \in Ids : id # nextId - 1 => id < nextId - 1
  BY DEF TypeOK, Ids
<1> QED BY <1>1, <1>2, <1>3, <1>4

LEMMA QueueTypes ==
  ASSUME TypeOK
  PROVE  /\ pipe \in Seq(Int) /\ channel \in Seq(Int) /\ ran \in Seq(Int)
         /\ serving.id \in Int /\ serving.done \in BOOLEAN
<1>1. Ids \subseteq Int
  BY DEF Ids
<1>2. pipe \in Seq(Int) /\ channel \in Seq(Int) /\ ran \in Seq(Int)
  BY <1>1, SeqMonotonic DEF TypeOK
<1>3. CASE serving = NoRequest
  BY <1>2, <1>3 DEF NoRequest
<1>4. CASE serving \in [id: Ids, done: BOOLEAN]
  BY <1>1, <1>2, <1>4
<1> QED BY <1>3, <1>4 DEF TypeOK

LEMMA OrderInductive ==
  ASSUME TypeOK, NewestAtWork, OwnIsAhead, InOrder, [Next]_vars
  PROVE  InOrder'
<1> USE QueueTypes DEF InOrder
<1>1. CASE UNCHANGED <<pipe, serving, channel>>
  BY <1>1
<1>2. ASSUME NEW c \in Calls, Write(c) PROVE InOrder'
  <2>1. /\ pipe' = Append(pipe, idOf[c]) /\ UNCHANGED <<serving, channel>>
        /\ idOf[c] \in Int
        /\ \A i \in DOMAIN channel : channel[i] < idOf[c]
        /\ \A i \in DOMAIN pipe : pipe[i] < idOf[c]
        /\ serving # NoRequest => serving.id < idOf[c]
    BY <1>2, WriterIsNewest DEF Write, Holds, Ids
  <2>2. Ascending(pipe') /\ \A i \in DOMAIN pipe' :
          (i \in DOMAIN pipe /\ pipe'[i] = pipe[i]) \/ pipe'[i] = idOf[c]
    BY <2>1, AppendAscending DEF Ascending
  <2> QED BY <2>1, <2>2 DEF Ascending
<1>3. ASSUME NEW c \in Calls, Receive(c) PROVE InOrder'
  <2>1. channel # <<>> /\ channel' = Tail(channel) /\ UNCHANGED <<serving, pipe>>
    BY <1>3 DEF Receive
  <2>2. Ascending(channel') /\ \A i \in DOMAIN channel' : \E k \in DOMAIN channel : channel'[i] = channel[k]
    BY <2>1, TailAscending DEF Ascending
  <2> QED BY <2>1, <2>2 DEF Ascending
<1>4. CASE ReadRequest
  <2>1. /\ pipe # <<>> /\ pipe' = Tail(pipe) /\ UNCHANGED channel
        /\ serving'.id = Head(pipe)
    BY <1>4 DEF ReadRequest
  <2>2. /\ Ascending(pipe') /\ 1 \in DOMAIN pipe /\ Head(pipe) = pipe[1]
        /\ \A i \in DOMAIN pipe' : pipe[1] < pipe'[i]
        /\ \A i \in DOMAIN pipe' : \E k \in DOMAIN pipe : pipe'[i] = pipe[k]
    BY <2>1, TailAscending, TailLemma DEF Ascending
  <2> QED BY <2>1, <2>2 DEF Ascending
<1>5. CASE Execute
  <2>1. serving'.id = serving.id /\ serving # NoRequest /\ UNCHANGED <<pipe, channel>>
    BY <1>5 DEF Execute, NoRequest, TypeOK
  <2> QED BY <2>1
<1>6. CASE Respond
  <2>1. /\ serving # NoRequest /\ serving' = NoRequest /\ UNCHANGED pipe
        /\ channel' = Append(channel, serving.id)
    BY <1>6 DEF Respond, NoRequest
  <2>2. Ascending(channel') /\ \A i \in DOMAIN channel' :
          (i \in DOMAIN channel /\ channel'[i] = channel[i]) \/ channel'[i] = serving.id
    BY <2>1, AppendAscending DEF Ascending
  <2> QED BY <2>1, <2>2 DEF Ascending
<1>7. CASE Die
  <2>1. pipe' = <<>> /\ serving' = NoRequest /\ UNCHANGED channel /\ DOMAIN pipe' = {}
    BY <1>7, EmptySeq DEF Die, bridge
  <2> QED BY <2>1
<1>8. ASSUME NEW c \in Calls,
             Unavailable(c) \/ Begin(c) \/ WriteFails(c) \/ TimeOut(c) \/ Disconnect(c)
      PROVE  InOrder'
  BY <1>8, <1>1 DEF Unavailable, Begin, WriteFails, TimeOut, Disconnect
<1>9. CASE Start \/ (\E x \in Tasks : Enter(x)) \/ UNCHANGED vars
  BY <1>9, <1>1 DEF Start, Enter, vars
<1> QED BY <1>2, <1>3, <1>4, <1>5, <1>6, <1>7, <1>8, <1>9 DEF Next, Holder, Call, Service

\* What each step makes of the outstanding requests and answers.
LEMMA OutstandingSteps ==
  ASSUME TypeOK, NewestAtWork
  PROVE  /\ \A c \in Calls : Write(c) => Outstanding' = Outstanding \cup {idOf[c]}
         /\ \A c \in Calls : Receive(c) => Outstanding = Outstanding' \cup {Head(channel)}
         /\ ReadRequest \/ Respond \/ Execute => Outstanding' = Outstanding
         /\ Die => Outstanding' \subseteq Outstanding
<1> USE DEF Outstanding
<1>1. ASSUME NEW c \in Calls, Write(c) PROVE Outstanding' = Outstanding \cup {idOf[c]}
  <2>1. idOf[c] \in Ids /\ pipe \in Seq(Ids) /\ pipe' = Append(pipe, idOf[c])
        /\ UNCHANGED <<channel, serving>>
    BY <1>1 DEF Write, Holds, NewestAtWork, Busy, TypeOK
  <2>2. Elements(pipe') = Elements(pipe) \cup {idOf[c]}
    BY <2>1, ElementsAppend
  <2>3. Elements(channel') = Elements(channel) /\ InService' = InService
    BY <2>1 DEF InService
  <2> QED BY <2>2, <2>3 DEF Elements
<1>2. ASSUME NEW c \in Calls, Receive(c) PROVE Outstanding = Outstanding' \cup {Head(channel)}
  <2>1. channel \in Seq(Ids) /\ channel # <<>> /\ channel' = Tail(channel)
        /\ UNCHANGED <<pipe, serving>>
    BY <1>2 DEF Receive, TypeOK
  <2>2. Elements(channel) = {Head(channel)} \cup Elements(channel')
    BY <2>1, ElementsTail
  <2>3. Elements(pipe') = Elements(pipe) /\ InService' = InService
    BY <2>1 DEF InService
  <2> QED BY <2>2, <2>3 DEF Elements
<1>3. ASSUME ReadRequest PROVE Outstanding' = Outstanding
  <2>1. /\ pipe \in Seq(Ids) /\ pipe # <<>> /\ pipe' = Tail(pipe) /\ UNCHANGED channel
        /\ serving = NoRequest /\ serving' = [id |-> Head(pipe), done |-> FALSE]
    BY <1>3 DEF ReadRequest, TypeOK
  <2>2. Elements(pipe) = {Head(pipe)} \cup Elements(pipe')
    BY <2>1, ElementsTail
  <2>3. serving' # NoRequest
    <3>1. Head(pipe) \in 1 .. (nextId - 1)
      BY <2>1, TailLemma DEF Ids
    <3>2. Head(pipe) # 0
      BY <3>1
    <3> QED BY <2>1, <3>2 DEF NoRequest
  <2>4. InService = {} /\ InService' = {Head(pipe)} /\ Elements(channel') = Elements(channel)
    BY <2>1, <2>3 DEF InService
  <2> QED BY <2>2, <2>4 DEF Elements
<1>4. ASSUME Respond PROVE Outstanding' = Outstanding
  <2>1. /\ serving # NoRequest /\ serving' = NoRequest /\ UNCHANGED pipe
        /\ channel' = Append(channel, serving.id)
    BY <1>4 DEF Respond, NoRequest
  <2>2. Elements(channel') = Elements(channel) \cup {serving.id}
    BY <2>1, ElementsAppend, QueueTypes
  <2>3. InService = {serving.id} /\ InService' = {} /\ Elements(pipe') = Elements(pipe)
    BY <2>1 DEF InService
  <2> QED BY <2>2, <2>3 DEF Elements
<1>5. ASSUME Execute PROVE Outstanding' = Outstanding
  <2>1. /\ serving # NoRequest /\ serving' # NoRequest /\ serving'.id = serving.id
        /\ UNCHANGED <<pipe, channel>>
    BY <1>5 DEF Execute, NoRequest, TypeOK
  <2> QED BY <2>1 DEF InService, Elements
<1>6. ASSUME Die PROVE Outstanding' \subseteq Outstanding
  <2>1. pipe' = <<>> /\ serving' = NoRequest /\ UNCHANGED channel
    BY <1>6 DEF Die
  <2>2. Elements(pipe') = {} /\ InService' = {} /\ Elements(channel') = Elements(channel)
    BY <2>1, EmptySeq DEF InService, Elements
  <2> QED BY <2>2
<1> HIDE DEF Outstanding
<1> QED BY <1>1, <1>2, <1>3, <1>4, <1>5, <1>6

LEMMA OutstandingTypes ==
  ASSUME TypeOK
  PROVE  Outstanding \cup buffered \cup Elements(ran) \subseteq Ids
<1>1. Elements(channel) \cup Elements(pipe) \cup Elements(ran) \subseteq Ids
  BY ElementsIn DEF TypeOK
<1>2. InService \subseteq Ids
  BY DEF InService, TypeOK
<1> QED BY <1>1, <1>2 DEF Outstanding, TypeOK

\* A call that returns was the only one at work.
LEMMA NobodyAtWork ==
  ASSUME TypeOK, NEW x \in Tasks, NEW s, Holds(x, s), Leave(x)
  PROVE  \A c \in Calls : ~Busy(c)'
BY DEF TypeOK, Holds, Leave, Busy, Tasks

LEMMA OwnInductive ==
  ASSUME TypeOK, NewestAtWork, OwnIsAhead, [Next]_vars
  PROVE  OwnIsAhead'
<1> USE DEF OwnIsAhead
<1>1. ASSUME Outstanding' \subseteq Outstanding, Elements(ran') \subseteq Elements(ran) \cup Outstanding,
             buffered' \subseteq buffered, UNCHANGED idOf,
             \A c \in Calls : step'[c] \in {"writing", "polling"} => step'[c] = step[c]
      PROVE  OwnIsAhead'
  BY <1>1 DEF Busy, Elements
<1>2. ASSUME \A c \in Calls : ~Busy(c)' PROVE OwnIsAhead'
  BY <1>2 DEF Busy
<1>3. ASSUME NEW x \in Tasks, Enter(x) PROVE OwnIsAhead'
  <2>1. Outstanding' = Outstanding /\ Elements(ran') = Elements(ran)
    BY <1>3 DEF Enter, Outstanding, Elements, InService
  <2> QED BY <1>1, <1>3, <2>1 DEF Enter, TypeOK
<1>4. CASE Start
  BY <1>2, <1>4, NobodyAtWork DEF Start, Tasks
<1>5. ASSUME NEW c \in Calls, Unavailable(c) \/ WriteFails(c) \/ TimeOut(c) \/ Disconnect(c)
      PROVE  OwnIsAhead'
  BY <1>2, <1>5, NobodyAtWork DEF Unavailable, WriteFails, TimeOut, Disconnect, Return, Tasks
<1>6. ASSUME NEW c \in Calls, Begin(c) PROVE OwnIsAhead'
  <2>1. /\ idOf' = [idOf EXCEPT ![c] = nextId] /\ step' = [step EXCEPT ![c] = "writing"]
        /\ Outstanding' = Outstanding /\ Elements(ran') = Elements(ran) /\ buffered' = buffered
    BY <1>6 DEF Begin, Outstanding, Elements, InService
  <2>2. \A d \in Calls : Busy(d)' => d = c
    BY <1>6 DEF Begin, Holds, TypeOK, Tasks, Busy
  <2>3. nextId \notin Ids
    BY DEF TypeOK, Ids
  <2>4. idOf'[c] = nextId
    BY <2>1 DEF TypeOK
  <2> QED BY <2>1, <2>2, <2>3, <2>4, OutstandingTypes DEF Busy, Elements
<1>7. ASSUME NEW c \in Calls, Write(c) PROVE OwnIsAhead'
  <2>1. idOf[c] \notin buffered /\ buffered' \subseteq buffered /\ UNCHANGED idOf
    BY <1>7 DEF Write, Holds, Busy, Evicted
  <2>2. \A d \in Calls : Busy(d)' => d = c /\ step'[c] # "writing"
    BY <1>7 DEF Write, Return, Leave, Holds, TypeOK, Tasks, Busy
  <2> QED BY <2>1, <2>2 DEF Busy
<1>8. ASSUME NEW c \in Calls, Receive(c) PROVE OwnIsAhead'
  <2>1. CASE Head(channel) = idOf[c]
    BY <1>2, <1>8, <2>1, NobodyAtWork DEF Receive, Return, Tasks
  <2>2. CASE Head(channel) # idOf[c]
    <3>1. /\ buffered' = buffered \cup {Head(channel)} /\ UNCHANGED <<step, idOf>>
          /\ step[c] = "polling" /\ Busy(c)
      BY <1>8, <2>2 DEF Receive, Holds, Busy
    <3>2. \A d \in Calls : Busy(d) => d = c
      BY <3>1, OneAtWork
    <3> QED BY <2>2, <3>1, <3>2 DEF Busy
  <2> QED BY <2>1, <2>2
<1>9. CASE ReadRequest \/ Respond
  <2>1. Outstanding' = Outstanding /\ Elements(ran') = Elements(ran)
    BY <1>9, OutstandingSteps DEF ReadRequest, Respond, Elements
  <2> QED BY <1>1, <1>9, <2>1 DEF ReadRequest, Respond, bridge
<1>10. CASE Execute
  <2>1. serving.id \in Outstanding
    BY <1>10 DEF Execute, NoRequest, Outstanding, InService
  <2>2. Elements(ran') = Elements(ran) \cup {serving.id}
    BY <1>10, ElementsAppend, QueueTypes DEF Execute
  <2> QED BY <1>1, <1>10, <2>1, <2>2, OutstandingSteps DEF Execute, bridge
<1>11. CASE Die
  <2>1. Outstanding' \subseteq Outstanding /\ Elements(ran') = Elements(ran)
    BY <1>11, OutstandingSteps DEF Die, Elements
  <2> QED BY <1>1, <1>11, <2>1 DEF Die, bridge
<1>12. CASE UNCHANGED vars
  <2>1. Outstanding' = Outstanding /\ Elements(ran') = Elements(ran)
    BY <1>12 DEF vars, Outstanding, Elements, InService
  <2> QED BY <1>1, <1>12, <2>1 DEF vars
<1> QED BY <1>3, <1>4, <1>5, <1>6, <1>7, <1>8, <1>9, <1>10, <1>11, <1>12
        DEF Next, Holder, Call, Service

LEMMA EffectsInductive ==
  ASSUME TypeOK, NewestAtWork, OwnIsAhead, InOrder, EffectsBehind, [Next]_vars
  PROVE  EffectsBehind'
<1> USE QueueTypes DEF EffectsBehind, EffectsInOrder
<1>1. CASE UNCHANGED <<pipe, serving, ran>>
  BY <1>1
<1>2. ASSUME NEW c \in Calls, Write(c) PROVE EffectsBehind'
  <2>1. /\ pipe' = Append(pipe, idOf[c]) /\ UNCHANGED <<serving, ran>>
        /\ idOf[c] \in Int
        /\ \A i \in DOMAIN pipe : pipe[i] < idOf[c]
        /\ \A i \in DOMAIN ran : ran[i] < idOf[c]
    BY <1>2, WriterIsNewest DEF Write, Holds, Ids
  <2>2. \A i \in DOMAIN pipe' :
          (i \in DOMAIN pipe /\ pipe'[i] = pipe[i]) \/ pipe'[i] = idOf[c]
    BY <2>1, AppendAscending DEF Ascending, InOrder
  <2> QED BY <2>1, <2>2
<1>3. CASE ReadRequest
  <2>1. /\ pipe # <<>> /\ pipe' = Tail(pipe) /\ UNCHANGED ran
        /\ serving'.id = Head(pipe)
    BY <1>3 DEF ReadRequest
  <2>2. /\ 1 \in DOMAIN pipe /\ Head(pipe) = pipe[1]
        /\ \A i \in DOMAIN pipe' : \E k \in DOMAIN pipe : pipe'[i] = pipe[k]
    <3>1. Ascending(pipe)
      BY DEF Ascending, InOrder
    <3>2. Head(pipe) = pipe[1]
      BY <2>1, TailLemma
    <3> QED BY <2>1, <3>1, <3>2, TailAscending
  <2> QED BY <2>1, <2>2
<1>4. CASE Execute
  <2>1. /\ serving # NoRequest /\ serving'.id = serving.id /\ serving'.done
        /\ ~serving.done /\ ran' = Append(ran, serving.id) /\ UNCHANGED pipe
    BY <1>4 DEF Execute, NoRequest, TypeOK
  <2>2. \A i \in DOMAIN ran : ran[i] < serving.id
    BY <2>1
  <2>3. Ascending(ran') /\ \A i \in DOMAIN ran' :
          (i \in DOMAIN ran /\ ran'[i] = ran[i]) \/ ran'[i] = serving.id
    BY <2>1, <2>2, AppendAscending DEF Ascending
  <2>4. \A j \in DOMAIN pipe : serving.id < pipe[j]
    BY <2>1 DEF InOrder
  <2>5. \A i \in DOMAIN ran', j \in DOMAIN pipe' : ran'[i] < pipe'[j]
    BY <2>1, <2>3, <2>4
  <2>6. \A i \in DOMAIN ran' : ran'[i] < serving'.id \/ (serving'.done /\ ran'[i] = serving'.id)
    BY <2>1, <2>2, <2>3
  <2> QED BY <2>3, <2>5, <2>6 DEF Ascending
<1>5. CASE Respond
  BY <1>5 DEF Respond, bridge
<1>6. CASE Die
  <2>1. pipe' = <<>> /\ serving' = NoRequest /\ UNCHANGED ran /\ DOMAIN pipe' = {}
    BY <1>6, EmptySeq DEF Die, bridge
  <2> QED BY <2>1
<1>7. ASSUME NEW c \in Calls,
             Unavailable(c) \/ Begin(c) \/ WriteFails(c) \/ Receive(c) \/ TimeOut(c) \/ Disconnect(c)
      PROVE  EffectsBehind'
  BY <1>7, <1>1 DEF Unavailable, Begin, WriteFails, Receive, TimeOut, Disconnect
<1>8. CASE Start \/ (\E x \in Tasks : Enter(x)) \/ UNCHANGED vars
  BY <1>8, <1>1 DEF Start, Enter, vars
<1> QED BY <1>2, <1>3, <1>4, <1>5, <1>6, <1>7, <1>8 DEF Next, Holder, Call, Service

LEMMA AnsweredInductive ==
  ASSUME TypeOK, AnsweredWasRun, [Next]_vars
  PROVE  AnsweredWasRun'
<1> USE DEF AnsweredWasRun
\* The tasks: nothing new is executed, and who answers returns.
<1>1. ASSUME NEW x \in Tasks, UNCHANGED <<serving, ran>>,
             Elements(channel') \cup buffered' \subseteq Elements(channel) \cup buffered,
             \/ step' = [step EXCEPT ![x] = "done"] /\ \A d \in Calls : d # x => answer'[d] = answer[d]
             \/ UNCHANGED answer /\ \A d \in Calls : step'[d] # "done" => step[d] # "done"
      PROVE  AnsweredWasRun'
  <2>1. Elements(ran') = Elements(ran)
    BY <1>1 DEF Elements
  <2>2. \A d \in Calls : step'[d] # "done" => answer'[d] = "none"
    BY <1>1 DEF TypeOK, Tasks
  <2> QED BY <1>1, <2>1, <2>2
<1>2. ASSUME NEW x \in Tasks, Enter(x) PROVE AnsweredWasRun'
  BY <1>1, <1>2 DEF Enter, TypeOK, Tasks, Elements
<1>3. CASE Start
  BY <1>1, <1>3 DEF Start, Leave, Tasks, Elements
<1>4. ASSUME NEW c \in Calls, Unavailable(c) \/ WriteFails(c) \/ TimeOut(c) \/ Disconnect(c)
      PROVE  AnsweredWasRun'
  <2>1. /\ UNCHANGED <<serving, ran, channel, buffered>> /\ step' = [step EXCEPT ![c] = "done"]
        /\ c \in Tasks /\ \A d \in Calls : d # c => answer'[d] = answer[d]
    BY <1>4 DEF Unavailable, WriteFails, TimeOut, Disconnect, Return, Leave, Tasks, TypeOK
  <2> QED BY <1>1, <2>1 DEF Elements
<1>5. ASSUME NEW c \in Calls, Begin(c) PROVE AnsweredWasRun'
  <2>1. /\ UNCHANGED <<serving, ran, channel, buffered, answer>> /\ c \in Tasks
        /\ step[c] = "queued" /\ step' = [step EXCEPT ![c] = "writing"]
    BY <1>5 DEF Begin, Holds, Tasks
  <2>2. \A d \in Calls : step'[d] # "done" => step[d] # "done"
    BY <2>1 DEF TypeOK, Tasks
  <2> QED BY <1>1, <2>1, <2>2 DEF Elements
<1>6. ASSUME NEW c \in Calls, Write(c) PROVE AnsweredWasRun'
  <2>1. /\ UNCHANGED <<serving, ran, channel>> /\ c \in Tasks /\ buffered' \subseteq buffered
        /\ step[c] = "writing"
    BY <1>6 DEF Write, Evicted, Tasks, Holds
  <2>2. CASE idOf[c] \in Evicted(idOf[c])
    <3>1. step' = [step EXCEPT ![c] = "done"] /\ \A d \in Calls : d # c => answer'[d] = answer[d]
      BY <1>6, <2>2 DEF Write, Return, Leave, TypeOK
    <3> QED BY <1>1, <2>1, <3>1 DEF Elements
  <2>3. CASE idOf[c] \notin Evicted(idOf[c])
    <3>1. UNCHANGED answer /\ \A d \in Calls : step'[d] # "done" => step[d] # "done"
      BY <1>6, <2>1, <2>3 DEF Write, TypeOK, Tasks
    <3> QED BY <1>1, <2>1, <3>1 DEF Elements
  <2> QED BY <2>2, <2>3
<1>7. ASSUME NEW c \in Calls, Receive(c) PROVE AnsweredWasRun'
  <2>1. /\ UNCHANGED <<serving, ran>> /\ c \in Tasks
        /\ Elements(channel) = {Head(channel)} \cup Elements(channel')
    BY <1>7, ElementsTail DEF Receive, Tasks, TypeOK
  <2>2. CASE Head(channel) = idOf[c]
    <3>1. /\ UNCHANGED buffered /\ step' = [step EXCEPT ![c] = "done"]
          /\ \A d \in Calls : d # c => answer'[d] = answer[d]
      BY <1>7, <2>2 DEF Receive, Return, Leave, TypeOK
    <3>2. Elements(channel') \subseteq Elements(channel) /\ Elements(ran') = Elements(ran)
      BY <2>1
    <3> QED BY <1>1, <2>1, <3>1, <3>2
  <2>3. CASE Head(channel) # idOf[c]
    <3>1. buffered' = buffered \cup {Head(channel)} /\ UNCHANGED <<answer, step>>
      BY <1>7, <2>3 DEF Receive
    <3>2. Head(channel) \in Elements(channel) /\ Elements(channel') \subseteq Elements(channel)
          /\ Elements(ran') = Elements(ran)
      BY <2>1
    <3> QED BY <1>1, <2>1, <3>1, <3>2
  <2> QED BY <2>2, <2>3
<1>8. CASE ReadRequest
  <2>1. UNCHANGED <<channel, buffered, ran, step, answer>>
    BY <1>8 DEF ReadRequest, bridge
  <2>2. serving.id = 0 /\ serving'.done = FALSE
    BY <1>8 DEF ReadRequest, NoRequest
  <2>3. Elements(channel') = Elements(channel) /\ Elements(ran') = Elements(ran)
    BY <2>1 DEF Elements
  <2> QED BY <2>1, <2>2, <2>3
<1>9. CASE Execute
  <2>1. Elements(ran') = Elements(ran) \cup {serving.id}
    BY <1>9, ElementsAppend, QueueTypes DEF Execute
  <2>2. serving'.id = serving.id /\ Elements(channel') = Elements(channel)
        /\ UNCHANGED <<buffered, step, answer>>
    BY <1>9 DEF Execute, bridge, TypeOK, NoRequest, Elements
  <2> QED BY <2>1, <2>2
<1>10. CASE Respond
  <2>1. Elements(channel') = Elements(channel) \cup {serving.id} /\ ~serving'.done
    BY <1>10, ElementsAppend, QueueTypes DEF Respond, NoRequest
  <2>2. serving.id \in Elements(ran) /\ Elements(ran') = Elements(ran)
        /\ UNCHANGED <<buffered, step, answer>>
    BY <1>10 DEF Respond, bridge, Elements
  <2> QED BY <2>1, <2>2
<1>11. CASE Die
  BY <1>11 DEF Die, bridge, Elements, NoRequest
<1>12. CASE UNCHANGED vars
  BY <1>12 DEF vars, Elements
<1> QED BY <1>2, <1>3, <1>4, <1>5, <1>6, <1>7, <1>8, <1>9, <1>10, <1>11, <1>12
        DEF Next, Holder, Call, Service

-----------------------------------------------------------------------------
(* The bound of the buffer.                                                *)

LEMMA NoMore ==
  ASSUME NEW S, NEW T, IsFiniteSet(S), T \subseteq S, NEW n \in Nat, Cardinality(S) <= n
  PROVE  IsFiniteSet(T) /\ Cardinality(T) <= n
<1>1. IsFiniteSet(T) /\ Cardinality(T) <= Cardinality(S)
  BY FS_Subset
<1>2. Cardinality(T) \in Nat /\ Cardinality(S) \in Nat
  BY <1>1, FS_CardinalityType
<1> QED BY <1>1, <1>2

LEMMA NoMoreThanBoth ==
  ASSUME NEW S, NEW T, IsFiniteSet(S), IsFiniteSet(T), NEW m \in Nat, NEW n \in Nat,
         Cardinality(S) <= m, Cardinality(T) <= n
  PROVE  IsFiniteSet(S \cup T) /\ Cardinality(S \cup T) <= m + n
<1>1. IsFiniteSet(S \cup T) /\ IsFiniteSet(S \cap T)
      /\ Cardinality(S \cup T) = Cardinality(S) + Cardinality(T) - Cardinality(S \cap T)
  BY FS_Union, FS_Intersection
<1>2. Cardinality(S) \in Nat /\ Cardinality(T) \in Nat /\ Cardinality(S \cap T) \in Nat
  BY <1>1, FS_CardinalityType
<1> QED BY <1>1, <1>2

\* With no answer on its way, what is outstanding is in the pipe or in service.
LEMMA OutstandingFinite ==
  ASSUME TypeOK
  PROVE  /\ IsFiniteSet(Outstanding)
         /\ channel = <<>> => Cardinality(Outstanding) <= Capacity + 1
<1>1. IsFiniteSet(InService) /\ Cardinality(InService) <= 1
  <2>1. IsFiniteSet({}) /\ Cardinality({}) = 0
    BY FS_EmptySet
  <2>2. IsFiniteSet({serving.id}) /\ Cardinality({serving.id}) = 1
    BY FS_Singleton
  <2> QED BY <2>1, <2>2 DEF InService
<1>2. IsFiniteSet(Elements(pipe)) /\ Cardinality(Elements(pipe)) <= Capacity
  <2>1. IsFiniteSet(Elements(pipe)) /\ Cardinality(Elements(pipe)) <= Len(pipe)
    BY ElementsFinite DEF TypeOK
  <2>2. Cardinality(Elements(pipe)) \in Nat /\ Len(pipe) \in Nat /\ Len(pipe) <= Capacity
    BY <2>1, FS_CardinalityType DEF TypeOK
  <2> QED BY <2>1, <2>2, CapacityAssumption
<1>8. 1 \in Nat /\ Capacity \in Nat
  BY CapacityAssumption
<1>3. IsFiniteSet(InService \cup Elements(pipe))
      /\ Cardinality(InService \cup Elements(pipe)) <= 1 + Capacity
  <2>1. PICK S, T : S = InService /\ T = Elements(pipe)
    OBVIOUS
  <2>2. IsFiniteSet(S) /\ IsFiniteSet(T) /\ Cardinality(S) <= 1 /\ Cardinality(T) <= Capacity
    BY <1>1, <1>2, <2>1
  <2>3. IsFiniteSet(S \cup T) /\ Cardinality(S \cup T) <= 1 + Capacity
    BY <1>8, <2>2, NoMoreThanBoth
  <2> QED BY <2>1, <2>3
<1>4. IsFiniteSet(Elements(channel))
  BY ElementsFinite DEF TypeOK
<1>5. IsFiniteSet(Outstanding)
  <2>1. PICK S : S = InService \cup Elements(pipe)
    OBVIOUS
  <2>2. IsFiniteSet(S \cup Elements(channel))
    BY <1>3, <1>4, <2>1, FS_Union
  <2>3. Outstanding = S \cup Elements(channel)
    BY <2>1 DEF Outstanding
  <2> QED BY <2>2, <2>3
<1>6. channel = <<>> => Outstanding = InService \cup Elements(pipe)
  BY DEF Outstanding, Elements
<1>7. 1 + Capacity = Capacity + 1
  BY CapacityAssumption
<1> QED BY <1>3, <1>5, <1>6, <1>7

\* The eviction leaves at most Keep answers when the newest id is written.
LEMMA EvictedFew ==
  ASSUME TypeOK, NEW id \in Ids, IsFiniteSet(buffered), \A k \in buffered : k < id
  PROVE  /\ Evicted(id) \subseteq buffered /\ IsFiniteSet(Evicted(id))
         /\ Cardinality(Evicted(id)) <= Keep
<1>1. Evicted(id) \subseteq buffered
  BY DEF Evicted
<1>2. Cardinality(buffered) \in Nat /\ Keep \in Nat /\ id \in Int
  BY FS_CardinalityType, KeepAssumption DEF Ids
<1>3. CASE Cardinality(buffered) > Keep
  <2>1. PICK a, b \in Int : a = id - Keep + 1 /\ b = id - 1
    BY <1>2
  <2>2. Evicted(id) \subseteq a .. b
    <3>1. \A k \in buffered : k \in Int
      BY DEF TypeOK, Ids
    <3> QED BY <1>2, <1>3, <2>1, <3>1 DEF Evicted
  <2>3. IsFiniteSet(a .. b) /\ Cardinality(a .. b) = IF a > b THEN 0 ELSE b - a + 1
    BY <2>1, FS_Interval
  <2>4. Cardinality(a .. b) <= Keep
    BY <1>2, <2>1, <2>3
  <2> QED BY <1>1, <1>2, <2>2, <2>3, <2>4, NoMore
<1>4. CASE ~(Cardinality(buffered) > Keep)
  BY <1>2, <1>4 DEF Evicted
<1> QED BY <1>1, <1>3, <1>4

LEMMA BacklogInductive ==
  ASSUME IInv, [Next]_vars
  PROVE  BacklogBounded'
<1> USE DEF IInv, BacklogBounded, BufferBounded
<1>0. Keep + Capacity + 1 \in Nat /\ Capacity + 1 \in Nat /\ Keep \in Nat
  BY KeepAssumption, CapacityAssumption
<1>1. ASSUME Outstanding' \subseteq Outstanding, buffered' = buffered,
             \A c \in Calls : step'[c] = "polling" <=> step[c] = "polling",
             \A c \in Calls : step'[c] = "polling" => idOf'[c] = idOf[c]
      PROVE  BacklogBounded'
  <2>1. IsFiniteSet(Outstanding)
    BY OutstandingFinite
  <2>2. (\A c \in Calls : step'[c] # "polling") => Cardinality(Outstanding') <= Capacity + 1
    BY <1>0, <1>1, <2>1, NoMore
  <2>3. ASSUME NEW c \in Calls, step'[c] = "polling"
        PROVE  Cardinality(buffered' \cup (Outstanding' \ {idOf'[c]})) <= Keep + Capacity + 1
    <3>1. PICK S : S = buffered \cup (Outstanding \ {idOf[c]})
      OBVIOUS
    <3>2. PICK T : T = buffered' \cup (Outstanding' \ {idOf'[c]})
      OBVIOUS
    <3>3. IsFiniteSet(S)
      BY <2>1, <3>1, FS_Union, FS_Difference
    <3>4. T \subseteq S
      BY <1>1, <2>3, <3>1, <3>2
    <3>5. Cardinality(S) <= Keep + Capacity + 1
      BY <1>1, <2>3, <3>1
    <3>6. Cardinality(T) <= Keep + Capacity + 1
      <4> HIDE DEF IInv, BacklogBounded, BufferBounded
      <4> QED BY <1>0, <3>3, <3>4, <3>5, NoMore
    <3> QED BY <3>2, <3>6
  <2> QED BY <1>1, <2>2, <2>3
\* The holder returns with an empty channel.
<1>2. ASSUME NEW c \in Calls, TimeOut(c) \/ Disconnect(c) PROVE BacklogBounded'
  <2>1. Outstanding' = Outstanding /\ buffered' = buffered /\ channel = <<>>
    BY <1>2 DEF TimeOut, Disconnect, Outstanding, InService, Elements
  <2>2. \A d \in Calls : step'[d] # "polling"
    BY <1>2, NobodyAtWork DEF TimeOut, Disconnect, Return, Tasks, Busy
  <2> QED BY <2>1, <2>2, OutstandingFinite
<1>3. ASSUME NEW c \in Calls, Write(c) PROVE BacklogBounded'
  <2>1. step[c] = "writing" /\ UNCHANGED idOf /\ Busy(c)
    BY <1>3 DEF Write, Holds, Busy
  <2>2. \A d \in Calls : Busy(d) => d = c
    BY <2>1, OneAtWork
  <2>3. Cardinality(Outstanding) <= Capacity + 1 /\ IsFiniteSet(Outstanding)
    BY <2>1, <2>2, OutstandingFinite DEF Busy
  <2>4. idOf[c] \in Ids /\ idOf[c] = nextId - 1 /\ idOf[c] \notin buffered
    BY <2>1, WriterIsNewest DEF OwnIsAhead
  <2>5. \A k \in buffered : k < idOf[c]
    <3>1. \A k \in buffered : k \in 1 .. (nextId - 1) /\ k # nextId - 1
      BY <2>4 DEF TypeOK, Ids
    <3>2. nextId \in Nat
      BY DEF TypeOK
    <3> QED BY <2>4, <3>1, <3>2
  <2>6. /\ Evicted(idOf[c]) \subseteq buffered /\ IsFiniteSet(Evicted(idOf[c]))
        /\ Cardinality(Evicted(idOf[c])) <= Keep
    BY <2>4, <2>5, EvictedFew
  <2>7. buffered' = Evicted(idOf[c]) /\ step' = [step EXCEPT ![c] = "polling"]
    BY <1>3, <2>4, <2>6 DEF Write
  <2>8. step'[c] = "polling" /\ \A d \in Calls : step'[d] = "polling" => d = c
    BY <2>1, <2>2, <2>7 DEF TypeOK, Tasks, Busy
  <2>9. buffered' \cup (Outstanding' \ {idOf[c]}) \subseteq Evicted(idOf[c]) \cup Outstanding
    BY <1>3, <2>7, OutstandingSteps
  <2>10. /\ IsFiniteSet(Evicted(idOf[c]) \cup Outstanding)
         /\ Cardinality(Evicted(idOf[c]) \cup Outstanding) <= Keep + (Capacity + 1)
    BY <1>0, <2>3, <2>6, NoMoreThanBoth
  <2>11. Keep + (Capacity + 1) = Keep + Capacity + 1
    BY KeepAssumption, CapacityAssumption
  <2>12. Cardinality(buffered' \cup (Outstanding' \ {idOf'[c]})) <= Keep + Capacity + 1
    <3>1. PICK S : S = Evicted(idOf[c]) \cup Outstanding
      OBVIOUS
    <3>2. PICK T : T = buffered' \cup (Outstanding' \ {idOf[c]})
      OBVIOUS
    <3>3. T \subseteq S /\ IsFiniteSet(S) /\ Cardinality(S) <= Keep + Capacity + 1
      BY <2>9, <2>10, <2>11, <3>1, <3>2
    <3>4. Cardinality(T) <= Keep + Capacity + 1
      <4> HIDE DEF IInv, BacklogBounded, BufferBounded
      <4> QED BY <1>0, <3>3, NoMore
    <3> QED BY <2>1, <3>2, <3>4
  <2>13. IsFiniteSet(buffered') /\ Cardinality(buffered') <= Keep + Capacity + 1
    BY <1>0, <2>6, <2>7, NoMore
  <2> QED BY <2>8, <2>12, <2>13
<1>4. ASSUME NEW c \in Calls, Receive(c) PROVE BacklogBounded'
  <2>1. /\ step[c] = "polling" /\ Busy(c) /\ UNCHANGED <<idOf, serving, pipe>>
        /\ channel # <<>> /\ channel' = Tail(channel)
    BY <1>4 DEF Receive, Holds, Busy
  <2>2. Outstanding = Outstanding' \cup {Head(channel)}
    BY <1>4, OutstandingSteps
  <2>3. CASE Head(channel) = idOf[c]
    <3>1. idOf[c] = nextId - 1 /\ nextId \in Nat
      BY <2>1 DEF NewestAtWork, TypeOK
    <3>2. channel \in Seq(Int) /\ Head(channel) = channel[1] /\ 1 \in DOMAIN channel
      BY <2>1, QueueTypes, TailLemma
    <3>3. \A i \in DOMAIN channel' : channel[1] < channel'[i]
      BY <2>1, <3>2, TailAscending DEF InOrder, Ascending
    <3>4. \A id \in Outstanding' : idOf[c] < id
      <4>1. \A id \in Elements(channel') \cup Elements(pipe') : idOf[c] < id
        BY <2>1, <2>3, <3>2, <3>3 DEF Elements, InOrder
      <4>2. \A id \in InService' : idOf[c] < id
        BY <2>1, <2>3, <3>2 DEF InService, InOrder
      <4> QED BY <4>1, <4>2 DEF Outstanding
    <3>5. \A id \in Outstanding' : id \in 1 .. (nextId - 1)
      BY <2>2, OutstandingTypes DEF Ids
    <3>6. Outstanding' = {}
      <4>1. \A id \in Outstanding' : FALSE
        BY <3>1, <3>4, <3>5
      <4> QED BY <4>1
    <3>7. Cardinality(Outstanding') <= Capacity + 1
      BY <1>0, <3>6, FS_EmptySet
    <3>8. buffered' = buffered /\ \A d \in Calls : step'[d] # "polling"
      BY <1>4, <2>3, NobodyAtWork DEF Receive, Return, Tasks, Busy
    <3> QED BY <3>7, <3>8
  <2>4. CASE Head(channel) # idOf[c]
    <3>1. buffered' = buffered \cup {Head(channel)} /\ UNCHANGED step
      BY <1>4, <2>4 DEF Receive
    <3>2. \A d \in Calls : step'[d] = "polling" => d = c
      BY <2>1, <3>1, OneAtWork DEF Busy
    <3>3. IsFiniteSet(buffered \cup (Outstanding \ {idOf[c]}))
          /\ Cardinality(buffered \cup (Outstanding \ {idOf[c]})) <= Keep + Capacity + 1
      BY <2>1, OutstandingFinite, FS_Union, FS_Difference
    <3>4. /\ buffered' \cup (Outstanding' \ {idOf'[c]}) \subseteq buffered \cup (Outstanding \ {idOf[c]})
          /\ buffered' \subseteq buffered \cup (Outstanding \ {idOf[c]})
      BY <2>1, <2>2, <2>4, <3>1
    <3>5. /\ Cardinality(buffered' \cup (Outstanding' \ {idOf'[c]})) <= Keep + Capacity + 1
          /\ IsFiniteSet(buffered') /\ Cardinality(buffered') <= Keep + Capacity + 1
      BY <1>0, <3>3, <3>4, NoMore
    <3> QED BY <2>1, <3>1, <3>2, <3>5
  <2> QED BY <2>3, <2>4
<1>5. ASSUME NEW c \in Calls, Unavailable(c) \/ WriteFails(c) \/ Begin(c) PROVE BacklogBounded'
  <2>1. Outstanding' = Outstanding /\ buffered' = buffered
    BY <1>5 DEF Unavailable, WriteFails, Begin, Outstanding, InService, Elements
  <2>2. step[c] \in {"queued", "writing"} /\ c \in Tasks
    BY <1>5 DEF Unavailable, WriteFails, Begin, Holds, Tasks
  <2>3. step' = [step EXCEPT ![c] = "done"] \/ step' = [step EXCEPT ![c] = "writing"]
    BY <1>5 DEF Unavailable, WriteFails, Begin, Return, Leave
  <2>4. \A d \in Calls : step'[d] = "polling" <=> step[d] = "polling"
    BY <2>2, <2>3 DEF TypeOK, Tasks
  <2>5. \A d \in Calls : d # c => idOf'[d] = idOf[d]
    BY <1>5 DEF Unavailable, WriteFails, Begin, TypeOK
  <2>6. step[c] # "polling"
    BY <2>2
  <2> QED BY <1>1, <2>1, <2>4, <2>5, <2>6
<1>6. ASSUME NEW x \in Tasks, Enter(x) PROVE BacklogBounded'
  <2>1. Outstanding' = Outstanding /\ buffered' = buffered /\ idOf' = idOf
    BY <1>6 DEF Enter, Outstanding, InService, Elements
  <2>2. \A d \in Calls : step'[d] = "polling" <=> step[d] = "polling"
    BY <1>6 DEF Enter, TypeOK, Tasks
  <2> QED BY <1>1, <2>1, <2>2
<1>7. CASE Start
  <2>1. Outstanding' = Outstanding /\ buffered' = buffered /\ idOf' = idOf
    BY <1>7 DEF Start, Outstanding, InService, Elements
  <2>2. \A d \in Calls : step'[d] = step[d]
    BY <1>7, StartupAssumption DEF Start, Leave, TypeOK, Tasks
  <2> QED BY <1>1, <2>1, <2>2
<1>8. CASE Service \/ Die
  BY <1>1, <1>8, OutstandingSteps DEF Service, ReadRequest, Execute, Respond, Die, bridge
<1>9. CASE UNCHANGED vars
  <2>1. Outstanding' = Outstanding
    BY <1>9 DEF vars, Outstanding, InService, Elements
  <2> QED BY <1>1, <1>9, <2>1 DEF vars
<1> QED BY <1>2, <1>3, <1>4, <1>5, <1>6, <1>7, <1>8, <1>9 DEF Next, Holder, Call

-----------------------------------------------------------------------------
(* The theorems.                                                           *)

LEMMA IInvInductive == IInv /\ [Next]_vars => IInv'
<1> SUFFICES ASSUME IInv, [Next]_vars PROVE IInv'
  OBVIOUS
<1>1. TypeOK' /\ NewestAtWork' /\ OwnIsAhead' /\ InOrder'
  BY TypeInductive, NewestInductive, OwnInductive, OrderInductive DEF IInv
<1>2. EffectsBehind' /\ AnsweredWasRun' /\ BacklogBounded'
  BY EffectsInductive, AnsweredInductive, BacklogInductive DEF IInv
<1> QED BY <1>1, <1>2 DEF IInv

LEMMA Invariance == Spec => []IInv
BY InitIInv, IInvInductive, PTL DEF Spec

\* Every variable of the bridge and of the service has its type, and only the
\* task at the head of the mutex is past it.
THEOREM TypeCorrect == Spec => []TypeOK
<1>1. IInv => TypeOK
  BY DEF IInv
<1> QED BY <1>1, Invariance, PTL

\* However many calls time out or find the service dead: the service executes
\* the requests in the order in which the bridge gave out their ids, each at
\* most once.
THEOREM EffectsAlwaysInOrder == Spec => []EffectsInOrder
<1>1. IInv => EffectsInOrder
  BY DEF IInv, EffectsBehind
<1> QED BY <1>1, Invariance, PTL

\* For every size of the eviction window and of the pipe: the buffer of late
\* answers is bounded by both, and holds no answer that a call still waits for.
THEOREM BufferAlwaysHoldsOrphans == Spec => []BufferHoldsOrphans
<1>1. ASSUME IInv PROVE BufferHoldsOrphans
  <2>1. BufferBounded
    BY <1>1 DEF IInv, BacklogBounded
  <2>2. ASSUME NEW c \in Calls, step[c] # "done"
        PROVE  /\ idOf[c] \notin buffered
               /\ \A i \in DOMAIN channel : channel[i] = idOf[c] => i = Len(channel)
    <3>1. CASE ~Busy(c)
      <4>1. idOf[c] = 0
        BY <1>1, <2>2, <3>1 DEF IInv, TypeOK, NewestAtWork, Busy, Tasks
      <4>2. 0 \notin Ids
        BY DEF Ids
      <4>3. \A i \in DOMAIN channel : channel[i] \in Ids
        BY <1>1 DEF IInv, TypeOK
      <4> QED BY <1>1, <4>1, <4>2, <4>3 DEF IInv, TypeOK
    <3>2. CASE Busy(c)
      <4>1. idOf[c] = nextId - 1 /\ idOf[c] \notin buffered /\ nextId \in Nat
        BY <1>1, <3>2 DEF IInv, TypeOK, NewestAtWork, OwnIsAhead
      <4>2. /\ \A i \in DOMAIN channel : channel[i] \in 1 .. (nextId - 1)
            /\ Len(channel) \in Nat /\ DOMAIN channel = 1 .. Len(channel)
        BY <1>1 DEF IInv, TypeOK, Ids
      <4>3. ASSUME NEW i \in DOMAIN channel, channel[i] = idOf[c], i # Len(channel)
            PROVE  FALSE
        <5>1. Len(channel) \in DOMAIN channel /\ i < Len(channel)
          BY <4>2, <4>3
        <5>2. channel[i] < channel[Len(channel)] /\ channel[Len(channel)] \in 1 .. (nextId - 1)
          BY <1>1, <4>2, <5>1 DEF IInv, InOrder
        <5> QED BY <4>1, <4>3, <5>2
      <4> QED BY <4>1, <4>3
    <3> QED BY <3>1, <3>2
  <2> QED BY <2>1, <2>2 DEF BufferHoldsOrphans, LateAnswersAreOrphans
<1> QED BY <1>1, Invariance, PTL

-----------------------------------------------------------------------------
(* The refinement of RemoteCalls.                                          *)

Taken == [id \in Ids |-> CallOf(id)]
LastRan == IF ran = <<>> THEN 0 ELSE ran[Len(ran)]
Effects == {CallOf(ran[i]) : i \in DOMAIN ran}
Outcomes == [c \in Calls |-> Outcome(c)]

\* An id names the one call that has it.
LEMMA TheCall ==
  ASSUME NEW f, NEW c \in Calls, \A d \in Calls : f[d] = f[c] => d = c
  PROVE  (CHOOSE d \in Calls : f[d] = f[c]) = c
OBVIOUS

LEMMA CallOfOwn ==
  ASSUME NewestAtWork, NEW c \in Calls, idOf[c] # 0
  PROVE  CallOf(idOf[c]) = c
BY TheCall DEF NewestAtWork, CallOf

LEMMA CallOfId ==
  ASSUME NewestAtWork, NEW id \in Ids
  PROVE  CallOf(id) \in Calls /\ idOf[CallOf(id)] = id
BY DEF NewestAtWork, CallOf

LEMMA TakenIsSeq ==
  ASSUME TypeOK, NewestAtWork
  PROVE  Taken \in Seq(Calls) /\ Len(Taken) = nextId - 1 /\ DOMAIN Taken = Ids
<1>1. nextId - 1 \in Nat /\ Ids = 1 .. (nextId - 1)
  BY DEF TypeOK, Ids
<1>2. Taken \in [1 .. (nextId - 1) -> Calls]
  BY <1>1, CallOfId DEF Taken
<1> QED BY <1>1, <1>2

\* A call that begins is appended to those that were taken before it.
LEMMA BeginTakes ==
  ASSUME IInv, NEW c \in Calls, Begin(c), NewestAtWork'
  PROVE  Taken' = Append(Taken, c)
<1>1. /\ nextId \in Nat \ {0} /\ Ids = 1 .. (nextId - 1) /\ Ids' = 1 .. nextId
      /\ idOf[c] = 0 /\ idOf' = [idOf EXCEPT ![c] = nextId] /\ idOf'[c] = nextId
  BY DEF IInv, TypeOK, NewestAtWork, Begin, Holds, Ids
<1>2. \A d \in Calls : idOf'[d] # 0 => (CHOOSE e \in Calls : idOf'[e] = idOf'[d]) = d
  BY TheCall DEF NewestAtWork
<1>3. PICK n \in Nat \ {0} : n = nextId
  BY <1>1
<1>4. CallOf(n)' = c
  BY <1>1, <1>2, <1>3 DEF CallOf
<1>5. ASSUME NEW id \in Ids PROVE CallOf(id)' = CallOf(id)
  <2>1. CallOf(id) \in Calls /\ idOf[CallOf(id)] = id /\ id # 0
    BY <1>1, CallOfId DEF IInv
  <2>2. idOf'[CallOf(id)] = id
    BY <1>1, <2>1 DEF IInv, TypeOK
  <2> QED BY <1>2, <2>1, <2>2 DEF CallOf
<1>6. Taken \in Seq(Calls) /\ Len(Taken) = n - 1 /\ DOMAIN Taken = 1 .. (n - 1)
  BY <1>1, <1>3, TakenIsSeq DEF IInv
<1>7. \A id \in 1 .. n : id = n \/ (id \in 1 .. (n - 1) /\ id \in Ids)
  BY <1>1, <1>3
<1>8. \A id \in 1 .. n : CallOf(id)' = IF id = n THEN c ELSE Taken[id]
  BY <1>4, <1>5, <1>7 DEF Taken
<1>9. Taken' = [id \in 1 .. n |-> IF id = n THEN c ELSE Taken[id]]
  <2>1. Taken' = [id \in 1 .. n |-> CallOf(id)']
    BY <1>1, <1>3 DEF Taken
  <2> QED BY <1>8, <2>1
<1>10. /\ Taken' \in Seq(Calls) /\ Len(Taken') = n
  <2>1. \A id \in 1 .. (n - 1) : Taken[id] \in Calls
    BY <1>6
  <2>2. \A id \in 1 .. n : Taken'[id] \in Calls
    BY <1>7, <1>9, <2>1
  <2> QED BY <1>9, <2>2
<1>11. /\ Append(Taken, c) \in Seq(Calls) /\ Len(Append(Taken, c)) = n
       /\ \A id \in 1 .. n : Append(Taken, c)[id] = IF id = n THEN c ELSE Taken[id]
  <2>1. Len(Taken) + 1 = n
    BY <1>6
  <2> QED BY <1>6, <1>7, <2>1, AppendLemma
<1>12. \A id \in 1 .. Len(Taken') : Taken'[id] = Append(Taken, c)[id]
  BY <1>9, <1>10, <1>11
<1> QED BY <1>10, <1>11, <1>12, SeqEqual

LEMMA RemoteInit == Init => Remote!Init
<1> SUFFICES ASSUME Init PROVE Remote!Init
  OBVIOUS
<1>1. Taken = <<>>
  BY InitIInv, TakenIsSeq, EmptySeq DEF Init, IInv
<1>2. LastRan = 0 /\ Effects = {} /\ Outcomes = [c \in Calls |-> "open"]
  BY DEF Init, LastRan, Effects, Outcomes, Outcome
<1> QED BY <1>1, <1>2 DEF Remote!Init, Taken, LastRan, Effects, Outcomes

\* A step that gives out no id and executes nothing.
LEMMA SameEffects ==
  ASSUME UNCHANGED <<idOf, nextId, ran>>
  PROVE  Taken' = Taken /\ LastRan' = LastRan /\ Effects' = Effects
BY DEF Taken, LastRan, Effects, Ids, CallOf

\* A call that returns is answered, with a result only if it was executed.
LEMMA ReturnAnswers ==
  ASSUME IInv, NEW c \in Calls, step[c] # "done", UNCHANGED <<idOf, nextId, ran>>,
         NEW a \in Errors \cup {"result"}, answer' = [answer EXCEPT ![c] = a],
         a = "result" => idOf[c] # 0 /\ idOf[c] \in Elements(ran)
  PROVE  Remote!Answer(c)
<1>1. Outcome(c) = "open" /\ answer \in [Calls -> Errors \cup {"none", "result"}]
  BY DEF IInv, TypeOK, AnsweredWasRun, Outcome
<1>2. Outcomes[c] = "open"
  BY <1>1 DEF Outcomes
<1>3. Outcomes' = [Outcomes EXCEPT ![c] = IF a = "result" THEN "result" ELSE "error"]
  BY <1>1 DEF Outcomes, Outcome, Errors
<1>4. a = "result" => c \in Effects
  BY CallOfOwn DEF IInv, Effects, Elements
<1> QED BY <1>2, <1>3, <1>4, SameEffects DEF Remote!Answer, Taken, LastRan, Effects, Outcomes

LEMMA RemoteStep == IInv /\ [Next]_vars => [Remote!Next]_(Remote!vars)
<1> SUFFICES ASSUME IInv, [Next]_vars PROVE Remote!Next \/ UNCHANGED Remote!vars
  OBVIOUS
<1>1. ASSUME UNCHANGED <<idOf, nextId, ran, answer>> PROVE UNCHANGED Remote!vars
  <2>1. Outcomes' = Outcomes
    BY <1>1 DEF Outcomes, Outcome
  <2> QED BY <1>1, <2>1, SameEffects DEF Remote!vars, Taken, LastRan, Effects, Outcomes
<1>2. ASSUME NEW c \in Calls, Begin(c) PROVE Remote!Take(c)
  <2>1. Taken' = Append(Taken, c)
    BY <1>2, IInvInductive, BeginTakes DEF IInv
  <2>2. idOf[c] = 0 /\ Outcomes[c] = "open" /\ UNCHANGED <<ran, answer>>
    BY <1>2 DEF Begin, Holds, IInv, NewestAtWork, AnsweredWasRun, Outcomes, Outcome
  <2>3. \A i \in DOMAIN Taken : Taken[i] # c
    BY <2>2, TakenIsSeq, CallOfId DEF IInv, Taken, Ids
  <2>4. Outcomes' = Outcomes /\ LastRan' = LastRan
    BY <2>2 DEF Outcomes, Outcome, LastRan
  <2>5. Effects' = Effects
    <3>1. \A i \in DOMAIN ran : ran[i] \in Ids
      BY DEF IInv, TypeOK
    <3>2. \A id \in Ids : Taken'[id] = Taken[id] /\ id \in Ids'
      <4>1. Taken \in Seq(Calls) /\ DOMAIN Taken = Ids
        BY TakenIsSeq DEF IInv
      <4>2. Ids \subseteq Ids'
        BY <1>2, MoreIds DEF Begin, Ids, IInv, TypeOK
      <4> QED BY <2>1, <4>1, <4>2, AppendLemma
    <3>3. \A id \in Ids : CallOf(id)' = CallOf(id)
      BY <3>2 DEF Taken
    <3> QED BY <2>2, <3>1, <3>3 DEF Effects
  <2> QED BY <2>1, <2>2, <2>3, <2>4, <2>5 DEF Remote!Take, Taken, LastRan, Effects, Outcomes
<1>3. ASSUME Execute PROVE Remote!Execute(serving.id)
  <2>1. /\ serving # NoRequest /\ serving.id \in Ids /\ ~serving.done
        /\ ran' = Append(ran, serving.id) /\ UNCHANGED <<idOf, nextId, answer>>
    BY <1>3 DEF Execute, bridge, IInv, TypeOK, NoRequest
  <2>2. ran \in Seq(Ids) /\ Len(ran) \in Nat /\ DOMAIN ran = 1 .. Len(ran)
    BY DEF IInv, TypeOK
  <2>3. serving.id > LastRan
    <3>1. CASE ran = <<>>
      BY <2>1, <3>1 DEF LastRan, Ids
    <3>2. CASE ran # <<>>
      <4>1. Len(ran) \in DOMAIN ran
        BY <2>2, <3>2, TailLemma
      <4>2. ran[Len(ran)] < serving.id
        BY <2>1, <4>1 DEF IInv, EffectsBehind
      <4> QED BY <2>1, <2>2, <3>2, <4>1, <4>2 DEF LastRan, Ids
    <3> QED BY <3>1, <3>2
  <2>4. Taken' = Taken /\ Outcomes' = Outcomes /\ \A id : CallOf(id)' = CallOf(id)
    BY <2>1 DEF Taken, Ids, CallOf, Outcomes, Outcome
  <2>5. LastRan' = serving.id
    <3>1. ran' # <<>> /\ ran'[Len(ran')] = serving.id
      BY <2>1, <2>2, AppendLemma
    <3> QED BY <3>1 DEF LastRan
  <2>6. Effects' = Effects \cup {Taken[serving.id]}
    <3>1. Taken[serving.id] = CallOf(serving.id)
      BY <2>1 DEF Taken
    <3>2. Effects = {CallOf(id) : id \in Elements(ran)} /\ Effects' = {CallOf(id) : id \in Elements(ran')}
      BY <2>4 DEF Effects, Elements
    <3>3. Elements(ran') = Elements(ran) \cup {serving.id}
      BY <2>1, <2>2, ElementsAppend
    <3> QED BY <3>1, <3>2, <3>3
  <2>7. serving.id \in DOMAIN Taken
    BY <2>1 DEF Taken
  <2> QED BY <2>3, <2>4, <2>5, <2>6, <2>7 DEF Remote!Execute, Taken, LastRan, Effects, Outcomes
<1>4. ASSUME NEW c \in Calls, Unavailable(c) \/ WriteFails(c) \/ TimeOut(c) \/ Disconnect(c)
      PROVE  Remote!Answer(c)
  <2>1. PICK a \in Errors : Return(c, a)
    BY <1>4 DEF Unavailable, WriteFails, TimeOut, Disconnect, Errors
  <2>2. step[c] # "done" /\ UNCHANGED <<idOf, nextId, ran>> /\ answer' = [answer EXCEPT ![c] = a]
    BY <1>4, <2>1 DEF Unavailable, WriteFails, TimeOut, Disconnect, Holds, Return
  <2>3. a # "result"
    BY DEF Errors
  <2> QED BY <2>2, <2>3, ReturnAnswers
<1>5. ASSUME NEW c \in Calls, Write(c) PROVE UNCHANGED Remote!vars
  <2>1. idOf[c] \notin Evicted(idOf[c])
    BY <1>5 DEF IInv, OwnIsAhead, Busy, Write, Holds, Evicted
  <2> QED BY <1>1, <1>5, <2>1 DEF Write
<1>6. ASSUME NEW c \in Calls, Receive(c) PROVE Remote!Answer(c) \/ UNCHANGED Remote!vars
  <2>1. CASE Head(channel) = idOf[c]
    <3>1. /\ step[c] # "done" /\ UNCHANGED <<idOf, nextId, ran>>
          /\ answer' = [answer EXCEPT ![c] = "result"]
      BY <1>6, <2>1 DEF Receive, Holds, Return
    <3>2. Head(channel) \in Elements(channel) /\ Head(channel) \in Ids
      BY <1>6, ElementsTail, TailLemma DEF Receive, IInv, TypeOK
    <3>3. idOf[c] # 0 /\ idOf[c] \in Elements(ran)
      BY <2>1, <3>2 DEF IInv, AnsweredWasRun, Ids
    <3> QED BY <3>1, <3>3, ReturnAnswers
  <2>2. CASE Head(channel) # idOf[c]
    BY <1>1, <1>6, <2>2 DEF Receive
  <2> QED BY <2>1, <2>2
<1>7. CASE Start \/ ReadRequest \/ Respond \/ Die \/ UNCHANGED vars \/ \E x \in Tasks : Enter(x)
  BY <1>1, <1>7 DEF Start, ReadRequest, Respond, Die, Enter, bridge, vars
<1>8. Execute => \E i \in DOMAIN Taken : Remote!Execute(i)
  BY <1>3 DEF Execute, Taken, IInv, TypeOK, NoRequest
<1> QED BY <1>2, <1>4, <1>5, <1>6, <1>7, <1>8
        DEF Next, Holder, Call, Service, Remote!Next, Taken

\* The bridge implements RemoteCalls: whatever times out and whenever the
\* service dies, a result is that of the call's own execution, each call is
\* executed at most once, and in the order in which the bridge took them.
THEOREM BridgeImplementsRemoteCalls == Spec => AnswersAreOwn
BY RemoteInit, RemoteStep, Invariance, PTL DEF Spec, AnswersAreOwn, Remote!Spec
=============================================================================
