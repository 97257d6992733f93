--------------------------- MODULE AnsibleProofs ---------------------------
(***************************************************************************)
(* Proofs about Ansible, for any number of messages, contents, file times  *)
(* and faults: the wait group counts the waiting handlers, a playbook in   *)
(* execution is recorded in the mapping file, a finished one is not.       *)
(***************************************************************************)
EXTENDS Ansible, FiniteSetTheorems, TLAPS

Running == {"run", "sendResults", "remove"}

(* The types, as far as they are needed.                                   *)
Shape ==
    /\ handler \in [Messages -> {"none", "onStart", "wait", "post", "onFailed", "returned"}]
    /\ exec \in [Messages -> {"none", "check", "add", "run", "sendResults", "remove",
                              "sendCompleted", "ended"}]
    /\ content \in [Messages -> Contents \cup {NoPath}]
    /\ modTime \in [Messages -> 0..MaxModTime] /\ clock \in ModTimes
    /\ modTimeToPath \in Mapping /\ pending \in Mapping
    /\ pathToModTime \in [Contents -> 0..MaxModTime]
    /\ file \in Mapping \cup {Garbled}
    /\ removedOk \subseteq Messages

Done == {"sendCompleted", "ended", "none"}

(* A message has its file, and then its goroutine, from its handler; until *)
(* the playbooks of the predecessor are executed there is no goroutine.    *)
StageInv ==
    /\ \A m \in Messages :
          /\ handler[m] = "none" => modTime[m] = 0 /\ content[m] = NoPath
          /\ handler[m] \in {"none", "onStart"} => exec[m] = "none"
          /\ handler[m] = "onStart" \/ exec[m] # "none" => content[m] \in Contents
          /\ content[m] # NoPath => modTime[m] \in ModTimes
          /\ m \in removedOk => /\ exec[m] \in Done /\ handler[m] \notin {"none", "onStart"}
                             /\ content[m] \in Contents
    /\ process \in {"starting", "disabled"} =>
          \A m \in Messages : handler[m] \in {"none", "returned"} /\ exec[m] = "none"

RunningWith(c) == {m \in Messages : exec[m] \in Running /\ content[m] = c}
EntriesOf(f, c) == {t \in ModTimes : f[t] = c}

(* There are at least as many entries of a content as executions of it.    *)
(* They need not be their own: Remove takes the last one added.            *)
RecordedInv ==
    DistinctTimes =>
        /\ \A m \in Messages : exec[m] = "add" => modTimeToPath[modTime[m]] = NoPath
        /\ \A c \in Contents :
              /\ pathToModTime[c] # 0 => modTimeToPath[pathToModTime[c]] = c
              /\ Cardinality(RunningWith(c)) <= Cardinality(EntriesOf(modTimeToPath, c))
              /\ file # Garbled => Cardinality(RunningWith(c)) <= Cardinality(EntriesOf(file, c))

(* An entry is that of a message.                                          *)
Origin(f) ==
    \A t \in ModTimes : f[t] # NoPath =>
        \E n \in Messages : content[n] = f[t] /\ modTime[n] = t /\ handler[n] # "none"

(* A message alone with its content and its time finds its entry, and has  *)
(* none when it was removed.                                               *)
Alone(m) == OwnTime(m) /\ OwnContent(m) /\ content[m] # NoPath
ForgottenInv ==
    /\ Origin(modTimeToPath) /\ (file # Garbled => Origin(file))
    /\ \A m \in Messages : Alone(m) =>
          /\ \A t \in ModTimes : modTimeToPath[t] = content[m] => pathToModTime[content[m]] = t
          /\ m \in removedOk =>
                /\ \A t \in ModTimes : modTimeToPath[t] # content[m]
                /\ file # Garbled => \A t \in ModTimes : file[t] # content[m]

-----------------------------------------------------------------------------
(* The wait group.                                                         *)

WaitingSet == {m \in Messages : handler[m] \in Waiting}

LEMMA WaitGroupStep ==
    ASSUME Shape, WaitGroupCounts, [Next]_vars PROVE WaitGroupCounts'
<1>0. /\ IsFiniteSet(WaitingSet) /\ wg = Cardinality(WaitingSet)
      /\ Cardinality(WaitingSet) \in Nat
    BY AnsibleAssumption, FS_Subset, FS_CardinalityType DEF WaitingSet, WaitGroupCounts
<1>1. ASSUME NEW m \in Messages, StartExec(m) PROVE WaitGroupCounts'
  <2>1. wg' = wg + 1 /\ m \notin WaitingSet /\ WaitingSet' = WaitingSet \cup {m}
      BY <1>1 DEF StartExec, Move, Shape, WaitingSet, Waiting
  <2>2. Cardinality(WaitingSet') = Cardinality(WaitingSet) + 1
      BY <1>0, <2>1, FS_AddElement
  <2>3. wg' = Cardinality(WaitingSet')
      BY <1>0, <2>1, <2>2
  <2> QED
      BY <2>3 DEF WaitGroupCounts, WaitingSet
<1>2. ASSUME NEW m \in Messages, TimeOut(m) \/ ReceiveCompleted(m) PROVE WaitGroupCounts'
  <2>1. wg' = wg - 1 /\ m \in WaitingSet /\ WaitingSet' = WaitingSet \ {m}
      BY <1>2 DEF TimeOut, ReceiveCompleted, Move, Shape, WaitingSet, Waiting
  <2> QED
      BY <1>0, <2>1, FS_RemoveElement DEF WaitGroupCounts, WaitingSet
<1>3. CASE NewAnsibleManager
  <2>1. wg' = 0 /\ WaitingSet' = {}
      BY <1>3 DEF NewAnsibleManager, WaitingSet, Waiting
  <2> QED
      BY <2>1, FS_EmptySet DEF WaitGroupCounts, WaitingSet
<1>4. ASSUME wg' = wg, WaitingSet' = WaitingSet PROVE WaitGroupCounts'
    BY <1>0, <1>4 DEF WaitGroupCounts, WaitingSet
<1>5. ASSUME NEW m \in Messages,
             \/ Refuse(m) \/ WritePlaybook(m) \/ ReceiveResults(m) \/ PostNothing(m) \/ Post(m)
             \/ AppendFailed(m)
      PROVE  wg' = wg /\ WaitingSet' = WaitingSet
    BY <1>5 DEF Refuse, WritePlaybook, ReceiveResults, PostNothing, Post, AppendFailed, Move,
                Shape, WaitingSet, Waiting
<1>6. ASSUME NEW m \in Messages, execPlaybook(m) PROVE wg' = wg /\ WaitingSet' = WaitingSet
    BY <1>6 DEF execPlaybook, CheckExists, AddPlaybook, ReadFails, AddFails, RunPlaybook,
                ParseFails, RemovePlaybook, WaitingSet
<1>7. CASE ExecutePendingPlaybooks \/ PopEvents \/ Stop \/ UNCHANGED vars
  <2>1. wg' = wg /\ WaitingSet' = WaitingSet
      BY <1>7 DEF ExecutePendingPlaybooks, PendingDone, ExecPending, PendingFails, PopEvents,
                  Stop, vars, goroutines, WaitingSet
  <2> QED
      BY <1>4, <2>1
<1> QED
    BY <1>1, <1>2, <1>3, <1>4, <1>5, <1>6, <1>7
       DEF Next, Receive, Work, HandlePlaybook, Handle, Exit, Crash

-----------------------------------------------------------------------------
(* Shape and StageInv.                                                     *)

Kept == <<content, modTime, clock, modTimeToPath, pathToModTime, file, pending, removedOk>>

(* The steps of the goroutines that change nothing but their places.       *)
Place(m) ==
    \/ Refuse(m) \/ StartExec(m) \/ TimeOut(m) \/ ReceiveResults(m) \/ PostNothing(m) \/ Post(m)
    \/ ReceiveCompleted(m) \/ AppendFailed(m) \/ CheckExists(m) \/ ReadFails(m)
    \/ RunPlaybook(m) \/ ParseFails(m)

LEMMA PlaceKeeps == ASSUME NEW m \in Messages, Place(m) PROVE UNCHANGED <<Kept, process>>
BY DEF Place, Kept, Refuse, StartExec, TimeOut, ReceiveResults, PostNothing, Post,
       ReceiveCompleted, AppendFailed, CheckExists, ReadFails, RunPlaybook, ParseFails,
       message, repository, startup

(* Where a step leads from where.                                          *)
LEMMA PlaceMoves ==
    ASSUME Shape, StageInv, NEW m \in Messages, Place(m)
    PROVE  /\ handler' \in [Messages -> {"none", "onStart", "wait", "post", "onFailed", "returned"}]
           /\ exec' \in [Messages -> {"none", "check", "add", "run", "sendResults", "remove",
                                     "sendCompleted", "ended"}]
           /\ \A n \in Messages \ {m} : handler'[n] = handler[n] /\ exec'[n] = exec[n]
           /\ handler'[m] \notin {"none", "onStart"}
           /\ exec'[m] # "none" => exec[m] # "none" \/ handler[m] = "onStart"
           /\ exec'[m] = "add" => exec[m] = "add" \/ modTimeToPath[modTime[m]] = NoPath
           /\ exec'[m] \in Running => exec[m] \in Running
           /\ exec[m] \in Done => exec'[m] \in Done \/ handler[m] = "onStart"
<1> USE DEF Move, Shape, StageInv, Running, Done
<1>1. CASE Refuse(m)
    BY <1>1 DEF Refuse
<1>2. CASE StartExec(m)
    BY <1>2 DEF StartExec
<1>3. CASE TimeOut(m) \/ PostNothing(m) \/ Post(m) \/ AppendFailed(m)
    BY <1>3 DEF TimeOut, PostNothing, Post, AppendFailed
<1>4. CASE ReceiveResults(m)
    BY <1>4 DEF ReceiveResults
<1>5. CASE ReceiveCompleted(m)
    BY <1>5 DEF ReceiveCompleted
<1>6. CASE CheckExists(m)
    BY <1>6 DEF CheckExists, Exists, Signal
<1>7. CASE ReadFails(m) \/ RunPlaybook(m) \/ ParseFails(m)
    BY <1>7 DEF ReadFails, RunPlaybook, ParseFails, Signal
<1> QED
    BY <1>1, <1>2, <1>3, <1>4, <1>5, <1>6, <1>7 DEF Place

LEMMA EntryShape ==
    ASSUME NEW f \in Mapping, NEW t \in ModTimes, NEW c \in Contents \cup {NoPath}
    PROVE  f[t] \in Contents \cup {NoPath} /\ [f EXCEPT ![t] = c] \in Mapping
BY DEF Mapping

LEMMA EmptyShape == /\ Empty \in Mapping /\ \A t \in ModTimes : Empty[t] = NoPath
                    /\ NoPath \notin Contents /\ 0 \notin ModTimes
                    /\ ModTimes \subseteq 0..MaxModTime /\ 0 \in 0..MaxModTime
BY AnsibleAssumption DEF Mapping, Empty, ModTimes

(* The maps after Remove.                                                  *)
LEMMA ForgetShape ==
    ASSUME Shape, NEW c \in Contents, Forget(c)
    PROVE  modTimeToPath' \in Mapping /\ pathToModTime' \in [Contents -> 0..MaxModTime]
BY EmptyShape DEF Shape, Forget, Mapping

LEMMA PersistShape == ASSUME Shape, modTimeToPath' \in Mapping, persist \/ persistFails
                      PROVE  file' \in Mapping \cup {Garbled}
BY DEF Shape, persist, persistFails

(* The message whose goroutine is somewhere has a playbook and a file.     *)
LEMMA ExecHas == ASSUME Shape, StageInv, NEW m \in Messages, exec[m] # "none"
                 PROVE  /\ content[m] \in Contents /\ modTime[m] \in ModTimes
                        /\ handler[m] \notin {"none", "onStart"}
                        /\ process \notin {"starting", "disabled"}
BY EmptyShape DEF StageInv

LEMMA BaseStep == ASSUME Shape, StageInv, [Next]_vars PROVE Shape' /\ StageInv'
<1>1. ASSUME NEW m \in Messages, Place(m) PROVE Shape' /\ StageInv'
  <2>1. UNCHANGED <<Kept, process>>
      BY <1>1, PlaceKeeps
  <2>2. Shape'
      BY <1>1, <2>1, PlaceMoves DEF Shape, Kept
  <2>3. handler[m] # "none" \/ Refuse(m)
      BY <1>1, ExecHas DEF Place, StartExec, TimeOut, ReceiveResults, PostNothing, Post,
         ReceiveCompleted, AppendFailed, CheckExists, ReadFails, RunPlaybook, ParseFails, Signal, Move
  <2>4. process \notin {"starting", "disabled"}
      BY <1>1, ExecHas DEF StageInv, Place, Refuse, StartExec, TimeOut, ReceiveResults, PostNothing, Post,
         ReceiveCompleted, AppendFailed, CheckExists, ReadFails, RunPlaybook, ParseFails, Signal, Move
  <2>5. /\ \A n \in Messages \ {m} : handler'[n] = handler[n] /\ exec'[n] = exec[n]
        /\ handler'[m] \notin {"none", "onStart"}
        /\ exec'[m] # "none" => exec[m] # "none" \/ handler[m] = "onStart"
        /\ exec[m] \in Done => exec'[m] \in Done \/ handler[m] = "onStart"
      BY <1>1, PlaceMoves
  <2>6. StageInv'
      BY <2>1, <2>4, <2>5 DEF StageInv, Kept
  <2> QED
      BY <2>2, <2>6
<1>2. ASSUME NEW m \in Messages, WritePlaybook(m) PROVE Shape' /\ StageInv'
  <2>1. PICK c \in Contents :
           /\ handler[m] = "none" /\ handler' = [handler EXCEPT ![m] = "onStart"]
           /\ clock' \in ModTimes /\ modTime' = [modTime EXCEPT ![m] = clock']
           /\ content' = [content EXCEPT ![m] = c]
           /\ UNCHANGED <<exec, modTimeToPath, pathToModTime, file, pending, removedOk, process>>
           /\ process \in {"ready", "stopping"}
      BY <1>2 DEF WritePlaybook, Move, repository, startup
  <2>2. Shape'
    <3>1. clock' \in 0..MaxModTime
        BY <2>1, EmptyShape
    <3> QED
        BY <2>1, <3>1 DEF Shape
  <2>3. StageInv'
      BY <2>1 DEF StageInv, Shape
  <2> QED
      BY <2>2, <2>3
<1>3. ASSUME NEW m \in Messages, AddPlaybook(m) \/ AddFails(m) PROVE Shape' /\ StageInv'
  <2>1. exec[m] = "add"
      BY <1>3 DEF AddPlaybook, AddFails, Signal, Move
  <2>2. /\ content[m] \in Contents /\ modTime[m] \in ModTimes
        /\ handler[m] \notin {"none", "onStart"}
        /\ process \notin {"starting", "disabled"}
      BY <2>1, ExecHas
  <2>3. /\ modTimeToPath' = [modTimeToPath EXCEPT ![modTime[m]] = content[m]]
        /\ pathToModTime' = [pathToModTime EXCEPT ![content[m]] = modTime[m]]
        /\ persist \/ persistFails
        /\ UNCHANGED <<handler, content, modTime, clock, pending, removedOk, process>>
        /\ \/ exec' = [exec EXCEPT ![m] = "run"]
           \/ exec' = [exec EXCEPT ![m] = "sendCompleted"]
      BY <1>3 DEF AddPlaybook, AddFails, Add, Signal, Move, message, startup
  <2>4. modTimeToPath' \in Mapping
      BY <2>2, <2>3, EntryShape DEF Shape
  <2>5. pathToModTime' \in [Contents -> 0..MaxModTime]
      BY <2>2, <2>3, EmptyShape DEF Shape
  <2>6. file' \in Mapping \cup {Garbled}
      BY <2>3, <2>4, PersistShape
  <2>7. Shape'
      BY <2>3, <2>4, <2>5, <2>6 DEF Shape
  <2>8. StageInv'
      BY <2>1, <2>2, <2>3 DEF StageInv, Shape, Done
  <2> QED
      BY <2>7, <2>8
<1>4. ASSUME NEW m \in Messages, RemovePlaybook(m) PROVE Shape' /\ StageInv'
  <2>1. /\ exec[m] = "remove" /\ exec' = [exec EXCEPT ![m] = "sendCompleted"]
        /\ UNCHANGED <<handler, content, modTime, clock, pending, process>>
        /\ Forget(content[m]) /\ (persist \/ persistFails)
        /\ removedOk' \in {removedOk, removedOk \cup {m}}
      BY <1>4 DEF RemovePlaybook, Move, message, startup
  <2>2. /\ content[m] \in Contents /\ handler[m] \notin {"none", "onStart"}
        /\ process \notin {"starting", "disabled"}
      BY <2>1, ExecHas
  <2>3. modTimeToPath' \in Mapping /\ pathToModTime' \in [Contents -> 0..MaxModTime]
      BY <2>1, <2>2, ForgetShape
  <2>4. file' \in Mapping \cup {Garbled}
      BY <2>1, <2>3, PersistShape
  <2>5. Shape'
      BY <2>1, <2>3, <2>4 DEF Shape
  <2>6. StageInv'
      BY <2>1, <2>2 DEF StageInv, Shape, Done
  <2> QED
      BY <2>5, <2>6
<1>5. ASSUME NEW t \in ModTimes, ExecPending(t) PROVE Shape' /\ StageInv'
  <2>1. /\ pending[t] # NoPath /\ pending' = [pending EXCEPT ![t] = NoPath]
        /\ Forget(pending[t]) /\ (persist \/ persistFails)
        /\ UNCHANGED <<handler, exec, content, modTime, clock, removedOk, process>>
      BY <1>5 DEF ExecPending, goroutines, message
  <2>2. pending[t] \in Contents /\ pending' \in Mapping
      BY <2>1, EntryShape DEF Shape
  <2>3. modTimeToPath' \in Mapping /\ pathToModTime' \in [Contents -> 0..MaxModTime]
      BY <2>1, <2>2, ForgetShape
  <2>4. file' \in Mapping \cup {Garbled}
      BY <2>1, <2>3, PersistShape
  <2>5. Shape'
      BY <2>1, <2>2, <2>3, <2>4 DEF Shape
  <2>6. StageInv'
      BY <2>1 DEF StageInv
  <2> QED
      BY <2>5, <2>6
<1>6. CASE \/ \E t \in ModTimes : PendingFails(t)
           \/ PendingDone \/ PopEvents \/ Stop \/ UNCHANGED vars
  <2>1. /\ UNCHANGED <<handler, exec, content, modTime, clock, modTimeToPath, pathToModTime, file,
                       removedOk>>
        /\ pending' \in {pending, Empty} /\ process' \in {process, "ready", "stopping"}
      BY <1>6 DEF PendingFails, PendingDone, PopEvents, Stop, vars, goroutines, message,
                  repository, startup
  <2>2. Shape'
      BY <2>1, EmptyShape DEF Shape
  <2>3. StageInv'
      BY <2>1 DEF StageInv
  <2> QED
      BY <2>2, <2>3
<1>7. CASE NewAnsibleManager
  <2>1. /\ handler' = [m \in Messages |-> IF handler[m] = "none" THEN "none" ELSE "returned"]
        /\ exec' = [m \in Messages |-> "none"]
        /\ UNCHANGED <<content, modTime, clock, file, removedOk>>
      BY <1>7 DEF NewAnsibleManager, message
  <2>2. modTimeToPath' \in Mapping /\ pending' \in Mapping
      BY <1>7, EmptyShape DEF NewAnsibleManager, Shape
  <2>3. pathToModTime' \in [Contents -> 0..MaxModTime]
    <3>1. CASE file = Garbled
        BY <1>7, <3>1, EmptyShape DEF NewAnsibleManager
    <3>2. CASE file # Garbled
      <4>1. pathToModTime' \in [Contents -> ModTimes \cup {0}]
          BY <1>7, <3>2 DEF NewAnsibleManager
      <4> QED
          BY <4>1, EmptyShape
    <3> QED
        BY <3>1, <3>2
  <2>4. Shape'
      BY <2>1, <2>2, <2>3 DEF Shape
  <2>5. StageInv'
      BY <2>1 DEF StageInv, Done, Shape
  <2> QED
      BY <2>4, <2>5
<1> QED
    BY <1>1, <1>2, <1>3, <1>4, <1>5, <1>6, <1>7
       DEF Next, Receive, Work, HandlePlaybook, Handle, execPlaybook, Place, ExecutePendingPlaybooks,
           Exit, Crash

-----------------------------------------------------------------------------
(* A playbook in execution is recorded.                                    *)

LEMMA CountsFinite ==
    ASSUME NEW c
    PROVE  /\ IsFiniteSet(RunningWith(c)) /\ Cardinality(RunningWith(c)) \in Nat
           /\ \A f : IsFiniteSet(EntriesOf(f, c)) /\ Cardinality(EntriesOf(f, c)) \in Nat
<1>1. IsFiniteSet(ModTimes)
    BY AnsibleAssumption, FS_Interval DEF ModTimes
<1>2. IsFiniteSet(RunningWith(c))
    BY AnsibleAssumption, FS_Subset DEF RunningWith
<1>3. ASSUME NEW f PROVE IsFiniteSet(EntriesOf(f, c))
    BY <1>1, FS_Subset DEF EntriesOf
<1> QED
    BY <1>2, <1>3, FS_CardinalityType

(* Fewer executions, the same entries.                                     *)
LEMMA FewerRunning ==
    ASSUME NEW c, RunningWith(c)' \subseteq RunningWith(c)
    PROVE  /\ Cardinality(RunningWith(c)') \in Nat
           /\ Cardinality(RunningWith(c)') <= Cardinality(RunningWith(c))
BY CountsFinite, FS_Subset, FS_CardinalityType

(* Adding an entry at a time that has none.                                *)
LEMMA AddEntry ==
    ASSUME Shape, StageInv, RecordedInv, DistinctTimes, NEW m \in Messages, exec[m] = "add",
           modTimeToPath' = [modTimeToPath EXCEPT ![modTime[m]] = content[m]],
           pathToModTime' = [pathToModTime EXCEPT ![content[m]] = modTime[m]]
    PROVE  /\ \A n \in Messages \ {m} : exec[n] = "add" => modTimeToPath'[modTime[n]] = NoPath
           /\ \A c \in Contents :
                 /\ pathToModTime'[c] # 0 => modTimeToPath'[pathToModTime'[c]] = c
                 /\ c # content[m] => EntriesOf(modTimeToPath', c) = EntriesOf(modTimeToPath, c)
           /\ Cardinality(EntriesOf(modTimeToPath', content[m]))
                  = Cardinality(EntriesOf(modTimeToPath, content[m])) + 1
<1>1. /\ content[m] \in Contents /\ modTime[m] \in ModTimes
      /\ modTimeToPath[modTime[m]] = NoPath /\ content[m] # NoPath /\ modTime[m] # 0
    BY ExecHas, EmptyShape DEF RecordedInv
<1>2. modTimeToPath'[modTime[m]] = content[m]
      /\ \A t \in ModTimes \ {modTime[m]} : modTimeToPath'[t] = modTimeToPath[t]
    BY <1>1 DEF Shape, Mapping
<1>3. ASSUME NEW n \in Messages \ {m}, exec[n] = "add"
      PROVE  modTimeToPath'[modTime[n]] = NoPath
  <2>1. modTime[n] # modTime[m]
      BY <1>1, <1>3 DEF DistinctTimes, OwnTime
  <2>2. modTime[n] \in ModTimes /\ modTimeToPath[modTime[n]] = NoPath
      BY <1>3, ExecHas DEF RecordedInv
  <2> QED
      BY <1>2, <2>1, <2>2
<1>4. ASSUME NEW c \in Contents, pathToModTime'[c] # 0
      PROVE  modTimeToPath'[pathToModTime'[c]] = c
  <2>1. CASE c = content[m]
      BY <1>1, <1>2, <2>1 DEF Shape
  <2>2. CASE c # content[m]
    <3>1. pathToModTime'[c] = pathToModTime[c] /\ modTimeToPath[pathToModTime[c]] = c
        BY <1>1, <1>4, <2>2 DEF Shape, RecordedInv
    <3>2. pathToModTime[c] # modTime[m]
        BY <1>1, <3>1, EmptyShape
    <3>3. pathToModTime[c] \in ModTimes
        BY <1>4, <3>1, AnsibleAssumption DEF Shape, ModTimes
    <3> QED
        BY <1>2, <3>1, <3>2, <3>3
  <2> QED
      BY <2>1, <2>2
<1>5. ASSUME NEW c \in Contents, c # content[m]
      PROVE  EntriesOf(modTimeToPath', c) = EntriesOf(modTimeToPath, c)
    BY <1>1, <1>2, <1>5, EmptyShape DEF EntriesOf
<1>6. /\ EntriesOf(modTimeToPath', content[m])
             = EntriesOf(modTimeToPath, content[m]) \cup {modTime[m]}
      /\ modTime[m] \notin EntriesOf(modTimeToPath, content[m])
    BY <1>1, <1>2 DEF EntriesOf
<1>7. Cardinality(EntriesOf(modTimeToPath', content[m]))
          = Cardinality(EntriesOf(modTimeToPath, content[m])) + 1
    BY <1>6, CountsFinite, FS_AddElement
<1> QED
    BY <1>3, <1>4, <1>5, <1>7

(* Remove takes one entry of its content at the most.                      *)
LEMMA ForgetEntry ==
    ASSUME Shape, RecordedInv, DistinctTimes, NEW d \in Contents, Forget(d)
    PROVE  /\ \A t \in ModTimes : modTimeToPath[t] = NoPath => modTimeToPath'[t] = NoPath
           /\ \A c \in Contents :
                 /\ pathToModTime'[c] # 0 => modTimeToPath'[pathToModTime'[c]] = c
                 /\ c # d => EntriesOf(modTimeToPath', c) = EntriesOf(modTimeToPath, c)
           /\ Cardinality(EntriesOf(modTimeToPath', d))
                  >= Cardinality(EntriesOf(modTimeToPath, d)) - 1
<1> DEFINE p == pathToModTime[d]
<1>1. /\ \A t \in ModTimes : modTimeToPath'[t] = IF t = p THEN NoPath ELSE modTimeToPath[t]
      /\ \A c \in Contents : pathToModTime'[c] = IF c = d THEN 0 ELSE pathToModTime[c]
    BY DEF Forget, Shape
<1>2. \A c \in Contents : pathToModTime[c] # 0 => pathToModTime[c] \in ModTimes
    BY AnsibleAssumption DEF Shape, ModTimes
<1>3. \A c \in Contents : pathToModTime[c] # 0 => modTimeToPath[pathToModTime[c]] = c
    BY DEF RecordedInv
<1> HIDE DEF p
<1>4. p \in ModTimes => modTimeToPath[p] = d
    BY <1>3, EmptyShape DEF p
<1>5. ASSUME NEW c \in Contents, pathToModTime'[c] # 0
      PROVE  modTimeToPath'[pathToModTime'[c]] = c
  <2>1. c # d /\ pathToModTime'[c] = pathToModTime[c]
      BY <1>1, <1>5
  <2>2. pathToModTime[c] \in ModTimes /\ modTimeToPath[pathToModTime[c]] = c
      BY <1>2, <1>3, <1>5, <2>1
  <2>3. pathToModTime[c] # p
      BY <1>4, <2>1, <2>2
  <2> QED
      BY <1>1, <2>1, <2>2, <2>3
<1>6. ASSUME NEW c \in Contents, c # d
      PROVE  EntriesOf(modTimeToPath', c) = EntriesOf(modTimeToPath, c)
    BY <1>1, <1>4, <1>6, EmptyShape DEF EntriesOf
<1>7. EntriesOf(modTimeToPath', d) = EntriesOf(modTimeToPath, d) \ {p}
    BY <1>1, EmptyShape DEF EntriesOf
<1>8. Cardinality(EntriesOf(modTimeToPath', d)) >= Cardinality(EntriesOf(modTimeToPath, d)) - 1
  <2>1. Cardinality(EntriesOf(modTimeToPath', d))
           = IF p \in EntriesOf(modTimeToPath, d) THEN Cardinality(EntriesOf(modTimeToPath, d)) - 1
                                                  ELSE Cardinality(EntriesOf(modTimeToPath, d))
      BY <1>7, CountsFinite, FS_RemoveElement
  <2> QED
      BY <2>1, CountsFinite
<1> QED
    BY <1>1, <1>5, <1>6, <1>8

LEMMA RecordedStep ==
    ASSUME Shape, StageInv, RecordedInv, [Next]_vars PROVE RecordedInv'
<1>1. ASSUME NEW m \in Messages, Place(m) PROVE RecordedInv'
  <2>1. UNCHANGED Kept
      BY <1>1, PlaceKeeps
  <2>2. DistinctTimes' <=> DistinctTimes
      BY <2>1 DEF DistinctTimes, OwnTime, Kept
  <2>3. ASSUME NEW c PROVE RunningWith(c)' \subseteq RunningWith(c)
      BY <1>1, <2>1, PlaceMoves DEF RunningWith, Kept
  <2>4. \A c : Cardinality(RunningWith(c)') <= Cardinality(RunningWith(c))
               /\ Cardinality(RunningWith(c)') \in Nat
      BY <2>3, FewerRunning
  <2>5. DistinctTimes => \A n \in Messages : exec'[n] = "add" => modTimeToPath[modTime[n]] = NoPath
      BY <1>1, PlaceMoves DEF RecordedInv
  <2>6. ASSUME DistinctTimes, NEW c \in Contents
        PROVE  /\ Cardinality(RunningWith(c)') <= Cardinality(EntriesOf(modTimeToPath, c))
               /\ file # Garbled => Cardinality(RunningWith(c)') <= Cardinality(EntriesOf(file, c))
    <3>1. /\ Cardinality(RunningWith(c)) \in Nat /\ Cardinality(EntriesOf(modTimeToPath, c)) \in Nat
          /\ Cardinality(EntriesOf(file, c)) \in Nat
        BY CountsFinite
    <3>2. /\ Cardinality(RunningWith(c)) <= Cardinality(EntriesOf(modTimeToPath, c))
          /\ file # Garbled => Cardinality(RunningWith(c)) <= Cardinality(EntriesOf(file, c))
        BY <2>6 DEF RecordedInv
    <3> QED
        BY <2>4, <3>1, <3>2
  <2>7. \A c : /\ EntriesOf(modTimeToPath, c)' = EntriesOf(modTimeToPath, c)
               /\ EntriesOf(file, c)' = EntriesOf(file, c)
      BY <2>1 DEF EntriesOf, Kept
  <2> QED
      BY <2>1, <2>2, <2>5, <2>6, <2>7 DEF RecordedInv, Kept
<1>2. ASSUME NEW m \in Messages, WritePlaybook(m) PROVE RecordedInv'
  <2>1. PICK c \in Contents :
           /\ handler[m] = "none"
           /\ modTime' = [modTime EXCEPT ![m] = clock'] /\ content' = [content EXCEPT ![m] = c]
           /\ UNCHANGED <<exec, modTimeToPath, pathToModTime, file>>
      BY <1>2 DEF WritePlaybook, Move, repository
  <2>2. modTime[m] = 0 /\ exec[m] = "none"
      BY <2>1 DEF StageInv
  <2>3. DistinctTimes' => DistinctTimes
      BY <2>1, <2>2 DEF DistinctTimes, OwnTime, Shape
  <2>4. \A n \in Messages : exec[n] # "none" => modTime'[n] = modTime[n] /\ content'[n] = content[n]
      BY <2>1, <2>2 DEF Shape
  <2>5. \A d : RunningWith(d)' = RunningWith(d)
      BY <2>1, <2>4 DEF RunningWith, Running
  <2>6. \A d : /\ EntriesOf(modTimeToPath, d)' = EntriesOf(modTimeToPath, d)
               /\ EntriesOf(file, d)' = EntriesOf(file, d)
      BY <2>1 DEF EntriesOf
  <2> QED
      BY <2>1, <2>3, <2>4, <2>5, <2>6 DEF RecordedInv
<1>3. ASSUME NEW m \in Messages, AddPlaybook(m) PROVE RecordedInv'
  <2>1. /\ exec[m] = "add" /\ exec' = [exec EXCEPT ![m] = "run"]
        /\ modTimeToPath' = [modTimeToPath EXCEPT ![modTime[m]] = content[m]]
        /\ pathToModTime' = [pathToModTime EXCEPT ![content[m]] = modTime[m]]
        /\ file' = modTimeToPath' /\ UNCHANGED <<content, modTime>>
      BY <1>3 DEF AddPlaybook, Add, persist, Move, message
  <2>2. DistinctTimes' <=> DistinctTimes
      BY <2>1 DEF DistinctTimes, OwnTime
  <2>3. \A n \in Messages : exec'[n] = "add" => n # m /\ exec[n] = "add"
      BY <2>1 DEF Shape
  <2>4. /\ RunningWith(content[m])' = RunningWith(content[m]) \cup {m}
        /\ m \notin RunningWith(content[m])
        /\ \A c : c # content[m] => RunningWith(c)' = RunningWith(c)
      BY <2>1 DEF RunningWith, Running, Shape
  <2>5. Cardinality(RunningWith(content[m])') = Cardinality(RunningWith(content[m])) + 1
      BY <2>4, CountsFinite, FS_AddElement
  <2>6. ASSUME DistinctTimes, NEW c \in Contents
        PROVE  Cardinality(RunningWith(c)') <= Cardinality(EntriesOf(modTimeToPath', c))
    <3>1. /\ Cardinality(RunningWith(c)) \in Nat /\ Cardinality(EntriesOf(modTimeToPath, c)) \in Nat
          /\ Cardinality(RunningWith(c)) <= Cardinality(EntriesOf(modTimeToPath, c))
        BY <2>6, CountsFinite DEF RecordedInv
    <3>2. CASE c = content[m]
      <4>1. Cardinality(EntriesOf(modTimeToPath', c)) = Cardinality(EntriesOf(modTimeToPath, c)) + 1
          BY <2>1, <2>6, <3>2, AddEntry
      <4>2. RunningWith(c)' = RunningWith(content[m])'
          BY <2>1, <3>2 DEF RunningWith
      <4>3. Cardinality(RunningWith(c)') = Cardinality(RunningWith(c)) + 1
          BY <2>5, <3>2, <4>2
      <4> QED
          BY <3>1, <4>1, <4>3
    <3>3. CASE c # content[m]
      <4>1. EntriesOf(modTimeToPath', c) = EntriesOf(modTimeToPath, c)
          BY <2>1, <2>6, <3>3, AddEntry
      <4> QED
          BY <2>4, <3>1, <3>3, <4>1
    <3> QED
        BY <3>2, <3>3
  <2>7. ASSUME DistinctTimes
        PROVE  /\ \A n \in Messages \ {m} : exec[n] = "add" => modTimeToPath'[modTime[n]] = NoPath
               /\ \A c \in Contents :
                     pathToModTime'[c] # 0 => modTimeToPath'[pathToModTime'[c]] = c
      BY <2>1, <2>7, AddEntry
  <2>8. \A c : EntriesOf(modTimeToPath, c)' = EntriesOf(modTimeToPath', c)
               /\ EntriesOf(file, c)' = EntriesOf(modTimeToPath', c)
      BY <2>1 DEF EntriesOf
  <2> QED
      BY <2>1, <2>2, <2>3, <2>6, <2>7, <2>8 DEF RecordedInv
<1>4. ASSUME NEW m \in Messages, AddFails(m) PROVE RecordedInv'
  <2>1. /\ exec[m] = "add" /\ exec' = [exec EXCEPT ![m] = "sendCompleted"]
        /\ modTimeToPath' = [modTimeToPath EXCEPT ![modTime[m]] = content[m]]
        /\ pathToModTime' = [pathToModTime EXCEPT ![content[m]] = modTime[m]]
        /\ file' \in {file, Garbled} /\ UNCHANGED <<content, modTime>>
      BY <1>4 DEF AddFails, persistFails, Signal, Move, message
  <2>2. DistinctTimes' <=> DistinctTimes
      BY <2>1 DEF DistinctTimes, OwnTime
  <2>3. \A n \in Messages : exec'[n] = "add" => n # m /\ exec[n] = "add"
      BY <2>1 DEF Shape
  <2>4. \A c : RunningWith(c)' = RunningWith(c)
      BY <2>1 DEF RunningWith, Running, Shape
  <2>5. ASSUME DistinctTimes, NEW c \in Contents
        PROVE  Cardinality(RunningWith(c)') <= Cardinality(EntriesOf(modTimeToPath', c))
    <3>1. /\ Cardinality(RunningWith(c)) \in Nat /\ Cardinality(EntriesOf(modTimeToPath, c)) \in Nat
          /\ Cardinality(RunningWith(c)) <= Cardinality(EntriesOf(modTimeToPath, c))
        BY <2>5, CountsFinite DEF RecordedInv
    <3>2. \/ EntriesOf(modTimeToPath', c) = EntriesOf(modTimeToPath, c)
          \/ Cardinality(EntriesOf(modTimeToPath', c)) = Cardinality(EntriesOf(modTimeToPath, c)) + 1
        BY <2>1, <2>5, AddEntry
    <3> QED
        BY <2>4, <3>1, <3>2
  <2>6. ASSUME DistinctTimes
        PROVE  /\ \A n \in Messages \ {m} : exec[n] = "add" => modTimeToPath'[modTime[n]] = NoPath
               /\ \A c \in Contents :
                     pathToModTime'[c] # 0 => modTimeToPath'[pathToModTime'[c]] = c
      BY <2>1, <2>6, AddEntry
  <2>7. \A c : /\ EntriesOf(modTimeToPath, c)' = EntriesOf(modTimeToPath', c)
               /\ file' # Garbled => file # Garbled /\ EntriesOf(file, c)' = EntriesOf(file, c)
      BY <2>1 DEF EntriesOf
  <2> QED
      BY <2>1, <2>2, <2>3, <2>4, <2>5, <2>6, <2>7 DEF RecordedInv
<1>5. ASSUME NEW m \in Messages, RemovePlaybook(m) PROVE RecordedInv'
  <2>1. /\ exec[m] = "remove" /\ exec' = [exec EXCEPT ![m] = "sendCompleted"]
        /\ Forget(content[m]) /\ UNCHANGED <<content, modTime>>
        /\ file' \in {file, Garbled, modTimeToPath'}
      BY <1>5 DEF RemovePlaybook, persist, persistFails, Move, message
  <2>2. content[m] \in Contents
      BY <2>1, ExecHas
  <2>3. DistinctTimes' <=> DistinctTimes
      BY <2>1 DEF DistinctTimes, OwnTime
  <2>4. /\ RunningWith(content[m])' = RunningWith(content[m]) \ {m}
        /\ m \in RunningWith(content[m])
        /\ \A c : c # content[m] => RunningWith(c)' = RunningWith(c)
      BY <2>1 DEF RunningWith, Running, Shape
  <2>5. Cardinality(RunningWith(content[m])') = Cardinality(RunningWith(content[m])) - 1
      BY <2>4, CountsFinite, FS_RemoveElement
  <2>6. ASSUME DistinctTimes, NEW c \in Contents
        PROVE  /\ Cardinality(RunningWith(c)') <= Cardinality(EntriesOf(modTimeToPath', c))
               /\ file # Garbled => Cardinality(RunningWith(c)') <= Cardinality(EntriesOf(file, c))
    <3>1. /\ Cardinality(RunningWith(c)) \in Nat
          /\ Cardinality(EntriesOf(modTimeToPath, c)) \in Nat
          /\ Cardinality(EntriesOf(modTimeToPath', c)) \in Nat
          /\ Cardinality(EntriesOf(file, c)) \in Nat
        BY CountsFinite
    <3>2. /\ Cardinality(RunningWith(c)) <= Cardinality(EntriesOf(modTimeToPath, c))
          /\ file # Garbled => Cardinality(RunningWith(c)) <= Cardinality(EntriesOf(file, c))
        BY <2>6 DEF RecordedInv
    <3>3. CASE c = content[m]
      <4>1. Cardinality(EntriesOf(modTimeToPath', c)) >= Cardinality(EntriesOf(modTimeToPath, c)) - 1
          BY <2>1, <2>2, <2>6, <3>3, ForgetEntry
      <4>2. Cardinality(RunningWith(c)') = Cardinality(RunningWith(c)) - 1
        <5>1. RunningWith(c)' = RunningWith(content[m])'
            BY <2>1, <3>3 DEF RunningWith
        <5> QED
            BY <2>5, <3>3, <5>1
      <4> QED
          BY <3>1, <3>2, <4>1, <4>2
    <3>4. CASE c # content[m]
      <4>1. EntriesOf(modTimeToPath', c) = EntriesOf(modTimeToPath, c)
          BY <2>1, <2>2, <2>6, <3>4, ForgetEntry
      <4> QED
          BY <2>4, <3>2, <3>4, <4>1
    <3> QED
        BY <3>3, <3>4
  <2>7. ASSUME DistinctTimes
        PROVE  /\ \A n \in Messages : exec'[n] = "add" => modTimeToPath'[modTime[n]] = NoPath
               /\ \A c \in Contents :
                     pathToModTime'[c] # 0 => modTimeToPath'[pathToModTime'[c]] = c
    <3>1. \A n \in Messages : exec'[n] = "add" => exec[n] = "add" /\ modTime[n] \in ModTimes
        BY <2>1, ExecHas DEF Shape
    <3> QED
        BY <2>1, <2>2, <2>7, <3>1, ForgetEntry DEF RecordedInv
  <2>8. \A c : /\ EntriesOf(modTimeToPath, c)' = EntriesOf(modTimeToPath', c)
               /\ file' # Garbled => \/ file # Garbled /\ EntriesOf(file, c)' = EntriesOf(file, c)
                                     \/ EntriesOf(file, c)' = EntriesOf(modTimeToPath', c)
      BY <2>1 DEF EntriesOf
  <2> QED
      BY <2>1, <2>3, <2>6, <2>7, <2>8 DEF RecordedInv
<1>6. ASSUME \A n \in Messages : exec'[n] = "none",
             DistinctTimes' => DistinctTimes,
             ASSUME DistinctTimes, NEW c \in Contents
             PROVE  pathToModTime'[c] # 0 => modTimeToPath'[pathToModTime'[c]] = c
      PROVE  RecordedInv'
  <2>1. \A c : RunningWith(c)' = {}
      BY <1>6 DEF RunningWith, Running
  <2>2. \A c : Cardinality(RunningWith(c)') = 0
      BY <2>1, FS_EmptySet
  <2>3. \A c : /\ Cardinality(EntriesOf(modTimeToPath', c)) \in Nat
               /\ Cardinality(EntriesOf(file', c)) \in Nat
      BY CountsFinite
  <2>4. \A c : /\ EntriesOf(modTimeToPath, c)' = EntriesOf(modTimeToPath', c)
               /\ EntriesOf(file, c)' = EntriesOf(file', c)
      BY DEF EntriesOf
  <2>5. \A c : /\ Cardinality(RunningWith(c)') <= Cardinality(EntriesOf(modTimeToPath, c)')
               /\ Cardinality(RunningWith(c)') <= Cardinality(EntriesOf(file, c)')
      BY <2>2, <2>3, <2>4
  <2> QED
      BY <1>6, <2>5 DEF RecordedInv
<1>7. ASSUME NEW t \in ModTimes, ExecPending(t) PROVE RecordedInv'
  <2>1. /\ Forget(pending[t]) /\ UNCHANGED <<exec, content, modTime>>
        /\ pending[t] # NoPath /\ process = "starting"
      BY <1>7 DEF ExecPending, goroutines, message
  <2>2. pending[t] \in Contents
      BY <2>1, EntryShape DEF Shape
  <2>3. \A n \in Messages : exec'[n] = "none"
      BY <2>1 DEF StageInv
  <2>4. DistinctTimes' <=> DistinctTimes
      BY <2>1 DEF DistinctTimes, OwnTime
  <2>5. ASSUME DistinctTimes, NEW c \in Contents
        PROVE  pathToModTime'[c] # 0 => modTimeToPath'[pathToModTime'[c]] = c
      BY <2>1, <2>2, <2>5, ForgetEntry
  <2> QED
      BY <1>6, <2>3, <2>4, <2>5
<1>8. CASE NewAnsibleManager
  <2>1. (\A n \in Messages : exec'[n] = "none") /\ UNCHANGED <<content, modTime>>
      BY <1>8 DEF NewAnsibleManager, message
  <2>2. DistinctTimes' <=> DistinctTimes
      BY <2>1 DEF DistinctTimes, OwnTime
  <2>3. ASSUME NEW c \in Contents
        PROVE  pathToModTime'[c] # 0 => modTimeToPath'[pathToModTime'[c]] = c
    <3>1. CASE file = Garbled
        BY <1>8, <2>3, <3>1 DEF NewAnsibleManager
    <3>2. CASE file # Garbled
      <4>1. /\ modTimeToPath' = file
            /\ pathToModTime'[c] # 0 => pathToModTime'[c] \in {t \in ModTimes : file[t] = c}
          BY <1>8, <2>3, <3>2 DEF NewAnsibleManager
      <4> QED
          BY <4>1
    <3> QED
        BY <3>1, <3>2
  <2> QED
      BY <1>6, <2>1, <2>2, <2>3
<1>9. CASE \/ \E t \in ModTimes : PendingFails(t)
           \/ PendingDone \/ PopEvents \/ Stop \/ UNCHANGED vars
  <2>1. UNCHANGED <<exec, content, modTime, modTimeToPath, pathToModTime, file>>
      BY <1>9 DEF PendingFails, PendingDone, PopEvents, Stop, vars, goroutines, message,
                  repository
  <2>2. DistinctTimes' <=> DistinctTimes
      BY <2>1 DEF DistinctTimes, OwnTime
  <2>3. \A c : /\ RunningWith(c)' = RunningWith(c)
               /\ EntriesOf(modTimeToPath, c)' = EntriesOf(modTimeToPath, c)
               /\ EntriesOf(file, c)' = EntriesOf(file, c)
      BY <2>1 DEF RunningWith, EntriesOf
  <2> QED
      BY <2>1, <2>2, <2>3 DEF RecordedInv
<1> QED
    BY <1>1, <1>2, <1>3, <1>4, <1>5, <1>7, <1>8, <1>9
       DEF Next, Receive, Work, HandlePlaybook, Handle, execPlaybook, Place, ExecutePendingPlaybooks,
           Exit, Crash

-----------------------------------------------------------------------------
(* A finished playbook is forgotten.                                       *)

(* Alone with its content, a message has no entry but at its own time.     *)
LEMMA AloneOrigin ==
    ASSUME NEW f, Origin(f), NEW k \in Messages, Alone(k), NEW t \in ModTimes, f[t] = content[k]
    PROVE  t = modTime[k]
BY DEF Origin, Alone, OwnContent

(* Nothing of the invariant is lost while messages and maps stay.          *)
LEMMA SameForgotten ==
    ASSUME ForgottenInv,
           UNCHANGED <<content, modTime, modTimeToPath, pathToModTime, file, removedOk>>,
           \A n \in Messages : handler[n] # "none" => handler'[n] # "none"
    PROVE  ForgottenInv'
BY DEF ForgottenInv, Origin, Alone, OwnTime, OwnContent

(* Removing what pathToModTime names.                                      *)
LEMMA ForgetKeeps ==
    ASSUME Shape, ForgottenInv, NEW d \in Contents, Forget(d),
           UNCHANGED <<content, modTime, handler>>, file' \in {file, Garbled, modTimeToPath'},
           removedOk \subseteq removedOk',
           \A k \in removedOk' \ removedOk : content[k] = d /\ file' = modTimeToPath'
    PROVE  ForgottenInv'
<1>1. /\ \A t \in ModTimes :
            modTimeToPath'[t] = IF t = pathToModTime[d] THEN NoPath ELSE modTimeToPath[t]
      /\ \A c \in Contents : pathToModTime'[c] = IF c = d THEN 0 ELSE pathToModTime[c]
    BY DEF Forget, Shape
<1>2. Origin(modTimeToPath)' /\ (file' # Garbled => Origin(file)')
    BY <1>1 DEF ForgottenInv, Origin
<1>3. ASSUME NEW k \in Messages, Alone(k)'
      PROVE  /\ \A t \in ModTimes : modTimeToPath'[t] = content[k] => pathToModTime'[content[k]] = t
             /\ k \in removedOk' =>
                   /\ \A t \in ModTimes : modTimeToPath'[t] # content[k]
                   /\ file' # Garbled => \A t \in ModTimes : file'[t] # content[k]
  <2>1. Alone(k) /\ content[k] \in Contents /\ content[k] # NoPath
      BY <1>3 DEF Alone, OwnTime, OwnContent, Shape
  <2>2. \A t \in ModTimes : modTimeToPath[t] = content[k] => pathToModTime[content[k]] = t
      BY <2>1 DEF ForgottenInv
  <2>3. \A t \in ModTimes : modTimeToPath'[t] = content[k] =>
            modTimeToPath[t] = content[k] /\ content[k] # d
      BY <1>1, <2>1, <2>2
  <2>4. k \in removedOk =>
           /\ \A t \in ModTimes : modTimeToPath[t] # content[k]
           /\ file # Garbled => \A t \in ModTimes : file[t] # content[k]
      BY <2>1 DEF ForgottenInv
  <2>5. k \in removedOk' \ removedOk => content[k] = d /\ file' = modTimeToPath'
      OBVIOUS
  <2> QED
      BY <1>1, <2>1, <2>2, <2>3, <2>4, <2>5
<1> QED
    BY <1>2, <1>3 DEF ForgottenInv

(* Recording a playbook.                                                   *)
LEMMA AddKeeps ==
    ASSUME Shape, StageInv, ForgottenInv, NEW m \in Messages, exec[m] = "add",
           modTimeToPath' = [modTimeToPath EXCEPT ![modTime[m]] = content[m]],
           pathToModTime' = [pathToModTime EXCEPT ![content[m]] = modTime[m]],
           UNCHANGED <<content, modTime, handler, removedOk>>,
           file' \in {file, Garbled, modTimeToPath'}
    PROVE  ForgottenInv'
<1>1. /\ content[m] \in Contents /\ modTime[m] \in ModTimes /\ handler[m] # "none"
      /\ m \notin removedOk
    BY ExecHas DEF StageInv, Done
<1>2. /\ \A t \in ModTimes :
            modTimeToPath'[t] = IF t = modTime[m] THEN content[m] ELSE modTimeToPath[t]
      /\ \A c \in Contents : pathToModTime'[c] = IF c = content[m] THEN modTime[m] ELSE pathToModTime[c]
    BY <1>1 DEF Shape, Mapping
<1>3. Origin(modTimeToPath)' /\ (file' # Garbled => Origin(file)')
  <2>1. ASSUME NEW t \in ModTimes, modTimeToPath'[t] # NoPath
        PROVE  \E n \in Messages : content[n] = modTimeToPath'[t] /\ modTime[n] = t /\ handler[n] # "none"
    <3>1. CASE t = modTime[m]
        BY <1>1, <1>2, <3>1
    <3>2. CASE t # modTime[m]
      <4>1. modTimeToPath'[t] = modTimeToPath[t]
          BY <1>2, <3>2
      <4> QED
          BY <2>1, <4>1 DEF ForgottenInv, Origin
    <3> QED
        BY <3>1, <3>2
  <2>2. Origin(modTimeToPath)'
      BY <2>1 DEF Origin
  <2>3. CASE file' = modTimeToPath'
    <3>1. Origin(file)'
        BY <2>1, <2>3 DEF Origin
    <3> QED
        BY <2>2, <3>1
  <2>4. CASE file' = file
    <3>1. file' # Garbled => Origin(file)'
        BY <2>4 DEF ForgottenInv, Origin
    <3> QED
        BY <2>2, <3>1
  <2> QED
      BY <2>2, <2>3, <2>4
<1>4. ASSUME NEW k \in Messages, Alone(k)'
      PROVE  /\ \A t \in ModTimes : modTimeToPath'[t] = content[k] => pathToModTime'[content[k]] = t
             /\ k \in removedOk =>
                   /\ \A t \in ModTimes : modTimeToPath'[t] # content[k]
                   /\ file' # Garbled => \A t \in ModTimes : file'[t] # content[k]
  <2>1. Alone(k) /\ content[k] \in Contents
      BY <1>4 DEF Alone, OwnTime, OwnContent, Shape
  <2>2. CASE k = m
    <3>1. \A t \in ModTimes : modTimeToPath[t] = content[m] => t = modTime[m]
        BY <2>1, <2>2, AloneOrigin DEF ForgottenInv
    <3> QED
        BY <1>1, <1>2, <2>2, <3>1
  <2>3. CASE k # m
    <3>1. content[k] # content[m]
        BY <2>1, <2>3 DEF Alone, OwnContent
    <3>2. /\ \A t \in ModTimes : modTimeToPath[t] = content[k] => pathToModTime[content[k]] = t
          /\ k \in removedOk =>
                /\ \A t \in ModTimes : modTimeToPath[t] # content[k]
                /\ file # Garbled => \A t \in ModTimes : file[t] # content[k]
        BY <2>1 DEF ForgottenInv
    <3> QED
        BY <1>2, <2>1, <3>1, <3>2
  <2> QED
      BY <2>2, <2>3
<1> QED
    BY <1>3, <1>4 DEF ForgottenInv

LEMMA ForgottenStep ==
    ASSUME Shape, StageInv, ForgottenInv, [Next]_vars PROVE ForgottenInv'
<1>1. ASSUME NEW m \in Messages, Place(m) PROVE ForgottenInv'
  <2>1. UNCHANGED Kept
      BY <1>1, PlaceKeeps
  <2>2. \A n \in Messages : handler[n] # "none" => handler'[n] # "none"
      BY <1>1, PlaceMoves
  <2> QED
      BY <2>1, <2>2, SameForgotten DEF Kept
<1>2. ASSUME NEW m \in Messages, WritePlaybook(m) PROVE ForgottenInv'
  <2>1. PICK c \in Contents :
           /\ handler[m] = "none" /\ handler' = [handler EXCEPT ![m] = "onStart"]
           /\ modTime' = [modTime EXCEPT ![m] = clock'] /\ content' = [content EXCEPT ![m] = c]
           /\ UNCHANGED <<modTimeToPath, pathToModTime, file, removedOk>>
      BY <1>2 DEF WritePlaybook, Move, repository
  <2>2. modTime[m] = 0 /\ content[m] = NoPath /\ m \notin removedOk
      BY <2>1 DEF StageInv
  <2>3. /\ content'[m] = c
        /\ \A n \in Messages \ {m} : /\ content'[n] = content[n] /\ modTime'[n] = modTime[n]
                                     /\ handler'[n] = handler[n]
      BY <2>1 DEF Shape
  <2>4. ASSUME NEW f, Origin(f), f' = f PROVE Origin(f)'
    <3>1. ASSUME NEW t \in ModTimes, f[t] # NoPath
          PROVE  \E n \in Messages : content'[n] = f[t] /\ modTime'[n] = t /\ handler'[n] # "none"
      <4>1. PICK n \in Messages : content[n] = f[t] /\ modTime[n] = t /\ handler[n] # "none"
          BY <2>4, <3>1 DEF Origin
      <4>2. n # m
          BY <2>1, <4>1
      <4> QED
          BY <2>3, <4>1, <4>2
    <3> QED
        BY <2>4, <3>1 DEF Origin
  <2>5. Origin(modTimeToPath)' /\ (file' # Garbled => Origin(file)')
      BY <2>1, <2>4 DEF ForgottenInv
  <2>6. ASSUME NEW k \in Messages, Alone(k)'
        PROVE  /\ \A t \in ModTimes : modTimeToPath[t] = content'[k] => pathToModTime[content'[k]] = t
               /\ k \in removedOk =>
                     /\ \A t \in ModTimes : modTimeToPath[t] # content'[k]
                     /\ file # Garbled => \A t \in ModTimes : file[t] # content'[k]
    <3>1. CASE k = m
      <4>1. \A t \in ModTimes : modTimeToPath[t] # c
        <5>1. SUFFICES ASSUME NEW t \in ModTimes, modTimeToPath[t] = c PROVE FALSE
            OBVIOUS
        <5>2. PICK n \in Messages : content[n] = c /\ handler[n] # "none"
            BY <5>1, EmptyShape DEF ForgottenInv, Origin
        <5>3. n # m /\ content'[n] = content'[m]
            BY <2>1, <2>3, <5>2
        <5> QED
            BY <2>6, <3>1, <5>3 DEF Alone, OwnContent
      <4> QED
          BY <2>2, <2>3, <3>1, <4>1
    <3>2. CASE k # m
      <4>1. content[k] # NoPath /\ modTime[k] # 0 /\ content'[k] = content[k]
          BY <2>3, <2>6, <3>2, EmptyShape DEF Alone, StageInv
      <4>2. Alone(k)
          BY <2>2, <2>3, <2>6, <3>2, <4>1 DEF Alone, OwnContent, OwnTime
      <4> QED
          BY <4>1, <4>2 DEF ForgottenInv
    <3> QED
        BY <3>1, <3>2
  <2> QED
      BY <2>1, <2>5, <2>6 DEF ForgottenInv
<1>3. ASSUME NEW m \in Messages, AddPlaybook(m) \/ AddFails(m) PROVE ForgottenInv'
    BY <1>3, AddKeeps DEF AddPlaybook, AddFails, Add, persist, persistFails, Signal, Move, message
<1>4. ASSUME NEW m \in Messages, RemovePlaybook(m) PROVE ForgottenInv'
  <2>1. /\ exec[m] = "remove" /\ Forget(content[m]) /\ UNCHANGED <<content, modTime, handler>>
        /\ file' \in {file, Garbled, modTimeToPath'}
        /\ removedOk \subseteq removedOk'
        /\ \A k \in removedOk' \ removedOk : k = m /\ file' = modTimeToPath'
      BY <1>4 DEF RemovePlaybook, persist, persistFails, Move, message
  <2>2. content[m] \in Contents
      BY <2>1, ExecHas
  <2> QED
      BY <2>1, <2>2, ForgetKeeps
<1>5. ASSUME NEW t \in ModTimes, ExecPending(t) PROVE ForgottenInv'
  <2>1. /\ Forget(pending[t]) /\ UNCHANGED <<content, modTime, handler, removedOk>>
        /\ pending[t] # NoPath /\ file' \in {file, Garbled, modTimeToPath'}
      BY <1>5 DEF ExecPending, goroutines, message, persist, persistFails
  <2>2. pending[t] \in Contents
      BY <2>1, EntryShape DEF Shape
  <2> QED
      BY <2>1, <2>2, ForgetKeeps
<1>6. CASE NewAnsibleManager
  <2>1. /\ UNCHANGED <<content, modTime, removedOk, file>>
        /\ \A n \in Messages : handler[n] # "none" => handler'[n] # "none"
      BY <1>6 DEF NewAnsibleManager, message
  <2>2. CASE file = Garbled
    <3>1. modTimeToPath' = Empty
        BY <1>6, <2>2 DEF NewAnsibleManager
    <3> QED
        BY <2>1, <2>2, <3>1, EmptyShape DEF ForgottenInv, Origin, Alone
  <2>3. CASE file # Garbled
    <3>1. modTimeToPath' = file
        BY <1>6, <2>3 DEF NewAnsibleManager
    <3>2. \A c \in Contents : \A t \in ModTimes :
             file[t] = c => pathToModTime'[c] \in {u \in ModTimes : file[u] = c}
        BY <1>6, <2>3 DEF NewAnsibleManager
    <3>3. Origin(modTimeToPath)' /\ Origin(file)'
        BY <2>1, <2>3, <3>1 DEF ForgottenInv, Origin
    <3>4. ASSUME NEW k \in Messages, Alone(k)'
          PROVE  /\ \A t \in ModTimes : file[t] = content[k] => pathToModTime'[content[k]] = t
                 /\ k \in removedOk => \A t \in ModTimes : file[t] # content[k]
      <4>1. Alone(k) /\ content[k] \in Contents
          BY <2>1, <3>4 DEF Alone, OwnTime, OwnContent, Shape
      <4>2. \A t \in ModTimes : file[t] = content[k] => t = modTime[k]
          BY <2>3, <4>1, AloneOrigin DEF ForgottenInv
      <4>3. k \in removedOk => \A t \in ModTimes : file[t] # content[k]
          BY <2>3, <4>1 DEF ForgottenInv
      <4> QED
          BY <3>2, <4>1, <4>2, <4>3
    <3> QED
        BY <2>1, <3>1, <3>3, <3>4 DEF ForgottenInv
  <2> QED
      BY <2>2, <2>3
<1>7. CASE \/ \E t \in ModTimes : PendingFails(t)
           \/ PendingDone \/ PopEvents \/ Stop \/ UNCHANGED vars
  <2>1. UNCHANGED <<handler, content, modTime, modTimeToPath, pathToModTime, file, removedOk>>
      BY <1>7 DEF PendingFails, PendingDone, PopEvents, Stop, vars, goroutines, message,
                  repository
  <2> QED
      BY <2>1, SameForgotten
<1> QED
    BY <1>1, <1>2, <1>3, <1>4, <1>5, <1>6, <1>7
       DEF Next, Receive, Work, HandlePlaybook, Handle, execPlaybook, Place, ExecutePendingPlaybooks,
           Exit, Crash

-----------------------------------------------------------------------------
(* The inductive invariant.                                                *)
AnsibleInv == Shape /\ StageInv /\ WaitGroupCounts /\ RecordedInv /\ ForgottenInv

LEMMA InitHolds == Init => AnsibleInv
<1> SUFFICES ASSUME Init PROVE AnsibleInv
    OBVIOUS
<1>1. Shape
    BY EmptyShape, AnsibleAssumption DEF Init, Shape, ModTimes
<1>2. StageInv
    BY DEF Init, StageInv, Done
<1>3. WaitGroupCounts
  <2>1. {m \in Messages : handler[m] \in Waiting} = {}
      BY DEF Init, Waiting
  <2> QED
      BY <2>1, FS_EmptySet DEF Init, WaitGroupCounts
<1>4. RecordedInv
  <2>1. \A c : RunningWith(c) = {}
      BY DEF Init, RunningWith, Running
  <2>2. \A c : Cardinality(RunningWith(c)) = 0
      BY <2>1, FS_EmptySet
  <2>3. \A c : /\ Cardinality(RunningWith(c)) <= Cardinality(EntriesOf(modTimeToPath, c))
               /\ Cardinality(RunningWith(c)) <= Cardinality(EntriesOf(file, c))
      BY <2>2, CountsFinite
  <2> QED
      BY <2>3 DEF Init, RecordedInv
<1>5. ForgottenInv
    BY EmptyShape DEF Init, ForgottenInv, Origin, Alone
<1> QED
    BY <1>1, <1>2, <1>3, <1>4, <1>5 DEF AnsibleInv

LEMMA Inductive == Spec => []AnsibleInv
<1>1. AnsibleInv /\ [Next]_vars => AnsibleInv'
    BY BaseStep, WaitGroupStep, RecordedStep, ForgottenStep DEF AnsibleInv
<1> QED
    BY <1>1, InitHolds, PTL DEF Spec

(* The wait group (wg.Add, wg.Done in HandlePlaybook) counts the handlers  *)
(* that wait for an execution, for any number of messages and time-outs.   *)
THEOREM WaitGroupRight == Spec => []WaitGroupCounts
<1>1. AnsibleInv => WaitGroupCounts
    BY DEF AnsibleInv
<1> QED
    BY <1>1, Inductive, PTL

(* The mapping file (mapping.Add before ansible-playbook is run) names     *)
(* every playbook in execution, however many messages carry the same one.  *)
THEOREM ExecutionRecorded == Spec => []RunningIsRecorded
<1>1. AnsibleInv => RunningIsRecorded
  <2> SUFFICES ASSUME AnsibleInv, NEW m \in Messages, exec[m] \in Running, DistinctTimes,
                      file # Garbled
               PROVE  \E t \in ModTimes : file[t] = content[m]
      BY DEF RunningIsRecorded, Running
  <2>1. content[m] \in Contents
      BY ExecHas DEF AnsibleInv, Running
  <2>2. m \in RunningWith(content[m])
      BY DEF RunningWith
  <2>3. Cardinality(RunningWith(content[m])) # 0 /\ Cardinality(RunningWith(content[m])) \in Nat
      BY <2>2, CountsFinite, FS_EmptySet
  <2>4. Cardinality(RunningWith(content[m])) <= Cardinality(EntriesOf(file, content[m]))
      BY <2>1 DEF AnsibleInv, RecordedInv
  <2>5. Cardinality(EntriesOf(file, content[m])) # 0
      BY <2>3, <2>4, CountsFinite
  <2>6. EntriesOf(file, content[m]) # {}
      BY <2>5, FS_EmptySet
  <2> QED
      BY <2>6 DEF EntriesOf
<1> QED
    BY <1>1, Inductive, PTL

(* The mapping file does not name a playbook whose removal was written     *)
(* (mapping.Remove), when it is alone with its file time and content.      *)
THEOREM FinishedForgotten == Spec => []FinishedIsForgotten
<1>1. AnsibleInv => FinishedIsForgotten
  <2> SUFFICES ASSUME AnsibleInv, NEW m \in removedOk, OwnTime(m), OwnContent(m), file # Garbled
               PROVE  \A t \in ModTimes : file[t] # content[m]
      BY DEF FinishedIsForgotten
  <2>1. m \in Messages
      BY DEF AnsibleInv, Shape
  <2>2. content[m] # NoPath
      BY <2>1, EmptyShape DEF AnsibleInv, StageInv
  <2>3. Alone(m)
      BY <2>2 DEF Alone
  <2> QED
      BY <2>1, <2>3 DEF AnsibleInv, ForgottenInv
<1> QED
    BY <1>1, Inductive, PTL
====
