------------------------ MODULE AnsibleEventsProofs ------------------------
(***************************************************************************)
(* Proofs about AnsibleEvents, for any results: the events are numbered    *)
(* and framed play by play, every start of a task is answered for its      *)
(* host, and the tasks can be told apart by their uuids.                   *)
(***************************************************************************)
EXTENDS AnsibleEvents, FiniteSetTheorems, TLAPS

Events == {"playbook_on_start", "playbook_on_play_start", "playbook_on_task_start",
           "v2_runner_on_ok", "v2_runner_on_failed", "v2_runner_on_skipped",
           "playbook_on_stats"}
Msg == [event : Events, play : Nat, task : Nat, host : Nat,
        uuid : (TaskIds \cup {NoId}) \X Nat, counter : Nat]

(* The shape of the variables, and where the loops are.                    *)
Shape ==
    /\ plays \in Seq(Seq(Tasks))
    /\ i \in Nat \ {0} /\ task \in Nat \ {0} /\ host \in Nat \ {0} /\ number \in Nat
    /\ duplicateTaskCount \in [TaskIds -> Nat]
    /\ msgList \in Seq(Msg) /\ msgCounter = Len(msgList)
    /\ pc \in {"play", "task", "runner", "done"}
    /\ pc \in {"task", "runner"} => i \in 1..Len(plays)
    /\ pc = "runner" => task \in 1..Len(plays[i]) /\ host \in 1..Len(plays[i][task].hosts)
    /\ pc = "play" => i <= Len(plays) + 1 /\ task = 1 /\ host = 1 /\ number = 0
    /\ pc = "done" => i = Len(plays) + 1

(* The last event, from which the next one goes on.                        *)
LastInv ==
    LET last == msgList[Len(msgList)]
    IN  /\ pc \in {"play", "done"} =>
              IF i = 1 THEN Len(msgList) = 0
              ELSE Len(msgList) # 0 /\ last.event = "playbook_on_stats" /\ last.play = i - 1
        /\ pc \in {"task", "runner"} =>
              Len(msgList) # 0 /\ last.event # "playbook_on_stats" /\ last.play = i
        /\ pc = "task" => last.event # "playbook_on_task_start"
        /\ pc = "runner" => /\ last.event = "playbook_on_task_start"
                            /\ last.task = task /\ last.host = host
                            /\ last.uuid = <<taskId, number>>

(* The places the loops have been at.                                      *)
Before(p, t, h) ==
    \/ p < i
    \/ p = i /\ t < task
    \/ p = i /\ t = task /\ h < host
    \/ p = i /\ t = task /\ h = host /\ pc = "runner"

(* The starts so far are those of the places the loops have been at.       *)
PlaceInv ==
    /\ \A k \in Starts :
          /\ msgList[k].play \in 1..Len(plays)
          /\ msgList[k].task \in 1..Len(plays[msgList[k].play])
          /\ msgList[k].host \in Nat \ {0}
          /\ Before(msgList[k].play, msgList[k].task, msgList[k].host)
    /\ \A p \in DOMAIN plays : \A t \in DOMAIN plays[p] : \A h \in DOMAIN plays[p][t].hosts :
          Before(p, t, h) =>
              \E k \in Starts :
                  msgList[k].play = p /\ msgList[k].task = t /\ msgList[k].host = h

(* A number was given exactly if the id is repeated, and is not above the  *)
(* count of its id.                                                        *)
UuidInv ==
    \A k \in Starts :
        /\ msgList[k].uuid[1] = plays[msgList[k].play][msgList[k].task].id
        /\ msgList[k].uuid[2] <= duplicateTaskCount[msgList[k].uuid[1]]
        /\ msgList[k].uuid[2] = 0 <=> ~Repeated(plays[msgList[k].play], msgList[k].task)

(* The number of the task the loops are at is that of its starts, and of   *)
(* no other.                                                               *)
NumberInv ==
    pc \in {"task", "runner"} /\ task <= Len(plays[i]) =>
        /\ number # 0 => Repeated(plays[i], task) /\ number <= duplicateTaskCount[taskId]
        /\ \A k \in Starts : msgList[k].play = i /\ msgList[k].task = task =>
              msgList[k].uuid = <<taskId, number>>
        /\ number # 0 =>
              \A k \in Starts : msgList[k].uuid = <<taskId, number>> =>
                  msgList[k].play = i /\ msgList[k].task = task

OrderInv == Shape /\ LastInv /\ PlaysFramed
TrackInv == PlaceInv /\ UuidInv /\ NumberInv /\ TasksTracked
EventsInv == OrderInv /\ TrackInv /\ HostsAnswered

-----------------------------------------------------------------------------
(* Facts about the events and the results.                                 *)

(* countOccurence finds the ids that are repeated.                         *)
LEMMA CountsRepeated ==
    ASSUME NEW tasks \in Seq(Tasks), NEW t \in 1..Len(tasks)
    PROVE  countOccurence(tasks)[tasks[t].id] > 1 <=> Repeated(tasks, t)
<1> DEFINE S == {k \in DOMAIN tasks : tasks[k].id = tasks[t].id}
<1>0. tasks[t] \in Tasks
    OBVIOUS
<1>1. tasks[t].id \in TaskIds
    BY <1>0 DEF Tasks
<1>2. countOccurence(tasks)[tasks[t].id] = Cardinality(S)
    BY <1>1 DEF countOccurence
<1>3. IsFiniteSet(S) /\ Cardinality(S) \in Nat
  <2>1. IsFiniteSet(1..Len(tasks))
      BY FS_Interval
  <2> QED
      BY <2>1, FS_Subset, FS_CardinalityType
<1>4. t \in S
    OBVIOUS
<1>5. ASSUME ~Repeated(tasks, t)
      PROVE  Cardinality(S) = 1
  <2>1. S = {t}
      BY <1>4, <1>5 DEF Repeated
  <2> QED
      BY <2>1, FS_Singleton
<1>6. ASSUME Repeated(tasks, t)
      PROVE  Cardinality(S) > 1
  <2>1. PICK u \in DOMAIN tasks : u # t /\ tasks[u].id = tasks[t].id
      BY <1>6 DEF Repeated
  <2> DEFINE U == {t} \cup {u}
  <2>2. IsFiniteSet({t}) /\ Cardinality({t}) = 1
      BY FS_Singleton
  <2>3. Cardinality(U) = Cardinality({t}) + 1
      BY <2>1, <2>2, FS_AddElement, Zenon
  <2>4. U \subseteq S
      BY <1>4, <2>1
  <2>5. Cardinality(U) <= Cardinality(S)
      BY <1>3, <2>4, FS_Subset
  <2> HIDE DEF S, U
  <2> QED
      BY <1>3, <2>2, <2>3, <2>5
<1> QED
    BY <1>2, <1>5, <1>6

LEMMA TaskType ==
    ASSUME plays \in Seq(Seq(Tasks)), NEW p \in 1..Len(plays), NEW t \in 1..Len(plays[p])
    PROVE  /\ plays[p] \in Seq(Tasks) /\ DOMAIN plays[p] = 1..Len(plays[p])
           /\ plays[p][t].hosts \in Seq(SUBSET Flags)
<1>1. plays[p] \in Seq(Tasks)
    OBVIOUS
<1>2. plays[p][t] \in Tasks
    BY <1>1
<1> QED
    BY <1>1, <1>2 DEF Tasks

(* The task the loops are at.                                              *)
LEMMA CurrentTask ==
    ASSUME Shape, pc \in {"task", "runner"}, task <= Len(plays[i])
    PROVE  /\ plays[i] \in Seq(Tasks) /\ task \in 1..Len(plays[i])
           /\ taskId \in TaskIds /\ plays[i][task].hosts \in Seq(SUBSET Flags)
<1>1. i \in 1..Len(plays) /\ plays[i] \in Seq(Tasks)
    BY DEF Shape
<1>2. task \in 1..Len(plays[i])
    BY <1>1 DEF Shape
<1>3. plays[i][task] \in Tasks
    BY <1>1, <1>2
<1> QED
    BY <1>1, <1>2, <1>3 DEF Tasks, taskId

(* A message at the place of the loops is one.                             *)
LEMMA MessageType ==
    ASSUME Shape, NEW name \in Events, NEW uuid \in (TaskIds \cup {NoId}) \X Nat,
           NEW m, m = Message(name, uuid, msgCounter + 1)
    PROVE  /\ m \in Msg /\ m.counter = Len(msgList) + 1
           /\ m.event = name /\ m.uuid = uuid
           /\ m.play = i /\ m.task = task /\ m.host = host
<1>1. i \in Nat /\ task \in Nat /\ host \in Nat /\ msgCounter + 1 \in Nat
    BY DEF Shape
<1> QED
    BY <1>1 DEF Message, Msg, Shape

(* What an event appended to the list does to it.                          *)
LEMMA Appended ==
    ASSUME Shape, NEW m \in Msg, msgList' = Append(msgList, m)
    PROVE  /\ msgList' \in Seq(Msg) /\ Len(msgList') = Len(msgList) + 1
           /\ Len(msgList) \in Nat
           /\ DOMAIN msgList = 1..Len(msgList) /\ DOMAIN msgList' = 1..(Len(msgList) + 1)
           /\ \A k \in 1..Len(msgList) : msgList'[k] = msgList[k]
           /\ msgList'[Len(msgList) + 1] = m
BY DEF Shape

(* The starts among the events, when one is appended.                      *)
LEMMA StartsAppended ==
    ASSUME Shape, NEW m \in Msg, msgList' = Append(msgList, m)
    PROVE  /\ Starts \subseteq 1..Len(msgList)
           /\ \A k \in Starts : msgList'[k] = msgList[k] /\ k \in Starts'
           /\ IsStart(m) => Starts' = Starts \cup {Len(msgList) + 1}
           /\ ~IsStart(m) => Starts' = Starts
<1>1. Starts \subseteq 1..Len(msgList)
    BY Appended DEF Starts
<1>2. \A k \in Starts : msgList'[k] = msgList[k] /\ k \in Starts'
    BY <1>1, Appended DEF Starts, IsStart
<1>3. ASSUME NEW k \in Starts' PROVE k \in Starts \/ (k = Len(msgList) + 1 /\ IsStart(m))
  <2>1. k \in 1..(Len(msgList) + 1) /\ IsStart(msgList'[k])
      BY Appended DEF Starts, IsStart
  <2>2. CASE k \in 1..Len(msgList)
      BY <2>1, <2>2, Appended DEF Starts, IsStart
  <2>3. CASE k = Len(msgList) + 1
      BY <2>1, <2>3, Appended DEF IsStart
  <2> QED
      BY <2>1, <2>2, <2>3, Appended
<1>4. IsStart(m) => Len(msgList) + 1 \in Starts'
    BY Appended DEF Starts, IsStart
<1> QED
    BY <1>1, <1>2, <1>3, <1>4

-----------------------------------------------------------------------------
(* What the actions append.                                                *)

Framed == \A k \in DOMAIN msgList : msgList[k].counter = k /\ InOrder(k)

(* The list never has one event when a play begins.                        *)
LEMMA NotOne ==
    ASSUME Shape, LastInv, PlaysFramed, pc = "play"
    PROVE  msgCounter # 1
<1> SUFFICES ASSUME Len(msgList) = 1 PROVE FALSE
    BY DEF Shape
<1>1. msgList[1].event = "playbook_on_stats"
    BY DEF LastInv
<1>2. 1 \in DOMAIN msgList
    BY DEF Shape
<1>3. msgList[1].event \in Opening
    BY <1>2 DEF PlaysFramed, InOrder
<1> QED
    BY <1>1, <1>3 DEF Opening

LEMMA PlayAppends ==
    ASSUME Shape, LastInv, PlaysFramed, OnPlay
    PROVE  \E m \in Msg :
               /\ msgList' = Append(msgList, m)
               /\ m.counter = Len(msgList) + 1 /\ m.play = i
               /\ m.event = "playbook_on_play_start"
<1> DEFINE m == PlaybookOnPlayStart
<1>1. msgList' = Append(msgList, m)
    BY NotOne DEF OnPlay
<1>2. <<NoId, 0>> \in (TaskIds \cup {NoId}) \X Nat
    OBVIOUS
<1>3. "playbook_on_play_start" \in Events
    BY DEF Events
<1>4. m \in Msg /\ m.counter = Len(msgList) + 1 /\ m.play = i
      /\ m.event = "playbook_on_play_start"
    BY <1>2, <1>3, MessageType DEF PlaybookOnPlayStart
<1> HIDE DEF m
<1> QED
    BY <1>1, <1>4

LEMMA StatsAppends ==
    ASSUME Shape, OnStats
    PROVE  \E m \in Msg :
               /\ msgList' = Append(msgList, m)
               /\ m.counter = Len(msgList) + 1 /\ m.play = i
               /\ m.event = "playbook_on_stats"
<1> DEFINE m == playbookOnStats
<1>1. msgList' = Append(msgList, m)
    BY DEF OnStats
<1>2. <<NoId, 0>> \in (TaskIds \cup {NoId}) \X Nat
    OBVIOUS
<1>3. "playbook_on_stats" \in Events
    BY DEF Events
<1>4. m \in Msg /\ m.counter = Len(msgList) + 1 /\ m.play = i
      /\ m.event = "playbook_on_stats"
    BY <1>2, <1>3, MessageType DEF playbookOnStats
<1> HIDE DEF m
<1> QED
    BY <1>1, <1>4

LEMMA OutcomeAppends ==
    ASSUME Shape, OnOutcome
    PROVE  \E m \in Msg :
               /\ msgList' = Append(msgList, m)
               /\ m.counter = Len(msgList) + 1
               /\ m.play = i /\ m.task = task /\ m.host = host
               /\ m.event = RunnerEvent(plays[i][task].hosts[host])
               /\ m.event \in RunnerEvents
               /\ m.uuid = <<taskId, number>>
<1> DEFINE m == RunnerOn
           e == RunnerEvent(plays[i][task].hosts[host])
<1>1. msgList' = Append(msgList, m)
    BY DEF OnOutcome
<1>2. taskId \in TaskIds
    BY CurrentTask DEF OnOutcome, Shape
<1>3. <<taskId, number>> \in (TaskIds \cup {NoId}) \X Nat
    BY <1>2 DEF Shape
<1>4. e \in RunnerEvents
    BY DEF RunnerEvent, RunnerEvents
<1>5. e \in Events
    BY <1>4 DEF RunnerEvents, Events
<1>6. m = Message(e, <<taskId, number>>, msgCounter + 1)
    BY DEF RunnerOn
<1> HIDE DEF m, e
<1>7. /\ m \in Msg /\ m.counter = Len(msgList) + 1
      /\ m.play = i /\ m.task = task /\ m.host = host
      /\ m.event = e /\ m.uuid = <<taskId, number>>
    BY <1>3, <1>5, <1>6, MessageType
<1> QED
    BY <1>1, <1>4, <1>7 DEF e

(* The start of a task for a host, with the number of the task.            *)
LEMMA HostAppends ==
    ASSUME Shape, OnHost
    PROVE  /\ IF number = 0 /\ Repeated(plays[i], task)
              THEN /\ number' = duplicateTaskCount[taskId] + 1
                   /\ duplicateTaskCount' = [duplicateTaskCount EXCEPT ![taskId] = @ + 1]
              ELSE number' = number /\ duplicateTaskCount' = duplicateTaskCount
           /\ number' \in Nat
           /\ \E m \in Msg :
                 /\ msgList' = Append(msgList, m)
                 /\ m.counter = Len(msgList) + 1
                 /\ m.play = i /\ m.task = task /\ m.host = host
                 /\ m.event = "playbook_on_task_start"
                 /\ m.uuid = <<taskId, number'>>
<1>1. /\ plays[i] \in Seq(Tasks) /\ task \in 1..Len(plays[i])
      /\ taskId \in TaskIds
    BY CurrentTask DEF OnHost
<1>2. countOccurence(plays[i])[taskId] > 1 <=> Repeated(plays[i], task)
    BY <1>1, CountsRepeated DEF taskId
<1>3. IF number = 0 /\ Repeated(plays[i], task)
      THEN /\ number' = duplicateTaskCount[taskId] + 1
           /\ duplicateTaskCount' = [duplicateTaskCount EXCEPT ![taskId] = @ + 1]
      ELSE number' = number /\ duplicateTaskCount' = duplicateTaskCount
    BY <1>2 DEF OnHost, PlaybookOnTaskStart
<1>4. number' \in Nat
    BY <1>1, <1>3 DEF Shape
<1> DEFINE m == Message("playbook_on_task_start", <<taskId, number'>>, msgCounter + 1)
<1>5. msgList' = Append(msgList, m)
    BY DEF OnHost, PlaybookOnTaskStart
<1>6. <<taskId, number'>> \in (TaskIds \cup {NoId}) \X Nat
    BY <1>1, <1>4
<1>7. "playbook_on_task_start" \in Events
    BY DEF Events
<1>8. /\ m \in Msg /\ m.counter = Len(msgList) + 1
      /\ m.play = i /\ m.task = task /\ m.host = host
      /\ m.event = "playbook_on_task_start" /\ m.uuid = <<taskId, number'>>
    BY <1>6, <1>7, MessageType
<1> HIDE DEF m
<1> QED
    BY <1>3, <1>4, <1>5, <1>8

(* An event that goes on from the last one keeps the order.                *)
LEMMA FramedAppend ==
    ASSUME Shape, Framed, NEW m \in Msg, msgList' = Append(msgList, m),
           m.counter = Len(msgList) + 1,
           IF Len(msgList) = 0 THEN m.event = "playbook_on_play_start" /\ m.play = 1
           ELSE IF msgList[Len(msgList)].event = "playbook_on_stats"
           THEN /\ m.event = "playbook_on_play_start"
                /\ m.play = msgList[Len(msgList)].play + 1
           ELSE /\ m.event \notin Opening
                /\ m.play = msgList[Len(msgList)].play
    PROVE  Framed'
<1> SUFFICES ASSUME NEW k \in 1..(Len(msgList) + 1)
             PROVE  msgList'[k].counter = k /\ InOrder(k)'
    BY Appended DEF Framed
<1>1. CASE k \in 1..Len(msgList)
  <2>1. msgList'[k] = msgList[k] /\ (k # 1 => msgList'[k - 1] = msgList[k - 1])
      BY <1>1, Appended
  <2> QED
      BY <1>1, <2>1, Appended DEF Framed, InOrder
<1>2. CASE k = Len(msgList) + 1
  <2>1. msgList'[k] = m /\ (k # 1 => msgList'[k - 1] = msgList[k - 1])
      BY <1>2, Appended
  <2> QED
      BY <1>2, <2>1, Appended DEF InOrder, Opening
<1> QED
    BY <1>1, <1>2, Appended

-----------------------------------------------------------------------------
(* The order of the events.                                                *)

LEMMA PlayOrder ==
    ASSUME OrderInv, OnPlay
    PROVE  OrderInv'
<1>1. PICK m \in Msg :
          /\ msgList' = Append(msgList, m)
          /\ m.counter = Len(msgList) + 1 /\ m.play = i
          /\ m.event = "playbook_on_play_start"
    BY PlayAppends DEF OrderInv
<1>2. /\ pc = "play" /\ i <= Len(plays) /\ pc' = "task" /\ msgCounter' = msgCounter + 1
      /\ UNCHANGED <<plays, i, task, host, number, duplicateTaskCount>>
    BY DEF OnPlay, place
<1>3. msgList' \in Seq(Msg) /\ msgCounter' = Len(msgList')
    BY <1>1, <1>2, Appended DEF OrderInv, Shape
<1>4. Shape'
    BY <1>2, <1>3 DEF OrderInv, Shape
<1>5. LastInv'
    BY <1>1, Appended DEF OrderInv, LastInv, OnPlay, place
<1>6. Framed'
  <2>1. Shape /\ Framed
      BY DEF OrderInv, Framed, PlaysFramed
  <2>2. IF Len(msgList) = 0 THEN i = 1
        ELSE /\ msgList[Len(msgList)].event = "playbook_on_stats"
             /\ i = msgList[Len(msgList)].play + 1
    <3>1. CASE i = 1
        BY <1>2, <3>1 DEF OrderInv, LastInv
    <3>2. CASE i # 1
      <4>1. /\ Len(msgList) # 0 /\ msgList[Len(msgList)].event = "playbook_on_stats"
            /\ msgList[Len(msgList)].play = i - 1
          BY <1>2, <3>2 DEF OrderInv, LastInv
      <4> QED
          BY <4>1 DEF OrderInv, Shape
    <3> QED
        BY <3>1, <3>2
  <2> QED
      BY <1>1, <2>1, <2>2, FramedAppend
<1>7. PlaysFramed'
    BY <1>6 DEF Framed, PlaysFramed, OnPlay
<1> QED
    BY <1>4, <1>5, <1>7 DEF OrderInv

LEMMA HostOrder ==
    ASSUME OrderInv, OnHost
    PROVE  OrderInv'
<1>1. PICK m \in Msg :
          /\ msgList' = Append(msgList, m)
          /\ m.counter = Len(msgList) + 1
          /\ m.play = i /\ m.task = task /\ m.host = host
          /\ m.event = "playbook_on_task_start"
          /\ m.uuid = <<taskId, number'>>
    BY HostAppends DEF OrderInv
<1>2. duplicateTaskCount' \in [TaskIds -> Nat] /\ number' \in Nat
    BY HostAppends, CurrentTask DEF OrderInv, Shape, OnHost
<1>3. task \in 1..Len(plays[i]) /\ host \in 1..Len(plays[i][task].hosts)
    BY CurrentTask DEF OrderInv, Shape, OnHost
<1>4. Shape'
    BY <1>1, <1>2, <1>3, Appended DEF OrderInv, Shape, OnHost, place
<1>5. LastInv'
    BY <1>1, Appended DEF OrderInv, LastInv, OnHost, place, taskId
<1>6. Framed'
  <2>1. Shape /\ Framed
      BY DEF OrderInv, Framed, PlaysFramed
  <2>2. /\ Len(msgList) # 0 /\ msgList[Len(msgList)].event # "playbook_on_stats"
        /\ msgList[Len(msgList)].play = i
      BY DEF OrderInv, LastInv, OnHost
  <2>3. m.event \notin Opening
      BY <1>1 DEF Opening
  <2> QED
      BY <1>1, <2>1, <2>2, <2>3, FramedAppend
<1>7. PlaysFramed'
    BY <1>6 DEF Framed, PlaysFramed, OnHost
<1> QED
    BY <1>4, <1>5, <1>7 DEF OrderInv

LEMMA OutcomeOrder ==
    ASSUME OrderInv, OnOutcome
    PROVE  OrderInv'
<1>1. PICK m \in Msg :
          /\ msgList' = Append(msgList, m)
          /\ m.counter = Len(msgList) + 1 /\ m.play = i
          /\ m.event \in RunnerEvents
    BY OutcomeAppends DEF OrderInv
<1>2. Shape'
    BY <1>1, Appended DEF OrderInv, Shape, OnOutcome, place
<1>3. LastInv'
    BY <1>1, Appended DEF OrderInv, LastInv, OnOutcome, RunnerEvents
<1>4. Framed'
  <2>1. Shape /\ Framed
      BY DEF OrderInv, Framed, PlaysFramed
  <2>2. /\ Len(msgList) # 0 /\ msgList[Len(msgList)].event # "playbook_on_stats"
        /\ msgList[Len(msgList)].play = i
      BY DEF OrderInv, LastInv, OnOutcome
  <2>3. m.event \notin Opening
      BY <1>1 DEF RunnerEvents, Opening
  <2> QED
      BY <1>1, <2>1, <2>2, <2>3, FramedAppend
<1>5. PlaysFramed'
    BY <1>4 DEF Framed, PlaysFramed, OnOutcome
<1> QED
    BY <1>2, <1>3, <1>5 DEF OrderInv

LEMMA StatsOrder ==
    ASSUME OrderInv, OnStats
    PROVE  OrderInv'
<1>1. PICK m \in Msg :
          /\ msgList' = Append(msgList, m)
          /\ m.counter = Len(msgList) + 1 /\ m.play = i
          /\ m.event = "playbook_on_stats"
    BY StatsAppends DEF OrderInv
<1>2. Shape'
    BY <1>1, Appended DEF OrderInv, Shape, OnStats
<1>3. LastInv'
    BY <1>1, Appended DEF OrderInv, Shape, LastInv, OnStats
<1>4. Framed'
  <2>1. Shape /\ Framed
      BY DEF OrderInv, Framed, PlaysFramed
  <2>2. /\ Len(msgList) # 0 /\ msgList[Len(msgList)].event # "playbook_on_stats"
        /\ msgList[Len(msgList)].play = i
      BY DEF OrderInv, LastInv, OnStats
  <2>3. m.event \notin Opening
      BY <1>1 DEF Opening
  <2> QED
      BY <1>1, <2>1, <2>2, <2>3, FramedAppend
<1>5. PlaysFramed'
    BY <1>4 DEF Framed, PlaysFramed, OnStats
<1> QED
    BY <1>2, <1>3, <1>5 DEF OrderInv

LEMMA OtherOrder ==
    ASSUME OrderInv, NextTask \/ Return \/ UNCHANGED vars
    PROVE  OrderInv'
<1>1. CASE NextTask
  <2>1. Shape'
      BY <1>1 DEF OrderInv, Shape, NextTask
  <2>2. LastInv'
      BY <1>1 DEF OrderInv, LastInv, NextTask
  <2>3. PlaysFramed'
      BY <1>1 DEF OrderInv, PlaysFramed, InOrder, NextTask
  <2> QED
      BY <2>1, <2>2, <2>3 DEF OrderInv
<1>2. CASE Return
  <2>1. Shape'
      BY <1>2 DEF OrderInv, Shape, Return, place
  <2>2. LastInv'
      BY <1>2 DEF OrderInv, LastInv, Return, place
  <2>3. Framed'
      BY <1>2 DEF OrderInv, PlaysFramed, Framed, InOrder, Return
  <2>4. plays # <<>> => i # 1 /\ i - 1 = Len(plays)
      BY <1>2 DEF OrderInv, Shape, Return
  <2>5. plays # <<>> => /\ Len(msgList) # 0 /\ msgList[Len(msgList)].event = "playbook_on_stats"
                        /\ msgList[Len(msgList)].play = Len(plays)
      BY <1>2, <2>4 DEF OrderInv, LastInv, Return
  <2>6. PlaysFramed'
      BY <1>2, <2>3, <2>5 DEF PlaysFramed, Framed, Return
  <2> QED
      BY <2>1, <2>2, <2>6 DEF OrderInv
<1>3. CASE UNCHANGED vars
    BY <1>3 DEF OrderInv, Shape, LastInv, PlaysFramed, InOrder, vars, place, taskId
<1> QED
    BY <1>1, <1>2, <1>3

LEMMA OrderStep ==
    ASSUME OrderInv, [Next]_vars
    PROVE  OrderInv'
BY PlayOrder, HostOrder, OutcomeOrder, StatsOrder, OtherOrder DEF Next, Returned

LEMMA OrderInit ==
    ASSUME Init
    PROVE  OrderInv
<1>1. Shape
  <2>1. plays \in Seq(Seq(Tasks))
      BY ResultsAssumption DEF Init
  <2>2. msgList \in Seq(Msg) /\ msgCounter = Len(msgList)
      BY DEF Init
  <2> QED
      BY <2>1, <2>2 DEF Init, Shape
<1>2. LastInv /\ PlaysFramed
    BY DEF Init, LastInv, PlaysFramed
<1> QED
    BY <1>1, <1>2 DEF OrderInv

-----------------------------------------------------------------------------
(* The starts of tasks.                                                    *)

StartsKept ==
    plays' = plays /\ Starts' = Starts /\ \A k \in Starts : msgList'[k] = msgList[k]

LEMMA StartsKeptBy ==
    ASSUME OrderInv,
           OnPlay \/ OnOutcome \/ NextTask \/ OnStats \/ Return \/ UNCHANGED vars
    PROVE  StartsKept
<1>1. ASSUME NEW m \in Msg, msgList' = Append(msgList, m),
             m.event # "playbook_on_task_start", plays' = plays
      PROVE  StartsKept
    BY <1>1, StartsAppended DEF OrderInv, StartsKept, IsStart
<1>2. CASE OnPlay
    BY <1>1, <1>2, PlayAppends DEF OrderInv, OnPlay
<1>3. CASE OnOutcome
  <2>1. PICK m \in Msg : msgList' = Append(msgList, m) /\ m.event \in RunnerEvents
      BY <1>3, OutcomeAppends DEF OrderInv
  <2> QED
      BY <1>1, <1>3, <2>1 DEF OnOutcome, RunnerEvents
<1>4. CASE OnStats
    BY <1>1, <1>4, StatsAppends DEF OrderInv, OnStats
<1>5. CASE NextTask \/ Return \/ UNCHANGED vars
  <2>1. msgList' = msgList /\ plays' = plays
      BY <1>5 DEF NextTask, Return, vars
  <2> QED
      BY <2>1 DEF StartsKept, Starts
<1> QED
    BY <1>2, <1>3, <1>4, <1>5

LEMMA KeptUuid ==
    ASSUME UuidInv, StartsKept, duplicateTaskCount' = duplicateTaskCount
    PROVE  UuidInv'
BY DEF UuidInv, StartsKept, Repeated

LEMMA KeptTracked ==
    ASSUME TasksTracked, StartsKept
    PROVE  TasksTracked'
BY DEF TasksTracked, StartsKept, SameTask, Repeated

(* The places the loops have been at stay so, and there are no others.     *)
LEMMA KeptPlace ==
    ASSUME PlaceInv, StartsKept,
           \A p \in 1..Len(plays) : \A t \in 1..Len(plays[p]) : \A h \in Nat \ {0} :
               Before(p, t, h) => Before(p, t, h)',
           \A p \in DOMAIN plays : \A t \in DOMAIN plays[p] :
               \A h \in DOMAIN plays[p][t].hosts : Before(p, t, h)' => Before(p, t, h)
    PROVE  PlaceInv'
<1>1. ASSUME NEW k \in Starts'
      PROVE  /\ msgList'[k].play \in 1..Len(plays')
             /\ msgList'[k].task \in 1..Len(plays'[msgList'[k].play])
             /\ msgList'[k].host \in Nat \ {0}
             /\ Before(msgList[k].play, msgList[k].task, msgList[k].host)'
  <2>1. k \in Starts /\ msgList'[k] = msgList[k] /\ plays' = plays
      BY DEF StartsKept
  <2>2. /\ msgList[k].play \in 1..Len(plays)
        /\ msgList[k].task \in 1..Len(plays[msgList[k].play])
        /\ msgList[k].host \in Nat \ {0}
        /\ Before(msgList[k].play, msgList[k].task, msgList[k].host)
      BY <2>1 DEF PlaceInv
  <2>3. PICK p \in 1..Len(plays) : p = msgList[k].play
      BY <2>2
  <2>4. PICK t \in 1..Len(plays[p]) : t = msgList[k].task
      BY <2>2, <2>3
  <2>5. PICK h \in Nat \ {0} : h = msgList[k].host
      BY <2>2
  <2>6. Before(p, t, h)
      BY <2>2, <2>3, <2>4, <2>5
  <2>7. Before(p, t, h)'
      BY <2>6
  <2>8. Before(msgList[k].play, msgList[k].task, msgList[k].host)'
      BY <2>1, <2>3, <2>4, <2>5, <2>7 DEF Before
  <2> QED
      BY <2>1, <2>2, <2>8
<1>2. ASSUME NEW p \in DOMAIN plays, NEW t \in DOMAIN plays[p],
             NEW h \in DOMAIN plays[p][t].hosts, Before(p, t, h)'
      PROVE  \E k \in Starts' :
                 msgList'[k].play = p /\ msgList'[k].task = t /\ msgList'[k].host = h
  <2>1. PICK k \in Starts : msgList[k].play = p /\ msgList[k].task = t /\ msgList[k].host = h
      BY <1>2 DEF PlaceInv
  <2> QED
      BY <2>1 DEF StartsKept
<1>3. plays' = plays
    BY DEF StartsKept
<1> QED
    BY <1>1, <1>2, <1>3 DEF PlaceInv

(* The steps that start no task.                                           *)
LEMMA OtherTrack ==
    ASSUME OrderInv, TrackInv,
           OnPlay \/ OnOutcome \/ NextTask \/ OnStats \/ Return \/ UNCHANGED vars
    PROVE  TrackInv'
<1>1. StartsKept
    BY StartsKeptBy
<1>2. UuidInv' /\ TasksTracked'
  <2>1. duplicateTaskCount' = duplicateTaskCount
      BY DEF OnPlay, OnOutcome, NextTask, OnStats, Return, vars
  <2> QED
      BY <1>1, <2>1, KeptUuid, KeptTracked DEF TrackInv
<1>3. /\ \A p \in 1..Len(plays) : \A t \in 1..Len(plays[p]) : \A h \in Nat \ {0} :
             Before(p, t, h) => Before(p, t, h)'
      /\ \A p \in DOMAIN plays : \A t \in DOMAIN plays[p] :
             \A h \in DOMAIN plays[p][t].hosts : Before(p, t, h)' => Before(p, t, h)
  <2> SUFFICES ASSUME NEW p \in 1..Len(plays), NEW t \in 1..Len(plays[p]), NEW h \in Nat \ {0}
               PROVE  /\ Before(p, t, h) => Before(p, t, h)'
                      /\ h \in DOMAIN plays[p][t].hosts /\ Before(p, t, h)' => Before(p, t, h)
    <3>1. plays \in Seq(Seq(Tasks))
        BY DEF OrderInv, Shape
    <3>2. ASSUME NEW p \in DOMAIN plays, NEW t \in DOMAIN plays[p]
          PROVE  /\ p \in 1..Len(plays) /\ t \in 1..Len(plays[p])
                 /\ plays[p][t].hosts \in Seq(SUBSET Flags)
      <4>1. p \in 1..Len(plays) /\ plays[p] \in Seq(Tasks)
          BY <3>1
      <4>2. t \in 1..Len(plays[p])
          BY <4>1
      <4> QED
          BY <3>1, <4>1, <4>2, TaskType
    <3>3. \A p \in DOMAIN plays : \A t \in DOMAIN plays[p] : \A h \in DOMAIN plays[p][t].hosts :
              h \in Nat \ {0}
        BY <3>2
    <3> QED
        BY <3>2, <3>3
  <2>1. /\ i \in Nat \ {0} /\ task \in Nat \ {0} /\ host \in Nat \ {0}
        /\ plays[p] \in Seq(Tasks) /\ p \in Nat /\ t \in Nat
      BY DEF OrderInv, Shape
  <2>2. plays[p][t].hosts \in Seq(SUBSET Flags)
      BY TaskType DEF OrderInv, Shape
  <2>3. CASE OnPlay
    <3>1. UNCHANGED <<i, task, host>> /\ pc = "play" /\ pc' = "task"
        BY <2>3 DEF OnPlay, place
    <3> QED
        BY <2>1, <3>1 DEF Before
  <2>4. CASE OnOutcome
    <3>1. UNCHANGED <<i, task>> /\ host' = host + 1 /\ pc = "runner" /\ pc' = "task"
        BY <2>4 DEF OnOutcome
    <3> QED
        BY <2>1, <3>1 DEF Before
  <2>5. CASE NextTask
    <3>1. /\ i' = i /\ task' = task + 1 /\ host' = 1 /\ pc = "task" /\ pc' = "task"
          /\ host > Len(plays[i][task].hosts)
        BY <2>5 DEF NextTask
    <3>2. h \in DOMAIN plays[p][t].hosts => h <= Len(plays[p][t].hosts)
        BY <2>2
    <3>3. Before(p, t, h) => Before(p, t, h)'
        BY <2>1, <3>1 DEF Before
    <3>4. Before(p, t, h)' => p < i \/ (p = i /\ t <= task)
        BY <2>1, <3>1 DEF Before
    <3>5. p = i /\ t = task /\ h \in DOMAIN plays[p][t].hosts => h < host
        BY <2>1, <2>2, <3>1, <3>2
    <3> QED
        BY <2>1, <3>3, <3>4, <3>5 DEF Before
  <2>6. CASE OnStats
    <3>1. /\ i' = i + 1 /\ task' = 1 /\ host' = 1 /\ pc = "task" /\ pc' = "play"
          /\ task > Len(plays[i])
        BY <2>6 DEF OnStats
    <3>2. p = i => t < task
        BY <2>1, <3>1
    <3> QED
        BY <2>1, <3>1, <3>2 DEF Before
  <2>7. CASE Return
    <3>1. UNCHANGED <<i, task, host>> /\ pc = "play" /\ pc' = "done"
        BY <2>7 DEF Return, place
    <3> QED
        BY <2>1, <3>1 DEF Before
  <2>8. CASE UNCHANGED vars
      BY <2>8 DEF vars, place, Before
  <2> QED
      BY <2>3, <2>4, <2>5, <2>6, <2>7, <2>8
<1>4. PlaceInv'
    BY <1>1, <1>3, KeptPlace DEF TrackInv
<1>5. NumberInv'
  <2> SUFFICES ASSUME pc' \in {"task", "runner"}, task' <= Len(plays'[i'])
               PROVE  NumberInv'
      BY DEF NumberInv
  <2>1. ASSUME number' = 0,
               \A k \in Starts : ~(msgList[k].play = i' /\ msgList[k].task = task')
        PROVE  NumberInv'
      BY <1>1, <2>1 DEF NumberInv, StartsKept
  <2>2. i \in Nat /\ task \in Nat /\ host \in Nat
      BY DEF OrderInv, Shape
  <2>3. CASE OnPlay
    <3>1. UNCHANGED <<i, task, host, number>> /\ pc = "play" /\ host = 1 /\ number = 0
        BY <2>3 DEF OnPlay, place, OrderInv, Shape
    <3>2. \A k \in Starts : ~(msgList[k].play = i /\ msgList[k].task = task)
        BY <2>2, <3>1 DEF TrackInv, PlaceInv, Before
    <3> QED
        BY <2>1, <3>1, <3>2
  <2>4. CASE NextTask
    <3>1. i' = i /\ task' = task + 1 /\ number' = 0
        BY <2>4 DEF NextTask
    <3>2. \A k \in Starts : ~(msgList[k].play = i /\ msgList[k].task = task + 1)
        BY <2>2 DEF TrackInv, PlaceInv, Before
    <3> QED
        BY <2>1, <3>1, <3>2
  <2>5. CASE OnOutcome \/ UNCHANGED vars
    <3>1. /\ UNCHANGED <<plays, i, task, number, duplicateTaskCount>>
          /\ pc \in {"task", "runner"}
        BY <2>5 DEF OnOutcome, vars, place
    <3> QED
        BY <1>1, <3>1 DEF TrackInv, NumberInv, StartsKept, taskId, Repeated
  <2>6. CASE OnStats \/ Return
      BY <2>6 DEF OnStats, Return
  <2> QED
      BY <2>3, <2>4, <2>5, <2>6
<1> QED
    BY <1>2, <1>4, <1>5 DEF TrackInv

(* The starts so far, seen from a start of the task the loops are at.      *)
LEMMA OldStarts ==
    ASSUME OrderInv, TrackInv, OnHost, NEW k \in Starts
    PROVE  /\ msgList[k].play = i /\ msgList[k].task = task =>
                 msgList[k].uuid = <<taskId, number'>>
           /\ msgList[k].uuid = <<taskId, number'>>
              /\ ~(msgList[k].play = i /\ msgList[k].task = task) =>
                 /\ number' = 0 /\ msgList[k].play # i
                 /\ ~Repeated(plays[i], task)
                 /\ ~Repeated(plays[msgList[k].play], msgList[k].task)
<1>1. /\ pc = "task" /\ task \in 1..Len(plays[i]) /\ taskId \in TaskIds
      /\ plays[i] \in Seq(Tasks)
    BY CurrentTask DEF OnHost, OrderInv
<1>2. /\ number \in Nat /\ duplicateTaskCount[taskId] \in Nat
    BY <1>1 DEF OrderInv, Shape
<1>3. /\ msgList[k].uuid[1] = plays[msgList[k].play][msgList[k].task].id
      /\ msgList[k].uuid[2] <= duplicateTaskCount[msgList[k].uuid[1]]
      /\ msgList[k].uuid[2] = 0 <=> ~Repeated(plays[msgList[k].play], msgList[k].task)
    BY DEF TrackInv, UuidInv
<1>4. /\ number # 0 => Repeated(plays[i], task) /\ number <= duplicateTaskCount[taskId]
      /\ msgList[k].play = i /\ msgList[k].task = task => msgList[k].uuid = <<taskId, number>>
      /\ number # 0 /\ msgList[k].uuid = <<taskId, number>> =>
            msgList[k].play = i /\ msgList[k].task = task
    BY <1>1 DEF TrackInv, NumberInv
<1>5. CASE number = 0 /\ Repeated(plays[i], task)
  <2>1. number' = duplicateTaskCount[taskId] + 1
      BY <1>5, HostAppends DEF OrderInv
  <2>2. ~(msgList[k].play = i /\ msgList[k].task = task)
      BY <1>3, <1>4, <1>5
  <2>3. msgList[k].uuid # <<taskId, number'>>
      BY <1>2, <1>3, <2>1
  <2> QED
      BY <2>2, <2>3
<1>6. CASE ~(number = 0 /\ Repeated(plays[i], task))
  <2>1. number' = number
      BY <1>6, HostAppends DEF OrderInv
  <2>2. CASE number # 0
      BY <1>4, <2>1, <2>2
  <2>3. CASE number = 0
    <3> SUFFICES ASSUME msgList[k].uuid = <<taskId, 0>>,
                        ~(msgList[k].play = i /\ msgList[k].task = task)
                 PROVE  /\ msgList[k].play # i
                        /\ ~Repeated(plays[msgList[k].play], msgList[k].task)
        BY <1>4, <1>6, <2>1, <2>3
    <3>1. ~Repeated(plays[msgList[k].play], msgList[k].task)
        BY <1>3
    <3>2. ASSUME msgList[k].play = i PROVE FALSE
      <4>1. msgList[k].task \in DOMAIN plays[i] /\ msgList[k].task # task
          BY <1>1, <3>2 DEF TrackInv, PlaceInv
      <4>2. plays[i][msgList[k].task].id = plays[i][task].id
          BY <1>3, <3>2 DEF taskId
      <4> QED
          BY <1>6, <2>3, <4>1, <4>2 DEF Repeated
    <3> QED
        BY <3>1, <3>2
  <2> QED
      BY <2>2, <2>3
<1> QED
    BY <1>5, <1>6

LEMMA HostTrack ==
    ASSUME OrderInv, TrackInv, OnHost
    PROVE  TrackInv'
<1> DEFINE K == Len(msgList) + 1
<1>1. /\ pc = "task" /\ pc' = "runner" /\ UNCHANGED <<plays, i, task, host>>
      /\ i \in 1..Len(plays) /\ task \in 1..Len(plays[i]) /\ taskId \in TaskIds
      /\ host \in Nat \ {0} /\ number \in Nat
      /\ taskId' = taskId
    BY CurrentTask DEF OnHost, OrderInv, Shape, place, taskId
<1>2. PICK m \in Msg :
          /\ msgList' = Append(msgList, m)
          /\ m.play = i /\ m.task = task /\ m.host = host
          /\ m.event = "playbook_on_task_start"
          /\ m.uuid = <<taskId, number'>>
    BY HostAppends DEF OrderInv
<1>3. /\ Starts' = Starts \cup {K} /\ K \notin Starts /\ msgList'[K] = m
      /\ \A k \in Starts : msgList'[k] = msgList[k]
  <2>1. Shape /\ IsStart(m)
      BY <1>2 DEF OrderInv, IsStart
  <2> QED
      BY <1>2, <2>1, Appended, StartsAppended
<1>4. /\ number # 0 => Repeated(plays[i], task) /\ number <= duplicateTaskCount[taskId]
    BY <1>1 DEF TrackInv, NumberInv
<1>5. /\ duplicateTaskCount \in [TaskIds -> Nat]
      /\ \A x \in TaskIds : duplicateTaskCount[x] <= duplicateTaskCount'[x]
      /\ number' \in Nat /\ number' <= duplicateTaskCount'[taskId]
      /\ number' = 0 <=> ~Repeated(plays[i], task)
  <2>1. duplicateTaskCount \in [TaskIds -> Nat]
      BY DEF OrderInv, Shape
  <2>2. CASE number = 0 /\ Repeated(plays[i], task)
    <3>1. /\ number' = duplicateTaskCount[taskId] + 1
          /\ duplicateTaskCount' = [duplicateTaskCount EXCEPT ![taskId] = @ + 1]
        BY <2>2, HostAppends DEF OrderInv
    <3> QED
        BY <1>1, <2>1, <2>2, <3>1
  <2>3. CASE ~(number = 0 /\ Repeated(plays[i], task))
    <3>1. number' = number /\ duplicateTaskCount' = duplicateTaskCount
        BY <2>3, HostAppends DEF OrderInv
    <3> QED
        BY <1>1, <1>4, <2>1, <2>3, <3>1
  <2> QED
      BY <2>2, <2>3
<1> HIDE DEF K
<1>6. PlaceInv'
  <2>1. ASSUME NEW k \in Starts'
        PROVE  /\ msgList'[k].play \in 1..Len(plays')
               /\ msgList'[k].task \in 1..Len(plays'[msgList'[k].play])
               /\ msgList'[k].host \in Nat \ {0}
               /\ Before(msgList[k].play, msgList[k].task, msgList[k].host)'
    <3>1. CASE k \in Starts
      <4>1. msgList'[k] = msgList[k]
          BY <1>3, <3>1
      <4>2. /\ msgList[k].play \in 1..Len(plays)
            /\ msgList[k].task \in 1..Len(plays[msgList[k].play])
            /\ msgList[k].host \in Nat \ {0}
            /\ Before(msgList[k].play, msgList[k].task, msgList[k].host)
          BY <3>1 DEF TrackInv, PlaceInv
      <4> QED
          BY <1>1, <4>1, <4>2 DEF Before
    <3>2. CASE k = K
        BY <1>1, <1>2, <1>3, <3>2 DEF Before
    <3> QED
        BY <1>3, <3>1, <3>2
  <2>2. ASSUME NEW p \in DOMAIN plays, NEW t \in DOMAIN plays[p],
               NEW h \in DOMAIN plays[p][t].hosts, Before(p, t, h)'
        PROVE  \E k \in Starts' :
                   msgList'[k].play = p /\ msgList'[k].task = t /\ msgList'[k].host = h
    <3>1. CASE Before(p, t, h)
      <4>1. PICK k \in Starts : msgList[k].play = p /\ msgList[k].task = t /\ msgList[k].host = h
          BY <3>1 DEF TrackInv, PlaceInv
      <4> QED
          BY <1>3, <4>1
    <3>2. CASE p = i /\ t = task /\ h = host
        BY <1>2, <1>3, <3>2
    <3> QED
        BY <1>1, <2>2, <3>1, <3>2 DEF Before
  <2> QED
      BY <1>1, <2>1, <2>2 DEF PlaceInv
<1>7. UuidInv'
  <2> SUFFICES ASSUME NEW k \in Starts'
               PROVE  /\ msgList'[k].uuid[1] = plays[msgList'[k].play][msgList'[k].task].id
                      /\ msgList'[k].uuid[2] <= duplicateTaskCount'[msgList'[k].uuid[1]]
                      /\ msgList'[k].uuid[2] = 0
                         <=> ~Repeated(plays[msgList'[k].play], msgList'[k].task)
      BY <1>1 DEF UuidInv, Repeated
  <2>1. CASE k \in Starts
    <3>1. /\ msgList[k].uuid[1] = plays[msgList[k].play][msgList[k].task].id
          /\ msgList[k].uuid[2] <= duplicateTaskCount[msgList[k].uuid[1]]
          /\ msgList[k].uuid[2] = 0 <=> ~Repeated(plays[msgList[k].play], msgList[k].task)
        BY <2>1 DEF TrackInv, UuidInv
    <3>2. msgList[k].uuid[1] \in TaskIds /\ msgList[k].uuid[2] \in Nat
      <4>1. msgList[k] \in Msg
          BY <2>1, StartsAppended, <1>2 DEF OrderInv, Shape
      <4>2. plays[msgList[k].play] \in Seq(Tasks)
          BY <2>1 DEF OrderInv, Shape, TrackInv, PlaceInv
      <4>3. plays[msgList[k].play][msgList[k].task] \in Tasks
          BY <2>1, <4>2 DEF TrackInv, PlaceInv
      <4> QED
          BY <3>1, <4>1, <4>3 DEF Msg, Tasks
    <3>3. duplicateTaskCount[msgList[k].uuid[1]] <= duplicateTaskCount'[msgList[k].uuid[1]]
        BY <1>5, <3>2
    <3>4. duplicateTaskCount[msgList[k].uuid[1]] \in Nat
          /\ duplicateTaskCount'[msgList[k].uuid[1]] \in Nat
        BY <3>2, OrderStep DEF Next, OrderInv, Shape
    <3>5. msgList[k].uuid[2] <= duplicateTaskCount'[msgList[k].uuid[1]]
        BY <3>1, <3>2, <3>3, <3>4
    <3>6. msgList'[k] = msgList[k]
        BY <1>3, <2>1
    <3> QED
        BY <3>1, <3>5, <3>6
  <2>2. CASE k = K
    <3>1. /\ msgList'[k].play = i /\ msgList'[k].task = task
          /\ msgList'[k].uuid = <<taskId, number'>>
        BY <1>2, <1>3, <2>2
    <3>2. msgList'[k].uuid[1] = taskId /\ msgList'[k].uuid[2] = number'
        BY <3>1
    <3>3. taskId = plays[i][task].id
        BY DEF taskId
    <3> QED
        BY <1>5, <3>1, <3>2, <3>3
  <2> QED
      BY <1>3, <2>1, <2>2
<1>8. NumberInv'
  <2>1. number' # 0 => Repeated(plays[i], task) /\ number' <= duplicateTaskCount'[taskId]
      BY <1>5
  <2>2. ASSUME NEW k \in Starts', msgList'[k].play = i, msgList'[k].task = task
        PROVE  msgList'[k].uuid = <<taskId, number'>>
      BY <1>2, <1>3, <2>2, OldStarts
  <2>3. ASSUME number' # 0, NEW k \in Starts', msgList'[k].uuid = <<taskId, number'>>
        PROVE  msgList'[k].play = i /\ msgList'[k].task = task
      BY <1>2, <1>3, <2>3, OldStarts
  <2> QED
      BY <1>1, <2>1, <2>2, <2>3 DEF NumberInv, Repeated
<1>9. TasksTracked'
  <2> SUFFICES ASSUME NEW k \in Starts', NEW l \in Starts'
               PROVE  /\ SameTask(msgList'[k], msgList'[l]) => msgList'[k].uuid = msgList'[l].uuid
                      /\ msgList'[k].uuid = msgList'[l].uuid
                         /\ ~SameTask(msgList'[k], msgList'[l]) =>
                            /\ msgList'[k].play # msgList'[l].play
                            /\ ~Repeated(plays[msgList'[k].play], msgList'[k].task)
                            /\ ~Repeated(plays[msgList'[l].play], msgList'[l].task)
      BY <1>1 DEF TasksTracked, SameTask, Repeated
  <2>1. CASE k \in Starts /\ l \in Starts
      BY <1>3, <2>1 DEF TrackInv, TasksTracked
  <2>2. CASE k \in Starts /\ l = K
      BY <1>2, <1>3, <2>2, OldStarts DEF SameTask
  <2>3. CASE k = K /\ l \in Starts
      BY <1>2, <1>3, <2>3, OldStarts DEF SameTask
  <2>4. CASE k = K /\ l = K
      BY <2>4 DEF SameTask
  <2> QED
      BY <1>3, <2>1, <2>2, <2>3, <2>4
<1> QED
    BY <1>6, <1>7, <1>8, <1>9 DEF TrackInv

LEMMA TrackStep ==
    ASSUME OrderInv, TrackInv, [Next]_vars
    PROVE  TrackInv'
BY HostTrack, OtherTrack DEF Next, Returned

LEMMA NoStarts ==
    ASSUME Init
    PROVE  Starts = {}
BY DEF Init, Starts

LEMMA TrackInit ==
    ASSUME Init
    PROVE  TrackInv
<1>1. PlaceInv
  <2>1. \A p \in DOMAIN plays : \A t \in DOMAIN plays[p] : \A h \in DOMAIN plays[p][t].hosts :
            ~Before(p, t, h)
    <3> SUFFICES ASSUME NEW p \in DOMAIN plays, NEW t \in DOMAIN plays[p],
                        NEW h \in DOMAIN plays[p][t].hosts
                 PROVE  ~Before(p, t, h)
        OBVIOUS
    <3>1. plays \in Seq(Seq(Tasks))
        BY ResultsAssumption DEF Init
    <3>2. p \in 1..Len(plays) /\ t \in 1..Len(plays[p])
        BY <3>1
    <3>3. h \in 1..Len(plays[p][t].hosts)
        BY <3>1, <3>2, TaskType
    <3> QED
        BY <3>2, <3>3 DEF Init, Before
  <2> QED
      BY <2>1, NoStarts DEF PlaceInv
<1>2. UuidInv /\ NumberInv /\ TasksTracked
    BY NoStarts DEF UuidInv, NumberInv, TasksTracked, Init
<1> QED
    BY <1>1, <1>2 DEF TrackInv

-----------------------------------------------------------------------------
(* The answers.                                                            *)

LEMMA PlayAnswers ==
    ASSUME OrderInv, HostsAnswered, NEW m \in Msg, msgList' = Append(msgList, m),
           m.event \in {"playbook_on_play_start", "playbook_on_stats"},
           pc \in {"play", "task"}, pc' \in {"play", "task"}, plays' = plays
    PROVE  HostsAnswered'
<1>1. /\ Starts \subseteq 1..Len(msgList) /\ Starts' = Starts
      /\ \A k \in Starts : msgList'[k] = msgList[k]
    BY StartsAppended DEF OrderInv, IsStart
<1>2. ASSUME NEW k \in Starts
      PROVE  k # Len(msgList') /\ Answers(msgList[k + 1], msgList[k])'
  <2>1. k \in 1..Len(msgList) /\ k # Len(msgList) /\ Answers(msgList[k + 1], msgList[k])
      BY <1>1 DEF HostsAnswered
  <2>2. msgList'[k] = msgList[k] /\ msgList'[k + 1] = msgList[k + 1] /\ k # Len(msgList')
      BY <2>1, Appended DEF OrderInv
  <2> QED
      BY <2>1, <2>2 DEF Answers, SameTask
<1>3. ASSUME NEW k \in DOMAIN msgList', msgList'[k].event \in RunnerEvents
      PROVE  k - 1 \in Starts
  <2>1. k \in DOMAIN msgList /\ msgList'[k] = msgList[k]
      BY <1>3, Appended DEF OrderInv, RunnerEvents
  <2> QED
      BY <1>3, <2>1 DEF HostsAnswered
<1>4. \A k, l \in Starts : SameTask(msgList'[k], msgList'[l]) /\ msgList'[k].host = msgList'[l].host
                           => k = l
    BY <1>1 DEF HostsAnswered
<1> QED
    BY <1>1, <1>2, <1>3, <1>4 DEF HostsAnswered, SameTask

LEMMA HostAnswers ==
    ASSUME OrderInv, TrackInv, HostsAnswered, OnHost
    PROVE  HostsAnswered'
<1> DEFINE K == Len(msgList) + 1
<1>1. /\ pc = "task" /\ pc' = "runner" /\ plays' = plays
      /\ i \in Nat /\ task \in Nat /\ host \in Nat
    BY DEF OnHost, OrderInv, Shape
<1>2. PICK m \in Msg :
          /\ msgList' = Append(msgList, m)
          /\ m.play = i /\ m.task = task /\ m.host = host
          /\ m.event = "playbook_on_task_start"
    BY HostAppends DEF OrderInv
<1>3. /\ Starts \subseteq 1..Len(msgList) /\ Starts' = Starts \cup {K} /\ K = Len(msgList')
      /\ K \notin Starts /\ msgList'[K] = m
      /\ \A k \in Starts : msgList'[k] = msgList[k]
  <2>1. Shape /\ IsStart(m)
      BY <1>2 DEF OrderInv, IsStart
  <2> QED
      BY <1>2, <2>1, Appended, StartsAppended
<1>4. ASSUME NEW k \in Starts', k # Len(msgList')
      PROVE  Answers(msgList[k + 1], msgList[k])'
  <2>1. k \in Starts
      BY <1>3, <1>4
  <2>2. k \in 1..Len(msgList) /\ k # Len(msgList) /\ Answers(msgList[k + 1], msgList[k])
      BY <1>1, <1>3, <2>1 DEF HostsAnswered
  <2>3. msgList'[k] = msgList[k] /\ msgList'[k + 1] = msgList[k + 1]
      BY <1>2, <2>2, Appended DEF OrderInv
  <2> QED
      BY <1>1, <2>2, <2>3 DEF Answers, SameTask
<1>5. ASSUME NEW k \in DOMAIN msgList', msgList'[k].event \in RunnerEvents
      PROVE  k - 1 \in Starts'
  <2>1. k \in DOMAIN msgList /\ msgList'[k] = msgList[k]
      BY <1>2, <1>5, Appended DEF OrderInv, RunnerEvents
  <2> QED
      BY <1>3, <1>5, <2>1 DEF HostsAnswered
<1>6. ASSUME NEW k \in Starts
      PROVE  ~(SameTask(msgList[k], m) /\ msgList[k].host = m.host)
    BY <1>1, <1>2 DEF TrackInv, PlaceInv, Before, SameTask
<1> HIDE DEF K
<1>7. ASSUME NEW k \in Starts', NEW l \in Starts',
             SameTask(msgList'[k], msgList'[l]), msgList'[k].host = msgList'[l].host
      PROVE  k = l
  <2>1. CASE k \in Starts /\ l \in Starts
      BY <1>3, <1>7, <2>1 DEF HostsAnswered
  <2>2. CASE k \in Starts /\ l = K
      BY <1>3, <1>6, <1>7, <2>2
  <2>3. CASE k = K /\ l \in Starts
      BY <1>3, <1>6, <1>7, <2>3 DEF SameTask
  <2> QED
      BY <1>3, <2>1, <2>2, <2>3
<1> QED
    BY <1>1, <1>4, <1>5, <1>7 DEF HostsAnswered, SameTask

LEMMA OutcomeAnswers ==
    ASSUME OrderInv, HostsAnswered, OnOutcome
    PROVE  HostsAnswered'
<1> DEFINE L == Len(msgList)
<1>1. pc = "runner" /\ pc' = "task" /\ plays' = plays
    BY DEF OnOutcome
<1>2. PICK m \in Msg :
          /\ msgList' = Append(msgList, m)
          /\ m.play = i /\ m.task = task /\ m.host = host
          /\ m.event = RunnerEvent(plays[i][task].hosts[host])
          /\ m.event \in RunnerEvents
          /\ m.uuid = <<taskId, number>>
    BY OutcomeAppends DEF OrderInv
<1>3. /\ Starts \subseteq 1..L /\ Starts' = Starts
      /\ \A k \in Starts : msgList'[k] = msgList[k]
    BY <1>2, StartsAppended DEF OrderInv, IsStart, RunnerEvents
<1>4. /\ L \in Starts /\ L \in Nat /\ Len(msgList') = L + 1
      /\ msgList[L].play = i /\ msgList[L].task = task /\ msgList[L].host = host
      /\ msgList[L].uuid = <<taskId, number>>
  <2>1. /\ L # 0 /\ msgList[L].event = "playbook_on_task_start"
        /\ msgList[L].play = i /\ msgList[L].task = task /\ msgList[L].host = host
        /\ msgList[L].uuid = <<taskId, number>>
      BY <1>1 DEF OrderInv, LastInv
  <2>2. L \in Nat /\ DOMAIN msgList = 1..L /\ Len(msgList') = L + 1
      BY <1>2, Appended DEF OrderInv
  <2> QED
      BY <2>1, <2>2 DEF Starts, IsStart
<1>5. ASSUME NEW k \in Starts
      PROVE  k # Len(msgList') /\ Answers(msgList[k + 1], msgList[k])'
  <2>1. k \in 1..L /\ msgList'[k] = msgList[k] /\ k # Len(msgList')
      BY <1>3, <1>4
  <2>2. CASE k = L
    <3>1. msgList'[k + 1] = m
        BY <1>2, <2>2, Appended DEF OrderInv
    <3> QED
        BY <1>1, <1>2, <1>4, <2>1, <2>2, <3>1 DEF Answers, SameTask
  <2>3. CASE k # L
    <3>1. Answers(msgList[k + 1], msgList[k])
        BY <2>3 DEF HostsAnswered
    <3>2. msgList'[k + 1] = msgList[k + 1]
        BY <1>2, <1>4, <2>1, <2>3, Appended DEF OrderInv
    <3> QED
        BY <1>1, <2>1, <3>1, <3>2 DEF Answers, SameTask
  <2> QED
      BY <2>1, <2>2, <2>3
<1>6. ASSUME NEW k \in DOMAIN msgList', msgList'[k].event \in RunnerEvents
      PROVE  k - 1 \in Starts
  <2>1. CASE k \in 1..L
    <3>1. k \in DOMAIN msgList /\ msgList'[k] = msgList[k]
        BY <1>2, <2>1, Appended DEF OrderInv
    <3> QED
        BY <1>6, <3>1 DEF HostsAnswered
  <2>2. CASE k = L + 1
      BY <1>4, <2>2
  <2> QED
      BY <1>2, <2>1, <2>2, Appended DEF OrderInv
<1>7. \A k, l \in Starts : SameTask(msgList'[k], msgList'[l]) /\ msgList'[k].host = msgList'[l].host
                           => k = l
    BY <1>3 DEF HostsAnswered
<1> QED
    BY <1>1, <1>3, <1>5, <1>6, <1>7 DEF HostsAnswered, SameTask

LEMMA ReturnAnswers ==
    ASSUME OrderInv, TrackInv, HostsAnswered, Return
    PROVE  HostsAnswered'
<1>1. /\ pc = "play" /\ pc' = "done" /\ plays' = plays /\ msgList' = msgList
      /\ i > Len(plays) /\ i \in Nat /\ Starts' = Starts /\ plays \in Seq(Seq(Tasks))
    BY DEF Return, OrderInv, Shape, Starts
<1>2. \A p \in DOMAIN plays : \A t \in DOMAIN plays[p] : \A h \in DOMAIN plays[p][t].hosts :
          \E k \in Starts : msgList[k].play = p /\ msgList[k].task = t /\ msgList[k].host = h
  <2>1. \A p \in DOMAIN plays : p < i
      BY <1>1
  <2> QED
      BY <2>1 DEF TrackInv, PlaceInv, Before
<1>3. \A k \in Starts : k # Len(msgList) /\ Answers(msgList[k + 1], msgList[k])
    BY <1>1 DEF HostsAnswered
<1>4. \A k \in Starts : Answers(msgList[k + 1], msgList[k])'
    BY <1>1, <1>3 DEF Answers, SameTask
<1> QED
    BY <1>1, <1>2, <1>3, <1>4 DEF HostsAnswered, SameTask

LEMMA AnswersStep ==
    ASSUME OrderInv, TrackInv, HostsAnswered, [Next]_vars
    PROVE  HostsAnswered'
<1>1. CASE OnPlay
  <2>1. PICK m \in Msg : msgList' = Append(msgList, m) /\ m.event = "playbook_on_play_start"
      BY <1>1, PlayAppends DEF OrderInv
  <2>2. pc = "play" /\ pc' = "task" /\ plays' = plays
      BY <1>1 DEF OnPlay
  <2> QED
      BY <2>1, <2>2, PlayAnswers
<1>2. CASE OnStats
  <2>1. PICK m \in Msg : msgList' = Append(msgList, m) /\ m.event = "playbook_on_stats"
      BY <1>2, StatsAppends DEF OrderInv
  <2>2. pc = "task" /\ pc' = "play" /\ plays' = plays
      BY <1>2 DEF OnStats
  <2> QED
      BY <2>1, <2>2, PlayAnswers
<1>3. CASE NextTask
  <2>1. pc = "task" /\ pc' = "task" /\ plays' = plays /\ msgList' = msgList /\ Starts' = Starts
      BY <1>3 DEF NextTask, Starts
  <2> QED
      BY <2>1 DEF HostsAnswered, Answers, SameTask
<1>4. CASE UNCHANGED vars
  <2>1. pc' = pc /\ plays' = plays /\ msgList' = msgList /\ Starts' = Starts
      BY <1>4 DEF vars, Starts
  <2> QED
      BY <2>1 DEF HostsAnswered, Answers, SameTask
<1> QED
    BY <1>1, <1>2, <1>3, <1>4, HostAnswers, OutcomeAnswers, ReturnAnswers DEF Next, Returned

-----------------------------------------------------------------------------
LEMMA EventsInvariant == Spec => []EventsInv
<1>1. Init => EventsInv
  <2> SUFFICES ASSUME Init PROVE EventsInv
      OBVIOUS
  <2>1. HostsAnswered
      BY NoStarts DEF HostsAnswered, Init
  <2> QED
      BY <2>1, OrderInit, TrackInit DEF EventsInv
<1>2. EventsInv /\ [Next]_vars => EventsInv'
    BY OrderStep, TrackStep, AnswersStep DEF EventsInv
<1> QED
    BY <1>1, <1>2, PTL DEF Spec

(* For all results: the events are numbered over all plays without a gap,  *)
(* and those of a play follow each other from its start to its statistics. *)
THEOREM EventsFramed == Spec => []PlaysFramed
<1>1. EventsInv => PlaysFramed
    BY DEF EventsInv, OrderInv
<1> QED
    BY <1>1, EventsInvariant, PTL

(* For all results: every start of a task on a host is answered at once by *)
(* its outcome under the same uuid, none is reported twice, and when the   *)
(* translation is done every host of every task of every play has been.    *)
THEOREM EventsAnswered == Spec => []HostsAnswered
<1>1. EventsInv => HostsAnswered
    BY DEF EventsInv
<1> QED
    BY <1>1, EventsInvariant, PTL

(* For all results, whatever ids are repeated in a play or across plays:   *)
(* the hosts of a task share its uuid, which no other task of the play has,*)
(* nor any of another play where the id is repeated.                       *)
THEOREM EventsTracked == Spec => []TasksTracked
<1>1. EventsInv => TasksTracked
    BY DEF EventsInv, TrackInv
<1> QED
    BY <1>1, EventsInvariant, PTL
====
