---------------------------- MODULE AnsibleEvents ----------------------------
(***************************************************************************)
(* The translation of a playbook's results into job events                 *)
(* (internal/ansible/dispatcher/dispatcher_events.go).  A play is the      *)
(* sequence of its tasks; a task has an id and, for each of its hosts in   *)
(* the order in which the map of hosts is walked through, the set of the   *)
(* flags "failed" and "skipped" of its outcome.                            *)
(***************************************************************************)
EXTENDS Naturals, Sequences, FiniteSets

CONSTANTS
    TaskIds,
    NoId,           \* the uuid of an event that is not of a task
    Results         \* results of playbooks: sequences of plays

Flags == {"failed", "skipped"}
Tasks == [id : TaskIds, hosts : Seq(SUBSET Flags)]
ASSUME ResultsAssumption == Results \subseteq Seq(Seq(Tasks))

VARIABLES
    plays,          \* events.Plays
    i, task, host,  \* the play, the task and the host the loops are at
    number,         \* what was appended to the id of the task; 0: nothing
    msgCounter,
    duplicateTaskCount,
    msgList,
    pc              \* "play", "task", "runner" (a start has no outcome yet), "done"

place == <<i, task, host>>
vars == <<plays, place, number, msgCounter, duplicateTaskCount, msgList, pc>>

Init ==
    /\ plays \in Results
    /\ i = 1 /\ task = 1 /\ host = 1 /\ number = 0
    /\ msgCounter = 0 /\ msgList = <<>>
    /\ duplicateTaskCount = [id \in TaskIds |-> 0]
    /\ pc = "play"

(* countOccurence *)
countOccurence(tasks) ==
    [id \in TaskIds |-> Cardinality({k \in DOMAIN tasks : tasks[k].id = id})]

(* An event: its other fields are copied from the results at its place.  A *)
(* uuid is the id of a task and the number appended to it.                 *)
Message(name, uuid, counter) ==
    [event |-> name, play |-> i, task |-> task, host |-> host,
     uuid |-> uuid, counter |-> counter]

-----------------------------------------------------------------------------
PlaybookOnStart == Message("playbook_on_start", <<NoId, 0>>, msgCounter)
PlaybookOnPlayStart == Message("playbook_on_play_start", <<NoId, 0>>, msgCounter + 1)
playbookOnStats == Message("playbook_on_stats", <<NoId, 0>>, msgCounter + 1)

(* The loop over the plays: the next play begins.                          *)
OnPlay ==
    /\ pc = "play" /\ i <= Len(plays)
    /\ msgCounter' = msgCounter + 1
    /\ msgList' = Append(IF msgCounter = 1 THEN Append(msgList, PlaybookOnStart) ELSE msgList,
                         PlaybookOnPlayStart)
    /\ pc' = "task"
    /\ UNCHANGED <<plays, place, number, duplicateTaskCount>>

(* The id of the task in the results.                                      *)
taskId == plays[i][task].id

(* MUTANT of PlaybookOnTaskStart: the new id is not stored in the task, so *)
(* that every host gets another one.                                       *)
PlaybookOnTaskStartUnstored ==
    LET renamed == countOccurence(plays[i])[taskId] > 1
        suffix == IF renamed THEN duplicateTaskCount[taskId] + 1 ELSE 0
    IN  /\ duplicateTaskCount' = IF renamed THEN [duplicateTaskCount EXCEPT ![taskId] = @ + 1]
                                            ELSE duplicateTaskCount
        /\ number' = suffix
        /\ msgList' = Append(msgList, Message("playbook_on_task_start", <<taskId, suffix>>,
                                              msgCounter + 1))

(* An id that occurs more than once in the play gets a number.  The new id *)
(* is stored in the task, is not found in taskUUIDs for the next host, and *)
(* so stays.                                                               *)
PlaybookOnTaskStart ==
    LET renamed == number = 0 /\ countOccurence(plays[i])[taskId] > 1
        suffix == IF renamed THEN duplicateTaskCount[taskId] + 1 ELSE number
    IN  /\ duplicateTaskCount' = IF renamed THEN [duplicateTaskCount EXCEPT ![taskId] = @ + 1]
                                            ELSE duplicateTaskCount
        /\ number' = suffix
        /\ msgList' = Append(msgList, Message("playbook_on_task_start", <<taskId, suffix>>,
                                              msgCounter + 1))

(* The loop over the hosts of a task: its start for the next host.         *)
OnHost ==
    /\ pc = "task" /\ task <= Len(plays[i]) /\ host <= Len(plays[i][task].hosts)
    /\ PlaybookOnTaskStart
    /\ msgCounter' = msgCounter + 1
    /\ pc' = "runner"
    /\ UNCHANGED <<plays, place>>

RunnerEvents == {"v2_runner_on_ok", "v2_runner_on_failed", "v2_runner_on_skipped"}
RunnerEvent(flags) ==
    IF "failed" \in flags THEN "v2_runner_on_failed"
    ELSE IF "skipped" \in flags THEN "v2_runner_on_skipped"
    ELSE "v2_runner_on_ok"

(* MUTANT of RunnerOn: the outcome has the id of the results.              *)
RunnerOnOldId ==
    Message(RunnerEvent(plays[i][task].hosts[host]), <<taskId, 0>>, msgCounter + 1)

(* RunnerOnFailed, RunnerOnSkipped or RunnerOnOk.                          *)
RunnerOn ==
    Message(RunnerEvent(plays[i][task].hosts[host]), <<taskId, number>>, msgCounter + 1)

OnOutcome ==
    /\ pc = "runner"
    /\ msgCounter' = msgCounter + 1
    /\ msgList' = Append(msgList, RunnerOn)
    /\ host' = host + 1
    /\ pc' = "task"
    /\ UNCHANGED <<plays, i, task, number, duplicateTaskCount>>

NextTask ==
    /\ pc = "task" /\ task <= Len(plays[i]) /\ host > Len(plays[i][task].hosts)
    /\ task' = task + 1 /\ host' = 1 /\ number' = 0
    /\ UNCHANGED <<plays, i, msgCounter, duplicateTaskCount, msgList, pc>>

(* MUTANT of OnStats: the counter begins again with every play.            *)
OnStatsRestarts ==
    /\ pc = "task" /\ task > Len(plays[i])
    /\ msgCounter' = 0
    /\ msgList' = Append(msgList, playbookOnStats)
    /\ i' = i + 1 /\ task' = 1 /\ host' = 1 /\ number' = 0
    /\ pc' = "play"
    /\ UNCHANGED <<plays, duplicateTaskCount>>

(* The end of a play.                                                      *)
OnStats ==
    /\ pc = "task" /\ task > Len(plays[i])
    /\ msgCounter' = msgCounter + 1
    /\ msgList' = Append(msgList, playbookOnStats)
    /\ i' = i + 1 /\ task' = 1 /\ host' = 1 /\ number' = 0
    /\ pc' = "play"
    /\ UNCHANGED <<plays, duplicateTaskCount>>

Return ==
    /\ pc = "play" /\ i > Len(plays)
    /\ pc' = "done"
    /\ UNCHANGED <<plays, place, number, msgCounter, duplicateTaskCount, msgList>>

(* Nothing is left to do: AddEvent has the list.                           *)
Returned == pc = "done" /\ UNCHANGED vars

Next == OnPlay \/ OnHost \/ OnOutcome \/ NextTask \/ OnStats \/ Return \/ Returned

Spec == Init /\ [][Next]_vars

-----------------------------------------------------------------------------
IsStart(m) == m.event = "playbook_on_task_start"
Starts == {k \in DOMAIN msgList : IsStart(msgList[k])}
SameTask(m, n) == m.play = n.play /\ m.task = n.task
Repeated(tasks, t) == \E u \in DOMAIN tasks : u # t /\ tasks[u].id = tasks[t].id

(* The k-th event begins a play if it comes after the statistics of the    *)
(* play before, and else only as the first, or after a playbook_on_start   *)
(* that is the first.                                                      *)
Opening == {"playbook_on_start", "playbook_on_play_start"}
InOrder(k) ==
    IF k = 1 THEN msgList[k].event \in Opening /\ msgList[k].play = 1
    ELSE IF msgList[k - 1].event = "playbook_on_stats"
    THEN /\ msgList[k].event = "playbook_on_play_start"
         /\ msgList[k].play = msgList[k - 1].play + 1
    ELSE /\ msgList[k].event \in Opening =>
                /\ msgList[k].event = "playbook_on_play_start"
                /\ msgList[k - 1].event = "playbook_on_start"
         /\ msgList[k].play = msgList[k - 1].play

(* The events are numbered from one without a gap over all the plays, and  *)
(* every play is framed: its events follow each other, play by play, from  *)
(* the one start of the play ("generated once per-play",                   *)
(* dispatcher_events.go) to the one event with the statistics.  A          *)
(* playbook_on_start comes at most once and first; that it comes at all,   *)
(* as the comment above eventTransformer says, is not required: the code   *)
(* asks for a counter of 1, which it never has there.                      *)
PlaysFramed ==
    /\ \A k \in DOMAIN msgList : msgList[k].counter = k /\ InOrder(k)
    /\ pc = "done" /\ plays # <<>> =>
          /\ msgList # <<>>
          /\ msgList[Len(msgList)].event = "playbook_on_stats"
          /\ msgList[Len(msgList)].play = Len(plays)

(* The event n tells what came of the start m on its host.                 *)
Answers(n, m) ==
    /\ n.event = RunnerEvent(plays[m.play][m.task].hosts[m.host])
    /\ SameTask(n, m) /\ n.host = m.host /\ n.uuid = m.uuid

(* Every start of a task is followed at once by the event of what came of  *)
(* it on that very host, under the same uuid, and no outcome is reported   *)
(* without a start; no host of a task is reported twice, and in the end    *)
(* every host of every task has been ("one v2_runner_on_... Job Event will *)
(* be created for each v2_playbook_on_task_start event").  The code makes  *)
(* a start for each host; that AWX keeps only the first of a task, as the  *)
(* same comment says, is left to AWX.                                      *)
HostsAnswered ==
    /\ \A k \in Starts : IF k = Len(msgList) THEN pc = "runner"
                         ELSE Answers(msgList[k + 1], msgList[k])
    /\ \A k \in DOMAIN msgList : msgList[k].event \in RunnerEvents => k - 1 \in Starts
    /\ \A k, l \in Starts : SameTask(msgList[k], msgList[l]) /\ msgList[k].host = msgList[l].host
                            => k = l
    /\ pc = "done" =>
          \A p \in DOMAIN plays : \A t \in DOMAIN plays[p] : \A h \in DOMAIN plays[p][t].hosts :
              \E k \in Starts :
                  msgList[k].play = p /\ msgList[k].task = t /\ msgList[k].host = h

(* The events of a task can be told from those of every other one: all     *)
(* hosts of a task have the same uuid, and two tasks with the same uuid    *)
(* are of different plays, in neither of which their id is repeated.       *)
TasksTracked ==
    \A k, l \in Starts :
        LET m == msgList[k]
            n == msgList[l]
        IN  /\ SameTask(m, n) => m.uuid = n.uuid
            /\ m.uuid = n.uuid /\ ~SameTask(m, n) =>
                  /\ m.play # n.play
                  /\ ~Repeated(plays[m.play], m.task) /\ ~Repeated(plays[n.play], n.task)
====
