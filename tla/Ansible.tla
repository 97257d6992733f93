------------------------------- MODULE Ansible -------------------------------
(***************************************************************************)
(* The Ansible manager (internal/ansible/ansible_manager.go) and its       *)
(* mapping repository (internal/ansible/mapping/mapping.go).  Every        *)
(* message with a playbook has a goroutine in HandlePlaybook, which waits  *)
(* for a second one in execPlaybook on two unbuffered channels, or for its *)
(* time-out.  The repository records the playbooks in execution, so that a *)
(* process that is started again can execute them (ExecutePendingPlaybooks).*)
(***************************************************************************)
EXTENDS Naturals, FiniteSets

CONSTANTS
    Messages,       \* messages with a playbook; each is delivered once
    Contents,       \* contents of playbooks, by which their files are named
    NoPath,         \* a mod time without entry
    Garbled,        \* a mapping file that is not JSON
    NoResults,      \* no results are being posted
    NoPlays,        \* results without plays
    Results,        \* what a playbook may print: the plays of its results
    MaxModTime,     \* bound: ticks of the clock file times are taken from
    MaxFaults       \* bound: failed writes, unparsable outputs, crashes

ASSUME AnsibleAssumption ==
    /\ IsFiniteSet(Messages)
    /\ NoPath \notin Contents
    /\ NoResults \notin Results
    /\ MaxModTime \in Nat \ {0} /\ MaxFaults \in Nat

ModTimes == 1..MaxModTime
Mapping == [ModTimes -> Contents \cup {NoPath}]
Empty == [t \in ModTimes |-> NoPath]
ASSUME GarbledAssumption == Garbled \notin Mapping

VARIABLES
    handler,        \* where HandlePlaybook is, for each message
    exec,           \* where execPlaybook is
    execErr,        \* the error execPlaybook is about to signal
    content,        \* the playbook of a message
    modTime,        \* the mod time of the playbook's file in /tmp
    clock,          \* the time a new file is given
    results,        \* the results the handler is posting
    wg,             \* the wait group
    modTimeToPath, pathToModTime,   \* the repository; 0: no entry
    file,           \* playbook-mapping.json
    pending,        \* GetAll: what ExecutePendingPlaybooks has still to run
    errors,         \* it has met errors
    eventsQueue,
    process,        \* "starting", "ready", "disabled" (no manager), "stopping"
    removedOk,      \* messages whose entry was removed and the file written
    faults

repository == <<modTimeToPath, pathToModTime, file>>
startup == <<pending, errors, eventsQueue>>
message == <<content, modTime>>
goroutines == <<handler, exec, execErr, results, wg>>
vars == <<goroutines, message, clock, repository, startup, process, removedOk,
          faults>>

Init ==
    /\ handler = [m \in Messages |-> "none"] /\ exec = [m \in Messages |-> "none"]
    /\ execErr = [m \in Messages |-> FALSE]
    /\ content = [m \in Messages |-> NoPath] /\ modTime = [m \in Messages |-> 0] /\ clock = 1
    /\ results = [m \in Messages |-> NoResults]
    /\ wg = 0
    /\ modTimeToPath = Empty /\ pathToModTime = [c \in Contents |-> 0] /\ file = Empty
    /\ pending = Empty /\ errors = FALSE /\ eventsQueue = 0
    /\ process = "ready"
    /\ removedOk = {} /\ faults = 0

Fault == faults < MaxFaults /\ faults' = faults + 1

Move(pc, m, from, to) == pc[m] = from /\ pc' = [pc EXCEPT ![m] = to]

-----------------------------------------------------------------------------
(* The mapping repository.  Each operation holds its lock.                 *)

Exists(t) == modTimeToPath[t] # NoPath

(* persist writes what modTimeToPath will be; a failed write leaves the    *)
(* file as it was or garbled.                                              *)
persist == file' = modTimeToPath' /\ UNCHANGED faults
persistFails == file' \in {file, Garbled} /\ Fault

(* MUTANT of Add: the file is not written.                                 *)
AddUnsaved(c, t) ==
    /\ modTimeToPath' = [modTimeToPath EXCEPT ![t] = c]
    /\ pathToModTime' = [pathToModTime EXCEPT ![c] = t]
    /\ UNCHANGED <<file, faults>>

Add(c, t) ==
    /\ modTimeToPath' = [modTimeToPath EXCEPT ![t] = c]
    /\ pathToModTime' = [pathToModTime EXCEPT ![c] = t]
    /\ persist

(* MUTANT of Forget: only the other map is changed.                        *)
ForgetHalf(c) ==
    /\ pathToModTime' = [pathToModTime EXCEPT ![c] = 0]
    /\ UNCHANGED modTimeToPath

(* The maps after Remove: the entry of the last mod time added for this    *)
(* content goes, those of earlier ones stay.                               *)
Forget(c) ==
    /\ modTimeToPath' = [t \in ModTimes |->
           IF t = pathToModTime[c] THEN NoPath ELSE modTimeToPath[t]]
    /\ pathToModTime' = [pathToModTime EXCEPT ![c] = 0]

-----------------------------------------------------------------------------
(* HandlePlaybook.                                                         *)

(* The message is malformed (empty, without a playbook or one of the       *)
(* attributes) or its file cannot be written: nothing happens.             *)
Refuse(m) ==
    /\ process \in {"ready", "stopping"}
    /\ Move(handler, m, "none", "returned")
    /\ UNCHANGED <<exec, execErr, results, wg, message, clock, repository,
                   startup, process, removedOk, faults>>

(* The playbook is written to /tmp; file times come from a coarse clock,   *)
(* two files may have the same one.                                        *)
WritePlaybook(m) ==
    /\ process \in {"ready", "stopping"}
    /\ Move(handler, m, "none", "onStart")
    /\ clock' \in {clock, clock + 1} \cap ModTimes
    /\ modTime' = [modTime EXCEPT ![m] = clock']
    /\ \E c \in Contents : content' = [content EXCEPT ![m] = c]
    /\ UNCHANGED <<exec, execErr, results, wg, repository, startup, process,
                   removedOk, faults>>

(* ExecutorOnStart is in the list; wg.Add(1) and go execPlaybook.          *)
StartExec(m) ==
    /\ Move(handler, m, "onStart", "wait")
    /\ wg' = wg + 1
    /\ exec' = [exec EXCEPT ![m] = "check"]
    /\ UNCHANGED <<execErr, results, message, clock, repository, startup, process, removedOk,
                   faults>>

(* MUTANTS of TimeOut: wg.Done is left out; or the context is not looked   *)
(* at any more once ansible-playbook runs.                                 *)
TimeOutCounted(m) ==
    /\ Move(handler, m, "wait", "returned")
    /\ UNCHANGED <<exec, execErr, results, wg, message, clock, repository,
                   startup, process, removedOk, faults>>

TimeOutBeforeRun(m) ==
    /\ exec[m] \in {"check", "add"}
    /\ Move(handler, m, "wait", "returned")
    /\ wg' = wg - 1
    /\ UNCHANGED <<exec, execErr, results, message, clock, repository, startup,
                   process, removedOk, faults>>

(* ctx.Done(): the handler returns, and its channels lose their reader.    *)
TimeOut(m) ==
    /\ Move(handler, m, "wait", "returned")
    /\ wg' = wg - 1
    /\ UNCHANGED <<exec, execErr, results, message, clock, repository, startup,
                   process, removedOk, faults>>

(* The results pass through their channel.                                 *)
ReceiveResults(m) ==
    /\ Move(handler, m, "wait", "post")
    /\ Move(exec, m, "sendResults", "remove")
    /\ \E r \in Results : results' = [results EXCEPT ![m] = r]
    /\ UNCHANGED <<execErr, wg, message, clock, repository, startup, process,
                   removedOk, faults>>

(* sendEvents: results without plays are not sent.                         *)
PostNothing(m) ==
    /\ results[m] = NoPlays
    /\ Move(handler, m, "post", "wait")
    /\ results' = [results EXCEPT ![m] = NoResults]
    /\ UNCHANGED <<exec, execErr, wg, message, clock, repository, startup, process,
                   removedOk, faults>>

(* Else AddEvent, then Send to the dispatcher, whose errors are only       *)
(* logged.  The call has no deadline, and no time-out is looked at         *)
(* meanwhile: it may never return.                                         *)
Post(m) ==
    /\ results[m] # NoPlays
    /\ Move(handler, m, "post", "wait")
    /\ results' = [results EXCEPT ![m] = NoResults]
    /\ UNCHANGED <<exec, execErr, wg, message, clock, repository, startup, process, removedOk,
                   faults>>

(* The end of the execution passes through its channel.                    *)
ReceiveCompleted(m) ==
    /\ Move(handler, m, "wait", IF execErr[m] THEN "onFailed" ELSE "returned")
    /\ Move(exec, m, "sendCompleted", "ended")
    /\ execErr' = [execErr EXCEPT ![m] = FALSE]
    /\ wg' = wg - 1
    /\ UNCHANGED <<results, message, clock, repository, startup, process,
                   removedOk, faults>>

(* parseFailure takes the last event of the list, ExecutorOnFailed is      *)
(* appended to it; it is sent with the results of a later playbook.        *)
AppendFailed(m) ==
    /\ Move(handler, m, "onFailed", "returned")
    /\ UNCHANGED <<exec, execErr, results, wg, message, clock, repository, startup, process,
                   removedOk, faults>>

(* The steps of a handler but the one that may never return.               *)
Handle(m) ==
    \/ StartExec(m) \/ PostNothing(m) \/ AppendFailed(m)
    \/ ReceiveResults(m) \/ ReceiveCompleted(m)
HandlePlaybook(m) == Handle(m) \/ Post(m)

-----------------------------------------------------------------------------
(* execPlaybook.                                                           *)

Signal(m, from) ==
    /\ Move(exec, m, from, "sendCompleted")
    /\ execErr' = [execErr EXCEPT ![m] = TRUE]

(* "Check if the playbook has been already executed on the device."  Its   *)
(* file can be read as long as its handler has not returned.               *)
CheckExists(m) ==
    /\ exec[m] = "check"
    /\ IF Exists(modTime[m]) \/ handler[m] = "returned"
       THEN Signal(m, "check")
       ELSE Move(exec, m, "check", "add") /\ UNCHANGED execErr
    /\ UNCHANGED <<handler, results, wg, message, clock, repository, startup,
                   process, removedOk, faults>>

(* The file was read and the playbook is recorded.                         *)
AddPlaybook(m) ==
    /\ Move(exec, m, "add", "run")
    /\ Add(content[m], modTime[m])
    /\ UNCHANGED <<handler, execErr, results, wg, message, clock, startup, process,
                   removedOk>>

(* The file is gone with its handler, or the copy of the playbook cannot   *)
(* be written.                                                             *)
ReadFails(m) ==
    /\ \/ handler[m] = "returned" /\ UNCHANGED faults
       \/ Fault
    /\ Signal(m, "add")
    /\ UNCHANGED <<handler, results, wg, message, clock, repository, startup,
                   process, removedOk>>

(* The mapping file cannot be written: the playbook is recorded in memory. *)
AddFails(m) ==
    /\ Signal(m, "add")
    /\ modTimeToPath' = [modTimeToPath EXCEPT ![modTime[m]] = content[m]]
    /\ pathToModTime' = [pathToModTime EXCEPT ![content[m]] = modTime[m]]
    /\ persistFails
    /\ UNCHANGED <<handler, results, wg, message, clock, startup, process,
                   removedOk>>

(* ansible-playbook ends, with an error or not, and its output is parsed.  *)
RunPlaybook(m) ==
    /\ Move(exec, m, "run", "sendResults")
    /\ execErr' \in {execErr, [execErr EXCEPT ![m] = TRUE]}
    /\ UNCHANGED <<handler, results, wg, message, clock, repository, startup,
                   process, removedOk, faults>>

(* The output is not JSON: the entry is left in the repository.            *)
ParseFails(m) ==
    /\ Fault
    /\ Signal(m, "run")
    /\ UNCHANGED <<handler, results, wg, message, clock, repository, startup,
                   process, removedOk>>

RemovePlaybook(m) ==
    /\ Move(exec, m, "remove", "sendCompleted")
    /\ Forget(content[m])
    /\ \/ persist /\ removedOk' = removedOk \cup {m}
       \/ persistFails /\ UNCHANGED removedOk
    /\ UNCHANGED <<handler, execErr, results, wg, message, clock, startup,
                   process>>

execPlaybook(m) ==
    \/ CheckExists(m) \/ AddPlaybook(m) \/ ReadFails(m) \/ AddFails(m)
    \/ RunPlaybook(m) \/ ParseFails(m) \/ RemovePlaybook(m)

-----------------------------------------------------------------------------
(* ExecutePendingPlaybooks, before the first message is accepted.          *)

(* execPlaybookSync: results were parsed; the entry is removed.            *)
ExecPending(t) ==
    /\ process = "starting"
    /\ pending[t] # NoPath
    /\ pending' = [pending EXCEPT ![t] = NoPath]
    /\ Forget(pending[t])
    /\ persist \/ persistFails
    /\ errors' \in {errors, TRUE}
    /\ UNCHANGED <<goroutines, message, clock, eventsQueue, process, removedOk>>

(* The file cannot be read or the output not be parsed: the loop is left   *)
(* at once, without an event.                                              *)
PendingFails(t) ==
    /\ process = "starting"
    /\ pending[t] # NoPath
    /\ Fault
    /\ pending' = Empty /\ errors' = FALSE /\ process' = "ready"
    /\ UNCHANGED <<goroutines, message, clock, repository, eventsQueue, removedOk>>

(* AddToEventQueue *)
PendingDone ==
    /\ process = "starting"
    /\ pending = Empty
    /\ eventsQueue' = IF errors THEN eventsQueue + 1 ELSE eventsQueue
    /\ errors' = FALSE
    /\ process' = "ready"
    /\ UNCHANGED <<goroutines, message, clock, repository, pending, removedOk,
                   faults>>

(* PopEvents empties the queue: it is there for the heartbeat, whose       *)
(* ansibleManager is not set in main, so that nobody calls it yet.         *)
PopEvents ==
    /\ eventsQueue > 0
    /\ eventsQueue' = 0
    /\ UNCHANGED <<goroutines, message, clock, repository, pending, errors, process, removedOk,
                   faults>>

ExecutePendingPlaybooks == PendingDone \/ \E t \in ModTimes : ExecPending(t) \/ PendingFails(t)

-----------------------------------------------------------------------------
(* The process: a signal, or a reboot, waits for the playbooks in          *)
(* execution (WaitPlaybookCompletion); it may die at any time as well.     *)

Stop ==
    /\ process = "ready"
    /\ process' = "stopping"
    /\ UNCHANGED <<goroutines, message, clock, repository, startup, removedOk,
                   faults>>

(* NewAnsibleManager: with a mapping file that is not JSON there is no     *)
(* manager, and playbooks are not executed.                                *)
NewAnsibleManager ==
    /\ handler' = [m \in Messages |-> IF handler[m] = "none" THEN "none" ELSE "returned"]
    /\ exec' = [m \in Messages |-> "none"]
    /\ execErr' = [m \in Messages |-> FALSE] /\ results' = [m \in Messages |-> NoResults]
    /\ wg' = 0
    /\ eventsQueue' = 0 /\ errors' = FALSE
    /\ \/ /\ file = Garbled
          /\ process' = "disabled" /\ pending' = Empty
          /\ modTimeToPath' = Empty /\ pathToModTime' = [c \in Contents |-> 0]
       \/ /\ file # Garbled
          /\ process' = "starting" /\ pending' = file
          /\ modTimeToPath' = file
          /\ pathToModTime' \in [Contents -> ModTimes \cup {0}]
          /\ \A c \in Contents :
               LET times == {t \in ModTimes : file[t] = c}
               IN  IF times = {} THEN pathToModTime'[c] = 0 ELSE pathToModTime'[c] \in times
    /\ UNCHANGED <<message, clock, file, removedOk>>

Exit ==
    /\ process \in {"stopping", "disabled"}
    /\ wg = 0
    /\ NewAnsibleManager
    /\ UNCHANGED faults
Crash == Fault /\ NewAnsibleManager

Receive == \E m \in Messages : Refuse(m) \/ WritePlaybook(m)
Work == \/ \E m \in Messages : HandlePlaybook(m) \/ execPlaybook(m) \/ TimeOut(m)
        \/ ExecutePendingPlaybooks

Next == Receive \/ Work \/ PopEvents \/ Stop \/ Exit \/ Crash

Spec == Init /\ [][Next]_vars

(* Handlers are scheduled, and the time-out of one comes.  Nothing is      *)
(* assumed of ansible-playbook, of the dispatcher or of a process that is  *)
(* being stopped.                                                          *)
FairSpec ==
    /\ Spec
    /\ \A m \in Messages : WF_vars(Handle(m)) /\ WF_vars(TimeOut(m))

-----------------------------------------------------------------------------
Waiting == {"wait", "post"}

TypeOK ==
    /\ handler \in [Messages -> {"none", "onStart", "wait", "post", "onFailed", "returned"}]
    /\ exec \in [Messages -> {"none", "check", "add", "run", "sendResults", "remove",
                              "sendCompleted", "ended"}]
    /\ execErr \in [Messages -> BOOLEAN]
    /\ content \in [Messages -> Contents \cup {NoPath}]
    /\ modTime \in [Messages -> 0..MaxModTime] /\ clock \in ModTimes
    /\ results \in [Messages -> Results \cup {NoResults}]
    /\ wg \in Nat
    /\ modTimeToPath \in Mapping /\ pending \in Mapping
    /\ pathToModTime \in [Contents -> 0..MaxModTime]
    /\ file \in Mapping \cup {Garbled}
    /\ errors \in BOOLEAN /\ eventsQueue \in Nat
    /\ process \in {"starting", "ready", "disabled", "stopping"}
    /\ removedOk \subseteq Messages
    /\ faults \in 0..MaxFaults

(* No other message has its file time, or its playbook.                    *)
OwnTime(m) == \A n \in Messages \ {m} : modTime[n] # modTime[m]
OwnContent(m) == \A n \in Messages \ {m} : content[n] # content[m]

(* The repository tells files apart by their times: no two have the same.  *)
DistinctTimes == \A m \in Messages : modTime[m] # 0 => OwnTime(m)

(* While ansible-playbook runs for a message, and until its results are    *)
(* handed over, the mapping file names the playbook: a process that dies   *)
(* then executes it after its restart.  Messages with the same content     *)
(* that end earlier may take its entry away, but then leave another one.   *)
RunningIsRecorded ==
    \A m \in Messages :
        exec[m] \in {"run", "sendResults", "remove"} /\ DistinctTimes /\ file # Garbled
            => \E t \in ModTimes : file[t] = content[m]

(* A playbook that has ended, its results handed over and its removal      *)
(* written, is not in the file again: no restart executes it a second time.*)
FinishedIsForgotten ==
    \A m \in removedOk :
        OwnTime(m) /\ OwnContent(m) /\ file # Garbled
            => \A t \in ModTimes : file[t] # content[m]

(* The wait group counts the handlers that wait for an execution: a stop   *)
(* does not cut one off, and Done is never called too often.               *)
WaitGroupCounts == wg = Cardinality({m \in Messages : handler[m] \in Waiting})

(* Every handler returns, with the completion or with its time-out, even   *)
(* if the execution never ends, unless it stays for good in the Send of    *)
(* sendEvents, which has no deadline (ansible_manager.go).                 *)
HandlersReturn ==
    \A m \in Messages :
        handler[m] = "onStart" ~> (handler[m] = "returned" \/ [](handler[m] = "post"))
====
