----------------------------- MODULE AnalysisRun -----------------------------
(***************************************************************************)
(* The AI analysis of a package: _run_ai_analysis_pipeline and, under it,  *)
(* the provider processes it starts one after the other.  A task has an    *)
(* output file that outlives the attempts of the run; what an attempt has  *)
(* read of it, and whether it has switched to the fallback, lives in the   *)
(* worker's memory.  A process leads a session of its own and outlives a   *)
(* worker that does not kill it.                                           *)
(*                                                                         *)
(* An answer to a chunk is garbage or the raw points it lists, a point     *)
(* being the sequence of messages it cites.                                *)
(***************************************************************************)
EXTENDS Naturals, Sequences, FiniteSets, SequencesExt

CONSTANTS
  Images,       \* number of images of the package
  PointOrigins, \* the messages of each point origin, by their numbers
  ChunkSize,    \* MESSAGE_POINT_CHUNK_SIZE
  Importants,   \* number of important origins
  Replies,      \* what a provider may answer for a chunk
  MaxRetries,   \* daily.ai.fallback.max_retries
  MaxFaults,    \* bound: database errors, crashes and stops
  ProcIds,      \* bound: processes alive at a time
  Garbage,      \* an answer that is no JSON object with points
  Prose,        \* the answer to any other task
  None

Task(kind, messages) == [kind |-> kind, messages |-> messages]

(* The messages of an origin, ChunkSize at a time. *)
Chunks(messages) ==
  [c \in 1 .. ((Len(messages) + ChunkSize - 1) \div ChunkSize) |->
     SubSeq(messages, (c - 1) * ChunkSize + 1,
            IF c * ChunkSize < Len(messages) THEN c * ChunkSize ELSE Len(messages))]

Extractions ==
  LET Of(messages) == [c \in DOMAIN Chunks(messages) |-> Task("chunk", Chunks(messages)[c])]
  IN  FlattenSeq([o \in DOMAIN PointOrigins |-> Of(PointOrigins[o])])

(* The tasks in their order; the report only when there are important      *)
(* origins.                                                                *)
Plan ==
  [i \in 1 .. Images |-> Task("image", <<>>)] \o Extractions
  \o [i \in 1 .. Importants |-> Task("important", <<>>)]
  \o (IF Importants > 0 THEN <<Task("report", <<>>)>> ELSE <<>>)
  \o <<Task("digest", <<>>)>>

Tasks == DOMAIN Plan
ChunkTasks == {t \in Tasks : Plan[t].kind = "chunk"}
LastReading == Images + Len(Extractions)

Answers(t) == IF Plan[t].kind = "chunk" THEN Replies ELSE {Prose}

ASSUME AnalysisAssumption ==
  /\ Images \in Nat /\ Importants \in Nat /\ ChunkSize \in Nat \ {0}
  /\ MaxRetries \in Nat /\ MaxFaults \in Nat
  /\ PointOrigins \in Seq(Seq(Nat))
  /\ \A reply \in Replies \ {Garbage} : reply \in Seq(Seq(Nat))
  /\ None \notin {"stop", "canceled", "transient", "permanent", "printed", "answer"}

VARIABLES
  provider, \* daily.ai.provider and whether a fallback is configured
  pc,       \* where the worker is
  task,     \* the task in progress
  attempt,  \* executions of the run so far
  switched, \* AiProviderRuntimeState.fallback_active
  artifacts,\* what the attempt took for the answers of the tasks behind it
  proc,     \* the process the worker has started
  current,  \* DailyJobWorker._current_process
  procs,    \* the processes that are alive, and the one that is awaited
  files,    \* the output file of each task
  stored,   \* rows of daily_message_points
  cause,    \* the exception on its way up
  run,      \* the row of the summary run
  job,      \* the row of the job
  retries,  \* its retry_count
  stopping, \* stop(): its event is set, then the process killed
  cancel,   \* cancel(): the row is marked, then the process killed
  faults,
  left      \* processes the worker went away from

mem == <<task, switched, artifacts>>
rows == <<stored, run, job, retries>>
world == <<stopping, cancel>>
vars == <<provider, pc, mem, attempt, proc, current, procs, files, cause, rows, world, faults, left>>

-----------------------------------------------------------------------------
(* The cited messages that belong to the chunk, each once. *)
Sources(point, t) ==
  FoldLeft(LAMBDA kept, m : IF m \in ToSet(Plan[t].messages) /\ ~Contains(kept, m)
                            THEN Append(kept, m) ELSE kept, <<>>, point)

(* _validated_message_points: points without a source, and repeated ones,  *)
(* are dropped, and so is an answer that is no JSON object.  KeptPoints is *)
(* what is left of the first n points.                                     *)
KeptPoints(reply, t) ==
  LET kept[n \in 0 .. Len(reply)] ==
        IF n = 0 THEN <<>>
        ELSE IF Sources(reply[n], t) = <<>> \/ Contains(kept[n - 1], Sources(reply[n], t))
        THEN kept[n - 1]
        ELSE Append(kept[n - 1], Sources(reply[n], t))
  IN  kept

Validated(reply, t) == IF reply = Garbage THEN <<>> ELSE KeptPoints(reply, t)[Len(reply)]

(* What is extracted from a fallback answer must not come to nothing. *)
Unusable(reply, t) == reply = Garbage \/ (reply # <<>> /\ Validated(reply, t) = <<>>)

PointsOf(t) == IF t \in DOMAIN artifacts THEN Validated(artifacts[t].reply, t) ELSE <<>>

(* The rows of the points, numbered within their chunk. *)
PointRows ==
  UNION {{<<t, i, PointsOf(t)[i]>> : i \in DOMAIN PointsOf(t)} : t \in ChunkTasks}

NoPoints == \A t \in ChunkTasks : PointsOf(t) = <<>>

(* A task no process is started for. *)
StaticTask == provider.name = "disabled" \/ (Plan[task].kind = "digest" /\ NoPoints)

Output(reply) == [attempt |-> attempt, reply |-> reply]

Process(by) ==
  [task |-> task, by |-> by, attempt |-> attempt, alive |-> TRUE, wrote |-> FALSE, exit |-> None, reply |-> Prose]

Dead(p) == [procs EXCEPT ![p].alive = FALSE, ![p].exit = "killed"]
Forgotten(ps, p) == [q \in DOMAIN ps \ {p} |-> ps[q]]

Stopped == stopping # "no"
Canceled == cancel # "no"

-----------------------------------------------------------------------------
Init ==
  /\ provider \in [name : {"codex"}, fallback : BOOLEAN] \cup [name : {"disabled"}, fallback : {FALSE}]
  /\ pc = "idle" /\ task = 0 /\ attempt = 0 /\ switched = FALSE /\ artifacts = <<>>
  /\ proc = 0 /\ current = 0 /\ procs = <<>> /\ left = {}
  /\ files = [t \in Tasks |-> None]
  /\ stored = {} /\ cause = None
  /\ run = "absent" /\ job = "queued" /\ retries = 0
  /\ stopping = "no" /\ cancel = "no" /\ faults = 0

(* A worker claims the job, or the one of a worker that died with it. *)
Begin ==
  /\ pc = "idle" /\ ~Stopped
  /\ job \in {"queued", "running"} /\ ~Canceled
  /\ pc' = "check" /\ task' = 1 /\ switched' = FALSE /\ artifacts' = <<>>
  /\ attempt' = attempt + 1
  /\ run' = "running" /\ job' = "running"
  /\ UNCHANGED <<provider, proc, current, procs, files, cause, stored, retries, world, faults, left>>

Raise(why) == pc' = "raise" /\ cause' = why

(* check_cancel, which looks for the stop event first. *)
Interrupted == Stopped \/ Canceled
Interruption == IF Stopped THEN "stop" ELSE "canceled"

(* The end of a task: the points are stored once the last chunk is read.   *)
Accept(output, how) ==
  /\ artifacts' = [t \in DOMAIN artifacts \cup {task} |->
                    IF t = task THEN [attempt |-> output.attempt, reply |-> output.reply, from |-> how]
                    ELSE artifacts[t]]
  /\ task' = task + 1
  /\ pc' = IF task = LastReading THEN "persist" ELSE IF task = Len(Plan) THEN "finish" ELSE "check"
  /\ UNCHANGED switched

StartTask ==
  /\ pc = "check"
  /\ IF Interrupted THEN Raise(Interruption) /\ UNCHANGED <<mem, files>>
     ELSE IF StaticTask
     THEN LET output == Output(IF Plan[task].kind = "chunk" THEN <<>> ELSE Prose)
          IN  Accept(output, "static") /\ files' = [files EXCEPT ![task] = output] /\ UNCHANGED cause
     ELSE pc' = "launch" /\ UNCHANGED <<mem, files, cause>>
  /\ UNCHANGED <<provider, attempt, proc, current, procs, rows, world, faults, left>>

(* Popen. *)
Launch ==
  /\ pc = "launch"
  /\ pc' = "register"
  /\ \E p \in ProcIds \ DOMAIN procs :
       /\ \A q \in ProcIds \ DOMAIN procs : p <= q
       /\ proc' = p
       /\ procs' = [q \in DOMAIN procs \cup {p} |->
                      IF q = p THEN Process(IF switched THEN "fallback" ELSE "codex") ELSE procs[q]]
  /\ UNCHANGED <<provider, mem, attempt, current, files, cause, rows, world, faults, left>>

(* process_callback(process), which writes the row after it has set the    *)
(* reference.                                                              *)
Register ==
  /\ pc = "register"
  /\ current' = proc
  /\ pc' = "wait"
  /\ UNCHANGED <<provider, mem, attempt, proc, procs, files, cause, rows, world, faults, left>>

(* Mutation: a cancel leaves the process alone. *)
SeeWithoutKill ==
  /\ pc = "wait" /\ Interrupted
  /\ pc' = "leave" /\ cause' = Interruption
  /\ UNCHANGED <<provider, mem, attempt, proc, current, procs, files, rows, world, faults, left>>

(* The loop around communicate: a cancel and the deadline kill the         *)
(* process, the stop of the worker does not.                               *)
SeeInterruption ==
  /\ pc = "wait" /\ Interrupted
  /\ pc' = "leave" /\ cause' = Interruption
  /\ IF Stopped THEN UNCHANGED procs /\ left' = left \cup {p \in {proc} : procs[p].alive}
     ELSE procs' = (IF procs[proc].alive THEN Dead(proc) ELSE procs) /\ UNCHANGED left
  /\ UNCHANGED <<provider, mem, attempt, proc, current, files, rows, world, faults>>

(* Mutation: only the fallback has a deadline. *)
SeeFallbackDeadline ==
  /\ pc = "wait" /\ procs[proc].alive /\ procs[proc].by = "fallback"
  /\ procs' = Dead(proc)
  /\ pc' = "leave" /\ cause' = "transient"
  /\ UNCHANGED <<provider, mem, attempt, proc, current, files, rows, world, faults, left>>

SeeExit ==
  /\ pc = "wait" /\ ~procs[proc].alive
  /\ pc' = "leave"
  /\ UNCHANGED <<provider, mem, attempt, proc, current, procs, files, cause, rows, world, faults, left>>

SeeDeadline ==
  /\ pc = "wait" /\ procs[proc].alive
  /\ procs' = Dead(proc)
  /\ pc' = "leave" /\ cause' = IF procs[proc].by = "codex" THEN "permanent" ELSE "transient"
  /\ UNCHANGED <<provider, mem, attempt, proc, current, files, rows, world, faults, left>>

(* process_callback(None) in the finally block. *)
Leave ==
  /\ pc = "leave"
  /\ current' = 0
  /\ pc' = IF cause = None THEN "judge" ELSE "raise"
  /\ UNCHANGED <<provider, mem, attempt, proc, procs, files, cause, rows, world, faults, left>>

-----------------------------------------------------------------------------
exited == procs[proc]

(* The provider has answered: its reply is in the output file. *)
Answered == pc' = "read" /\ UNCHANGED <<mem, cause>>

(* Codex: a usage limit hands the task, and every later one, to the        *)
(* fallback.  Otherwise the output file counts, then the standard output.  *)
JudgeCodex ==
  /\ exited.by = "codex"
  /\ IF exited.exit = "limit"
     THEN /\ IF provider.fallback THEN pc' = "launch" /\ switched' = TRUE /\ UNCHANGED cause
             ELSE Raise("transient") /\ UNCHANGED switched
          /\ UNCHANGED <<task, artifacts, files>>
     ELSE IF exited.exit \in {"broke", "killed"}
     THEN Raise("permanent") /\ UNCHANGED <<mem, files>>
     ELSE IF files[task] # None THEN Answered /\ UNCHANGED files
     ELSE IF exited.exit = "printed"
     THEN Answered /\ files' = [files EXCEPT ![task] = Output(exited.reply)]
     ELSE Raise("permanent") /\ UNCHANGED <<mem, files>>

(* The fallback answers on its standard output. *)
JudgeFallback ==
  /\ exited.by = "fallback"
  /\ IF exited.exit \in {"transient", "killed"} THEN Raise("transient") /\ UNCHANGED <<mem, files>>
     ELSE IF exited.exit = "permanent" THEN Raise("permanent") /\ UNCHANGED <<mem, files>>
     ELSE Answered /\ files' = [files EXCEPT ![task] = Output(exited.reply)]

Judge ==
  /\ pc = "judge"
  /\ IF Interrupted THEN Raise(Interruption) /\ UNCHANGED <<mem, files>>
     ELSE JudgeCodex \/ JudgeFallback
  /\ IF pc' = "read" THEN UNCHANGED <<procs, proc>>
     ELSE procs' = Forgotten(procs, proc) /\ proc' = 0
  /\ UNCHANGED <<provider, attempt, current, rows, world, faults, left>>

(* Codex that exits with success has written its file, or it has printed,  *)
(* or neither.                                                             *)
Source == IF exited.by = "fallback" THEN "fallback" ELSE IF exited.wrote THEN "file" ELSE exited.exit

(* _run_ai_task reads the output file again, whoever wrote it last.  A     *)
(* chunk that the fallback answered must be usable as it is read, or it is *)
(* an error that may be tried again.                                       *)
ReadAnswer ==
  /\ pc = "read"
  /\ IF exited.by = "fallback" /\ Plan[task].kind = "chunk" /\ Unusable(files[task].reply, task)
     THEN Raise("transient") /\ UNCHANGED mem
     ELSE Accept(files[task], Source) /\ UNCHANGED cause
  /\ procs' = Forgotten(procs, proc) /\ proc' = 0
  /\ UNCHANGED <<provider, attempt, current, files, rows, world, faults, left>>

(* Mutation: the points of an earlier attempt stay. *)
PersistMore ==
  /\ pc = "persist"
  /\ IF Interrupted THEN Raise(Interruption) /\ UNCHANGED stored
     ELSE /\ pc' = "check"
          /\ stored' = stored \cup PointRows
          /\ UNCHANGED cause
  /\ UNCHANGED <<provider, mem, attempt, proc, current, procs, files, run, job, retries, world, faults, left>>

(* persist_daily_message_points replaces the points of the run. *)
Persist ==
  /\ pc = "persist"
  /\ IF Interrupted THEN Raise(Interruption) /\ UNCHANGED stored
     ELSE /\ pc' = "check"
          /\ stored' = PointRows
          /\ UNCHANGED cause
  /\ UNCHANGED <<provider, mem, attempt, proc, current, procs, files, run, job, retries, world, faults, left>>

Finish ==
  /\ pc = "finish"
  /\ IF Interrupted THEN Raise(Interruption) /\ UNCHANGED <<run, job>>
     ELSE pc' = "idle" /\ run' = "completed" /\ job' = "ended" /\ UNCHANGED cause
  /\ UNCHANGED <<provider, mem, attempt, proc, current, procs, files, stored, retries, world, faults, left>>

(* What run_daily_summary and _execute make of the exception.  The stop of *)
(* the worker is an exception like any other there.                        *)
EndAttempt ==
  /\ pc = "raise"
  /\ pc' = "idle" /\ cause' = None /\ current' = 0
  /\ procs' = [q \in {q \in DOMAIN procs : procs[q].alive} |-> procs[q]] /\ proc' = 0
  /\ run' = IF cause = "canceled" THEN "canceled" ELSE "failed"
  /\ IF cause = "transient" /\ retries < MaxRetries /\ ~Canceled
     THEN job' = "queued" /\ retries' = retries + 1
     ELSE job' = "ended" /\ UNCHANGED retries
  /\ UNCHANGED <<provider, mem, attempt, files, stored, world, faults, left>>

Work ==
  Begin \/ StartTask \/ Launch \/ Register \/ SeeInterruption \/ SeeExit \/ SeeDeadline \/ Leave
  \/ Judge \/ ReadAnswer \/ Persist \/ Finish \/ EndAttempt

-----------------------------------------------------------------------------
(* The processes.  Codex writes its file at some time before it exits,     *)
(* also when nobody waits for it any more.                                 *)
WriteFile(p) ==
  /\ procs[p].alive /\ procs[p].by = "codex" /\ ~procs[p].wrote
  /\ procs' = [procs EXCEPT ![p].wrote = TRUE]
  /\ \E reply \in Answers(procs[p].task) :
       files' = [files EXCEPT ![procs[p].task] = [attempt |-> procs[p].attempt, reply |-> reply]]
  /\ UNCHANGED <<provider, pc, mem, attempt, proc, current, cause, rows, world, faults, left>>

Exits(by) ==
  IF by = "codex" THEN {"quiet", "printed", "limit", "broke"} ELSE {"answer", "transient", "permanent"}

Exit(p) ==
  /\ procs[p].alive
  /\ \E how \in Exits(procs[p].by) : \E reply \in Answers(procs[p].task) :
       /\ how \in {"printed", "answer"} \/ reply = CHOOSE r \in Answers(procs[p].task) : TRUE
       /\ procs' = IF p = proc THEN [procs EXCEPT ![p].alive = FALSE, ![p].exit = how, ![p].reply = reply]
                   ELSE Forgotten(procs, p)
  /\ left' = left \ {p}
  /\ UNCHANGED <<provider, pc, mem, attempt, proc, current, files, cause, rows, world, faults>>

Kill == procs' = (IF current \in DOMAIN procs /\ procs[current].alive THEN Dead(current) ELSE procs)
        /\ left' = left \ {current}

(* DailyJobWorker.cancel. *)
RequestCancel ==
  /\ cancel = "no" /\ job # "ended"
  /\ cancel' = "marked"
  /\ job' = IF job = "queued" THEN "ended" ELSE job
  /\ UNCHANGED <<provider, pc, mem, attempt, proc, current, procs, files, cause, stored, run, retries, stopping, faults, left>>

(* Mutation: the process is killed before the row is marked. *)
KillThenMark ==
  /\ cancel \in {"no", "marked"} /\ job # "ended"
  /\ cancel' = IF cancel = "no" THEN "no" ELSE "killed"
  /\ Kill
  /\ UNCHANGED <<provider, pc, mem, attempt, proc, current, files, cause, rows, stopping, faults>>

CancelKill ==
  /\ cancel = "marked" /\ cancel' = "killed"
  /\ Kill
  /\ UNCHANGED <<provider, pc, mem, attempt, proc, current, files, cause, rows, stopping, faults>>

(* DailyJobWorker.stop, and a new server after it. *)
Stop ==
  /\ stopping = "no" /\ faults < MaxFaults /\ job # "ended"
  /\ stopping' = "set" /\ faults' = faults + 1
  /\ UNCHANGED <<provider, pc, mem, attempt, proc, current, procs, files, cause, rows, cancel, left>>

StopKill ==
  /\ stopping = "set" /\ stopping' = "killed"
  /\ Kill
  /\ UNCHANGED <<provider, pc, mem, attempt, proc, current, files, cause, rows, cancel, faults>>

Restart ==
  /\ stopping = "killed" /\ pc = "idle"
  /\ stopping' = "no"
  /\ UNCHANGED <<provider, pc, mem, attempt, proc, current, procs, files, cause, rows, cancel, faults, left>>

Abandoned == {p \in DOMAIN procs : procs[p].alive}

(* The server dies; its processes do not. *)
Crash ==
  /\ faults < MaxFaults /\ pc # "idle"
  /\ faults' = faults + 1
  /\ pc' = "idle" /\ cause' = None /\ proc' = 0 /\ current' = 0 /\ stopping' = "no"
  /\ procs' = [q \in Abandoned |-> procs[q]] /\ left' = Abandoned
  /\ UNCHANGED <<provider, mem, attempt, files, rows, cancel>>

(* The next claim ends the canceled job of a worker that died. *)
Sweep ==
  /\ pc = "idle" /\ job = "running" /\ Canceled
  /\ job' = "ended"
  /\ UNCHANGED <<provider, pc, mem, attempt, proc, current, procs, files, cause, stored, run, retries, world, faults, left>>

(* A statement fails: before a task, when the process is registered, in    *)
(* the loop, in the finally block, in the check_cancel behind it or when   *)
(* the points are stored.                                                  *)
DatabaseError ==
  /\ faults < MaxFaults /\ pc \in {"check", "register", "wait", "leave", "judge", "persist", "finish"}
  /\ faults' = faults + 1
  /\ cause' = "permanent"
  /\ pc' = IF pc = "wait" THEN "leave" ELSE "raise"
  /\ current' = CASE pc = "register" -> proc [] pc = "leave" -> 0 [] OTHER -> current
  /\ left' = IF pc \in {"register", "wait"} /\ procs[proc].alive THEN left \cup {proc} ELSE left
  /\ UNCHANGED <<provider, mem, attempt, proc, procs, files, rows, world>>

Next ==
  \/ Work \/ Sweep \/ Restart
  \/ RequestCancel \/ CancelKill \/ Stop \/ StopKill \/ Crash \/ DatabaseError
  \/ job # "ended" /\ \E p \in DOMAIN procs : WriteFile(p) \/ Exit(p)

Spec == Init /\ [][Next]_vars

(* The worker's loop goes on, deadlines pass, a stop ends with a new       *)
(* server and leases expire.  Nothing is assumed of the processes.         *)
FairSpec == Spec /\ WF_vars(Work) /\ WF_vars(StopKill) /\ WF_vars(Restart) /\ WF_vars(Sweep)

-----------------------------------------------------------------------------
(* A process nobody waits for was left by a crash, by the stop of the      *)
(* worker or by a database error: a cancel, a deadline, a failed task and  *)
(* the end of an attempt leave none behind.                                *)
OrphanHasCause ==
  \A p \in DOMAIN procs :
    procs[p].alive => p \in left \/ (p = proc /\ pc \in {"register", "wait"})

(* A completed run has an answer to every task.  The points that are       *)
(* stored are the distinct ones of the answers this attempt has taken,     *)
(* each of which cites messages of its chunk, whatever earlier attempts    *)
(* stored; what was taken of the fallback for a chunk is no garbage, even  *)
(* when a process that was left behind writes between; once the fallback   *)
(* was asked for a task Codex is asked for none behind it; and what is     *)
(* taken for the answer of a Codex that gave none is an earlier attempt's. *)
CompleteRun ==
  run = "completed" =>
    /\ DOMAIN artifacts = Tasks
    /\ \A t \in ChunkTasks :
         /\ {row[3] : row \in {r \in stored : r[1] = t}} =
              (IF artifacts[t].reply = Garbage THEN {}
               ELSE {Sources(point, t) : point \in ToSet(artifacts[t].reply)} \ {<<>>})
         /\ \A r, s \in stored : r[1] = s[1] /\ r[3] = s[3] => r = s
         /\ artifacts[t].from = "fallback" => artifacts[t].reply # Garbage
    /\ \A t, u \in Tasks : t < u /\ artifacts[t].from = "fallback" => artifacts[u].from \in {"fallback", "static"}
    /\ \A t \in Tasks : artifacts[t].from = "quiet" => artifacts[t].attempt < attempt

(* A process somebody killed is no failure of the provider: who judges it  *)
(* finds the cancel request or the stop that it was killed for.            *)
KillIsSeen == pc = "judge" /\ procs[proc].exit = "killed" => Interrupted

(* Whatever the processes do or fail to do, the job ends.                  *)
AnalysisEnds == <>(job = "ended")

(* "Codex CLI completed without writing output" is an error: no answer is  *)
(* taken for that of a Codex process that neither wrote nor printed one.   *)
SilenceFails == \A t \in DOMAIN artifacts : artifacts[t].from # "quiet"
=============================================================================
