-------------------------- MODULE AnalysisRunProofs --------------------------
(***************************************************************************)
(* The provider processes of an analysis: none is left behind but by a     *)
(* crash, a stop or a database error, and one that was killed is not taken *)
(* for a failure of the provider, for any number of tasks, processes,      *)
(* answers, retries and faults.                                            *)
(***************************************************************************)
EXTENDS AnalysisRun, NaturalsInduction, WellFoundedInduction, SequenceTheorems, TLAPS

-----------------------------------------------------------------------------
Processes ==
  [task : Nat, by : {"codex", "fallback"}, attempt : Nat, alive : BOOLEAN, wrote : BOOLEAN,
   exit : {None, "killed", "quiet", "printed", "limit", "broke", "answer", "transient", "permanent"},
   reply : Replies \cup {Prose}]

ProcessTypeOK ==
  /\ task \in Nat /\ attempt \in Nat
  /\ procs \in [DOMAIN procs -> Processes]

(* From the start of a process until its answer is read the worker knows   *)
(* it.                                                                     *)
Known == pc \in {"register", "wait", "leave", "judge", "read"} => proc \in DOMAIN procs

(* The worker is on its way to the judgement. *)
ToJudge == pc \in {"register", "wait", "judge"} \/ (pc = "leave" /\ cause = None)

(* It leaves the loop without an exception only when the process is over.  *)
Reaped == (ToJudge /\ pc \in {"leave", "judge"}) \/ pc = "read" => ~procs[proc].alive

(* Who kills without an exception of the worker's own is a cancel or a     *)
(* stop, and either has left its mark before.                              *)
KillIsMarked == ToJudge /\ ~procs[proc].alive /\ procs[proc].exit = "killed" => Interrupted

IInv == ProcessTypeOK /\ Known /\ Reaped /\ KillIsMarked /\ OrphanHasCause

-----------------------------------------------------------------------------
(* A process that is killed stays in the table; no other is touched. *)
LEMMA DeadFacts ==
  ASSUME ProcessTypeOK, NEW p \in DOMAIN procs
  PROVE  /\ Dead(p) \in [DOMAIN procs -> Processes]
         /\ DOMAIN Dead(p) = DOMAIN procs
         /\ \A q \in DOMAIN procs : q # p => Dead(p)[q] = procs[q]
         /\ ~Dead(p)[p].alive /\ Dead(p)[p].exit = "killed"
BY DEF Dead, ProcessTypeOK, Processes

LEMMA ForgottenFacts ==
  ASSUME ProcessTypeOK, NEW p
  PROVE  /\ DOMAIN Forgotten(procs, p) = DOMAIN procs \ {p}
         /\ Forgotten(procs, p) \in [DOMAIN procs \ {p} -> Processes]
         /\ \A q \in DOMAIN procs \ {p} : Forgotten(procs, p)[q] = procs[q]
BY DEF Forgotten, ProcessTypeOK

LEMMA AnswerType == \A t : Answers(t) \subseteq Replies \cup {Prose}
BY DEF Answers

(* Nothing is written into the table of processes, and the worker goes     *)
(* where it does not wait for one.                                         *)
LEMMA Elsewhere ==
  ASSUME IInv, procs' = procs, left' = left,
         pc \notin {"register", "wait"}, pc' \notin {"register", "wait", "leave", "judge", "read"},
         task' \in Nat, attempt' \in Nat
  PROVE  IInv'
BY DEF IInv, ProcessTypeOK, Known, Reaped, KillIsMarked, ToJudge, OrphanHasCause

(* A process that is over, or not asked for, leaves the table. *)
LEMMA Forgets ==
  ASSUME IInv, procs' = Forgotten(procs, proc), left' = left, attempt' = attempt, task' \in Nat,
         pc \notin {"register", "wait"}, pc' \notin {"register", "wait", "leave", "judge", "read"}
  PROVE  IInv'
<1>1. ProcessTypeOK'
  <2>1. procs' \in [DOMAIN procs' -> Processes]
    BY ForgottenFacts DEF IInv
  <2> QED
    BY <2>1 DEF IInv, ProcessTypeOK
<1>2. OrphanHasCause'
  BY ForgottenFacts DEF IInv, OrphanHasCause
<1> QED
  BY <1>1, <1>2 DEF IInv, Known, Reaped, KillIsMarked, ToJudge

(* The worker stands still and nothing but the marks of the other threads  *)
(* and the table of processes changes: nothing comes alive, and what is    *)
(* found killed was marked.                                                *)
LEMMA Standing ==
  ASSUME IInv, UNCHANGED <<pc, cause, proc, task, attempt>>,
         procs' \in [DOMAIN procs' -> Processes], DOMAIN procs' \subseteq DOMAIN procs,
         proc \in DOMAIN procs => proc \in DOMAIN procs',
         \A q \in DOMAIN procs' : procs'[q].alive => procs[q].alive /\ (q \in left => q \in left'),
         proc \in DOMAIN procs' =>
           \/ Interrupted'
           \/ /\ Interrupted' = Interrupted
              /\ \/ procs'[proc].exit # "killed"
                 \/ procs'[proc].alive = procs[proc].alive /\ procs'[proc].exit = procs[proc].exit
  PROVE  IInv'
<1>1. ProcessTypeOK' /\ Known' /\ Reaped'
  BY DEF IInv, ProcessTypeOK, Known, Reaped, ToJudge
<1>2. KillIsMarked'
  BY DEF IInv, Known, KillIsMarked, ToJudge
<1>3. OrphanHasCause'
  BY DEF IInv, OrphanHasCause
<1> QED
  BY <1>1, <1>2, <1>3 DEF IInv

-----------------------------------------------------------------------------
LEMMA InitIInv == Init => IInv
BY DEF Init, IInv, ProcessTypeOK, Known, Reaped, ToJudge, KillIsMarked, OrphanHasCause

LEMMA StepIInv == IInv /\ [Next]_vars => IInv'
<1> SUFFICES ASSUME IInv, [Next]_vars PROVE IInv'
  OBVIOUS
<1> USE DEF mem, rows, world
<1>a. ProcessTypeOK
  BY DEF IInv
<1>1. CASE Begin
  BY <1>1, Elsewhere DEF Begin, IInv, ProcessTypeOK
<1>2. CASE StartTask
  <2>1. /\ procs' = procs /\ left' = left /\ attempt' = attempt /\ pc = "check"
        /\ pc' \in {"raise", "persist", "finish", "check", "launch"} /\ task' \in {task, task + 1}
    BY <1>2 DEF StartTask, Raise, Accept
  <2> QED
    BY <2>1, <1>a, Elsewhere DEF ProcessTypeOK
<1>3. CASE Launch
  <2>1. PICK p \in ProcIds \ DOMAIN procs :
          /\ proc' = p /\ pc = "launch" /\ pc' = "register"
          /\ UNCHANGED <<task, attempt, cause, left, stopping, cancel>>
          /\ procs' = [q \in DOMAIN procs \cup {p} |->
                        IF q = p THEN Process(IF switched THEN "fallback" ELSE "codex") ELSE procs[q]]
    BY <1>3 DEF Launch
  <2>2. Process(IF switched THEN "fallback" ELSE "codex") \in Processes
    BY <1>a DEF Process, Processes, ProcessTypeOK
  <2>3. Process(IF switched THEN "fallback" ELSE "codex").alive
    BY DEF Process
  <2>4. ProcessTypeOK' /\ Known'
    BY <2>1, <2>2, <1>a DEF ProcessTypeOK, Known
  <2>5. Reaped' /\ KillIsMarked'
    BY <2>1, <2>3 DEF Reaped, KillIsMarked, ToJudge
  <2>6. OrphanHasCause'
    BY <2>1 DEF IInv, OrphanHasCause
  <2> QED
    BY <2>4, <2>5, <2>6 DEF IInv
<1>4. CASE Register
  BY <1>4 DEF Register, IInv, ProcessTypeOK, Known, Reaped, KillIsMarked, ToJudge, OrphanHasCause,
     Interrupted, Stopped, Canceled
<1>5. CASE SeeInterruption
  <2>1. /\ pc = "wait" /\ pc' = "leave" /\ proc \in DOMAIN procs /\ cause' # None
        /\ UNCHANGED <<proc, task, attempt>>
    BY <1>5, AnalysisAssumption DEF SeeInterruption, Interruption, IInv, Known
  <2>2. CASE procs' = procs /\ left' = left \cup {p \in {proc} : procs[p].alive}
    BY <2>1, <2>2 DEF IInv, ProcessTypeOK, Known, Reaped, KillIsMarked, ToJudge, OrphanHasCause
  <2>3. CASE procs' = Dead(proc) /\ left' = left
    BY <2>1, <2>3, <1>a, DeadFacts
    DEF IInv, ProcessTypeOK, Known, Reaped, KillIsMarked, ToJudge, OrphanHasCause
  <2>4. CASE procs' = procs /\ left' = left /\ ~procs[proc].alive
    BY <2>1, <2>4 DEF IInv, ProcessTypeOK, Known, Reaped, KillIsMarked, ToJudge, OrphanHasCause
  <2> QED
    BY <1>5, <2>2, <2>3, <2>4 DEF SeeInterruption
<1>6. CASE SeeExit
  BY <1>6 DEF SeeExit, IInv, ProcessTypeOK, Known, Reaped, KillIsMarked, ToJudge, OrphanHasCause,
     Interrupted, Stopped, Canceled
<1>7. CASE SeeDeadline
  <2>1. /\ pc = "wait" /\ pc' = "leave" /\ proc \in DOMAIN procs /\ cause' # None
        /\ procs' = Dead(proc) /\ UNCHANGED <<proc, task, attempt, left>>
    BY <1>7, AnalysisAssumption DEF SeeDeadline, IInv, Known
  <2> QED
    BY <2>1, <1>a, DeadFacts DEF IInv, ProcessTypeOK, Known, Reaped, KillIsMarked, ToJudge, OrphanHasCause
<1>8. CASE Leave
  BY <1>8 DEF Leave, IInv, ProcessTypeOK, Known, Reaped, KillIsMarked, ToJudge, OrphanHasCause,
     Interrupted, Stopped, Canceled
<1>9. CASE Judge
  <2>1. /\ left' = left /\ attempt' = attempt /\ pc = "judge" /\ task' = task
        /\ pc' \in {"raise", "launch", "read"}
        /\ IF pc' = "read" THEN UNCHANGED <<procs, proc>> ELSE procs' = Forgotten(procs, proc)
    BY <1>9 DEF Judge, JudgeCodex, JudgeFallback, Raise, Answered
  <2>2. CASE pc' = "read"
    BY <2>1, <2>2 DEF IInv, ProcessTypeOK, Known, Reaped, KillIsMarked, ToJudge, OrphanHasCause
  <2>3. CASE pc' # "read"
    BY <2>1, <2>3, <1>a, Forgets DEF ProcessTypeOK
  <2> QED
    BY <2>2, <2>3
<1>9a. CASE ReadAnswer
  <2>1. /\ procs' = Forgotten(procs, proc) /\ left' = left /\ attempt' = attempt /\ pc = "read"
        /\ pc' \in {"raise", "persist", "finish", "check"} /\ task' \in {task, task + 1}
    BY <1>9a DEF ReadAnswer, Raise, Accept
  <2>2. task' \in Nat
    BY <2>1, <1>a DEF ProcessTypeOK
  <2> QED
    BY <2>1, <2>2, Forgets
<1>10. CASE Persist
  BY <1>10, <1>a, Elsewhere DEF Persist, Raise, ProcessTypeOK
<1>11. CASE Finish
  BY <1>11, <1>a, Elsewhere DEF Finish, Raise, ProcessTypeOK
<1>12. CASE EndAttempt
  <2>1. /\ pc = "raise" /\ pc' = "idle" /\ UNCHANGED <<task, attempt, left>>
        /\ procs' = [q \in {q \in DOMAIN procs : procs[q].alive} |-> procs[q]]
    BY <1>12 DEF EndAttempt
  <2> QED
    BY <2>1 DEF IInv, ProcessTypeOK, Known, Reaped, KillIsMarked, ToJudge, OrphanHasCause
<1>13. CASE Sweep
  BY <1>13, <1>a, Elsewhere DEF Sweep, ProcessTypeOK
<1>14. CASE Restart
  BY <1>14, <1>a, Elsewhere DEF Restart, ProcessTypeOK
<1>15. CASE RequestCancel
  BY <1>15, <1>a, Standing DEF RequestCancel, ProcessTypeOK, Interrupted, Canceled
<1>16. CASE CancelKill \/ StopKill
  <2>1. UNCHANGED <<pc, cause, proc, task, attempt>> /\ Kill /\ Interrupted'
    BY <1>16 DEF CancelKill, StopKill, Interrupted, Canceled, Stopped
  <2>2. CASE current \in DOMAIN procs /\ procs' = Dead(current) /\ left' = left \ {current}
    BY <2>1, <2>2, <1>a, DeadFacts, Standing
  <2>3. CASE procs' = procs /\ left' = left \ {current} /\ ~(current \in DOMAIN procs /\ procs[current].alive)
    BY <2>1, <2>3, <1>a, Standing DEF ProcessTypeOK
  <2> QED
    BY <2>1, <2>2, <2>3 DEF Kill
<1>17. CASE Stop
  BY <1>17, <1>a, Standing DEF Stop, ProcessTypeOK, Interrupted, Stopped
<1>18. CASE Crash
  <2>1. /\ pc' = "idle" /\ UNCHANGED <<task, attempt>> /\ left' = Abandoned
        /\ procs' = [q \in Abandoned |-> procs[q]]
    BY <1>18 DEF Crash
  <2> QED
    BY <2>1 DEF Abandoned, IInv, ProcessTypeOK, Known, Reaped, KillIsMarked, ToJudge, OrphanHasCause
<1>19. CASE DatabaseError
  <2>1. /\ pc' = (IF pc = "wait" THEN "leave" ELSE "raise") /\ cause' # None
        /\ UNCHANGED <<procs, proc, task, attempt>>
        /\ left' = IF pc \in {"register", "wait"} /\ procs[proc].alive THEN left \cup {proc} ELSE left
    BY <1>19, AnalysisAssumption DEF DatabaseError
  <2> QED
    BY <2>1 DEF IInv, ProcessTypeOK, Known, Reaped, KillIsMarked, ToJudge, OrphanHasCause
<1>20. ASSUME NEW p \in DOMAIN procs, WriteFile(p) PROVE IInv'
  <2>1. /\ UNCHANGED <<pc, cause, proc, task, attempt, left, stopping, cancel>>
        /\ procs' = [procs EXCEPT ![p].wrote = TRUE]
    BY <1>20 DEF WriteFile
  <2>2. /\ procs' \in [DOMAIN procs -> Processes] /\ DOMAIN procs' = DOMAIN procs
        /\ \A q \in DOMAIN procs : procs'[q].alive = procs[q].alive /\ procs'[q].exit = procs[q].exit
    BY <2>1, <1>a DEF ProcessTypeOK, Processes
  <2> QED
    BY <2>1, <2>2, Standing DEF Interrupted, Stopped, Canceled
<1>21. ASSUME NEW p \in DOMAIN procs, Exit(p) PROVE IInv'
  <2>1. /\ UNCHANGED <<pc, cause, proc, task, attempt, stopping, cancel>> /\ left' = left \ {p}
    BY <1>21 DEF Exit
  <2>2. CASE p # proc
    <3>1. procs' = Forgotten(procs, p)
      BY <1>21, <2>2 DEF Exit
    <3>2. DOMAIN procs' = DOMAIN procs \ {p} /\ procs' \in [DOMAIN procs' -> Processes]
      BY <3>1, <1>a, ForgottenFacts
    <3>3. \A q \in DOMAIN procs' : procs'[q] = procs[q] /\ q # p
      BY <3>1, <1>a, ForgottenFacts
    <3>4. DOMAIN procs' \subseteq DOMAIN procs /\ (proc \in DOMAIN procs => proc \in DOMAIN procs')
      BY <3>2, <2>2
    <3>5. \A q \in DOMAIN procs' : procs'[q].alive => procs[q].alive /\ (q \in left => q \in left')
      BY <3>3, <2>1
    <3>6. proc \in DOMAIN procs' =>
            procs'[proc].alive = procs[proc].alive /\ procs'[proc].exit = procs[proc].exit
      BY <3>3
    <3> QED
      BY <3>2, <3>4, <3>5, <3>6, <2>1, Standing DEF Interrupted, Stopped, Canceled
  <2>3. CASE p = proc
    <3>0. PICK how \in Exits(procs[p].by) : \E reply \in Answers(procs[p].task) :
            procs' = IF p = proc
                     THEN [procs EXCEPT ![p].alive = FALSE, ![p].exit = how, ![p].reply = reply]
                     ELSE Forgotten(procs, p)
      BY <1>21, Zenon DEF Exit
    <3>1. PICK reply \in Answers(procs[p].task) :
            procs' = [procs EXCEPT ![p].alive = FALSE, ![p].exit = how, ![p].reply = reply]
      BY <3>0, <2>3
    <3>2. how \in {"quiet", "printed", "limit", "broke", "answer", "transient", "permanent"}
      BY DEF Exits
    <3>3. reply \in Replies \cup {Prose}
      BY AnswerType
    <3>4. /\ procs' \in [DOMAIN procs -> Processes] /\ DOMAIN procs' = DOMAIN procs
          /\ ~procs'[p].alive /\ procs'[p].exit = how
          /\ \A q \in DOMAIN procs : q # p => procs'[q] = procs[q]
      <4> DEFINE over == [[[procs[p] EXCEPT !.alive = FALSE] EXCEPT !.exit = how] EXCEPT !.reply = reply]
      <4>1. procs[p] \in Processes
        BY <1>a DEF ProcessTypeOK
      <4>2. over \in Processes /\ ~over.alive /\ over.exit = how
        BY <4>1, <3>2, <3>3 DEF Processes
      <4>3. procs' = [procs EXCEPT ![p] = over]
        BY <3>1, <1>a DEF ProcessTypeOK
      <4> HIDE DEF over
      <4> QED
        BY <4>2, <4>3, <1>a DEF ProcessTypeOK
    <3>5. how # "killed"
      BY <3>2
    <3>6. \A q \in DOMAIN procs' : procs'[q].alive => procs[q].alive /\ (q \in left => q \in left')
      BY <3>4, <2>1
    <3>7. procs' \in [DOMAIN procs' -> Processes] /\ DOMAIN procs' \subseteq DOMAIN procs
      BY <3>4
    <3>8. proc \in DOMAIN procs => proc \in DOMAIN procs' /\ procs'[proc].exit # "killed"
      BY <3>4, <3>5, <2>3
    <3> QED
      BY <3>4, <3>6, <3>7, <3>8, <2>1, Standing DEF Interrupted, Stopped, Canceled
  <2> QED
    BY <2>2, <2>3
<1>22. CASE UNCHANGED vars
  BY <1>22 DEF vars, IInv, ProcessTypeOK, Known, Reaped, KillIsMarked, ToJudge, OrphanHasCause,
     Interrupted, Stopped, Canceled
<1> QED
  BY <1>1, <1>2, <1>3, <1>4, <1>5, <1>6, <1>7, <1>8, <1>9, <1>9a, <1>10, <1>11, <1>12, <1>13, <1>14, <1>15,
     <1>16, <1>17, <1>18, <1>19, <1>20, <1>21, <1>22 DEF Next, Work

LEMMA IInvHolds == Spec => []IInv
<1>1. Init => IInv
  BY InitIInv
<1>2. IInv /\ [Next]_vars => IInv'
  BY StepIInv
<1> QED
  BY <1>1, <1>2, PTL DEF Spec

-----------------------------------------------------------------------------
(* A cancel, a deadline, a failed task and the end of an attempt leave no  *)
(* provider process behind: what _terminate_process and the finally blocks *)
(* of _run_ai_subprocess are for.                                          *)
THEOREM OrphansAreCaused == Spec => []OrphanHasCause
<1>1. IInv => OrphanHasCause
  BY DEF IInv
<1> QED
  BY <1>1, IInvHolds, PTL

(* A process that cancel() or stop() killed is answered by check_cancel    *)
(* and never judged as a failure of the provider.                          *)
THEOREM KillsAreSeen == Spec => []KillIsSeen
<1>1. IInv => KillIsSeen
  BY DEF IInv, KillIsSeen, KillIsMarked, Reaped, ToJudge
<1> QED
  BY <1>1, IInvHolds, PTL

-----------------------------------------------------------------------------
(* Recursion over the numbers up to a bound. *)
LEMMA LeastOf ==
  ASSUME NEW T \in SUBSET Nat, T # {}
  PROVE  \E n \in T : \A m \in T : n <= m
<1>1. PICK n \in T : \A m \in T : ~ (<<m, n>> \in OpToRel(<, Nat))
  BY NatLessThanWellFounded, WFMin
<1>2. \A m \in T : ~ (m < n)
  BY <1>1 DEF OpToRel
<1> QED BY <1>2

Iteration(f, a, N, step) ==
  f = [n \in 0 .. N |-> IF n = 0 THEN a ELSE step[<<n, f[n - 1]>>]]

LEMMA Iterates ==
  ASSUME NEW S, NEW a \in S, NEW N \in Nat, NEW step \in [(1 .. N) \X S -> S]
  PROVE  \E f \in [0 .. N -> S] : Iteration(f, a, N, step)
<1> DEFINE Up(k) == \E f \in [0 .. k -> S] :
                      f = [n \in 0 .. k |-> IF n = 0 THEN a ELSE step[<<n, f[n - 1]>>]]
           Bad == {k \in 0 .. N : ~Up(k)}
<1> SUFFICES ASSUME Bad # {} PROVE FALSE
  <2>1. N \in 0 .. N
    OBVIOUS
  <2> QED BY <2>1 DEF Iteration
<1>1. PICK k \in Bad : \A m \in Bad : k <= m
  <2>1. Bad \in SUBSET Nat
    OBVIOUS
  <2> HIDE DEF Bad
  <2> QED BY <2>1, LeastOf
<1>2. k \in 0 .. N /\ ~Up(k)
  BY <1>1
<1>3. CASE k = 0
  <2> DEFINE f == [n \in 0 .. 0 |-> a]
  <2>1. f \in [0 .. 0 -> S] /\ f = [n \in 0 .. 0 |-> IF n = 0 THEN a ELSE step[<<n, f[n - 1]>>]]
    OBVIOUS
  <2> QED BY <1>2, <1>3, <2>1
<1>4. CASE k > 0
  <2>1. k - 1 \in 0 .. N /\ k - 1 \notin Bad
    BY <1>1, <1>2, <1>4
  <2>2. Up(k - 1)
    BY <2>1
  <2>3. PICK g \in [0 .. k - 1 -> S] :
          g = [n \in 0 .. k - 1 |-> IF n = 0 THEN a ELSE step[<<n, g[n - 1]>>]]
    BY <2>2
  <2> DEFINE f == [n \in 0 .. k |-> IF n = k THEN step[<<k, g[k - 1]>>] ELSE g[n]]
  <2>4. g[k - 1] \in S /\ k \in 1 .. N
    BY <1>2, <1>4
  <2>5. f \in [0 .. k -> S]
    BY <1>2, <1>4, <2>4
  <2>6. \A n \in 0 .. k : f[n] = IF n = k THEN step[<<k, g[k - 1]>>] ELSE g[n]
    OBVIOUS
  <2>7. \A n \in 0 .. k - 1 : g[n] = IF n = 0 THEN a ELSE step[<<n, g[n - 1]>>]
    BY <2>3
  <2> HIDE DEF f
  <2>8. ASSUME NEW n \in 0 .. k PROVE f[n] = IF n = 0 THEN a ELSE step[<<n, f[n - 1]>>]
    <3>1. CASE n = k
      <4>1. f[k - 1] = g[k - 1]
        BY <1>2, <1>4, <2>6
      <4> QED BY <1>4, <2>6, <3>1, <4>1
    <3>2. CASE n # k /\ n > 0
      <4>1. n - 1 \in 0 .. k /\ n - 1 # k /\ n \in 0 .. k - 1
        BY <1>2, <3>2
      <4>2. f[n - 1] = g[n - 1] /\ f[n] = g[n]
        BY <2>6, <3>2, <4>1
      <4> QED BY <2>7, <3>2, <4>1, <4>2
    <3>3. CASE n = 0
      <4>1. n \in 0 .. k - 1 /\ n # k
        BY <1>2, <1>4, <3>3
      <4> QED BY <2>6, <2>7, <3>3, <4>1
    <3> QED BY <1>2, <3>1, <3>2, <3>3
  <2>9. f = [n \in 0 .. k |-> IF n = 0 THEN a ELSE step[<<n, f[n - 1]>>]]
    BY <2>5, <2>8
  <2> QED BY <1>2, <2>5, <2>9
<1> QED BY <1>2, <1>3, <1>4

-----------------------------------------------------------------------------
(* The points an answer is validated to. *)
LEMMA KeptIterates ==
  ASSUME NEW reply, Len(reply) \in Nat, NEW t
  PROVE  LET V == {Sources(reply[i], t) : i \in 1 .. Len(reply)}
             K == KeptPoints(reply, t)
         IN  /\ K \in [0 .. Len(reply) -> Seq(V)]
             /\ K[0] = <<>>
             /\ \A n \in 1 .. Len(reply) :
                  K[n] = IF Sources(reply[n], t) = <<>> \/ Contains(K[n - 1], Sources(reply[n], t))
                         THEN K[n - 1] ELSE Append(K[n - 1], Sources(reply[n], t))
<1> DEFINE N == Len(reply)
           V == {Sources(reply[i], t) : i \in 1 .. N}
           next(n, s) == IF Sources(reply[n], t) = <<>> \/ Contains(s, Sources(reply[n], t))
                         THEN s ELSE Append(s, Sources(reply[n], t))
           step == [x \in (1 .. N) \X Seq(V) |-> next(x[1], x[2])]
           Is(f) == f = [n \in 0 .. N |-> IF n = 0 THEN <<>> ELSE next(n, f[n - 1])]
           K == KeptPoints(reply, t)
<1>1. \A i \in 1 .. N : Sources(reply[i], t) \in V
  OBVIOUS
<1>2. N \in Nat /\ <<>> \in Seq(V)
  OBVIOUS
<1>3. K = CHOOSE f : Is(f)
  BY DEF KeptPoints
<1> HIDE DEF V, N, K
<1>4. ASSUME NEW n \in 1 .. N, NEW s \in Seq(V) PROVE next(n, s) \in Seq(V)
  BY <1>1
<1> HIDE DEF next
<1>5. step \in [(1 .. N) \X Seq(V) -> Seq(V)]
  BY <1>4
<1>6. \A n \in 1 .. N : \A s \in Seq(V) : step[<<n, s>>] = next(n, s)
  OBVIOUS
<1> HIDE DEF step
<1>7. PICK f \in [0 .. N -> Seq(V)] : Iteration(f, <<>>, N, step)
  BY <1>2, <1>5, Iterates
<1>8. ASSUME NEW n \in 1 .. N, NEW g \in [0 .. N -> Seq(V)]
      PROVE  step[<<n, g[n - 1]>>] = next(n, g[n - 1])
  <2>1. n - 1 \in 0 .. N
    BY <1>2
  <2> QED BY <1>6, <2>1
<1>9. Is(f)
  <2>1. \A n \in 0 .. N : n # 0 => n \in 1 .. N
    BY <1>2
  <2>2. \A n \in 0 .. N : (IF n = 0 THEN <<>> ELSE step[<<n, f[n - 1]>>])
                          = (IF n = 0 THEN <<>> ELSE next(n, f[n - 1]))
    BY <1>8, <2>1
  <2> QED BY <1>7, <2>2 DEF Iteration
<1>10. Is(K)
  <2> HIDE DEF Is
  <2> QED BY <1>3, <1>9
<1>11. K[0] = <<>> /\ \A n \in 1 .. N : K[n] = next(n, K[n - 1])
  <2>1. \A n \in 0 .. N : K[n] = IF n = 0 THEN <<>> ELSE next(n, K[n - 1])
    BY <1>10
  <2>2. 0 \in 0 .. N /\ \A n \in 1 .. N : n \in 0 .. N /\ n # 0
    BY <1>2
  <2> QED BY <2>1, <2>2
<1>12. K \in [0 .. N -> Seq(V)]
  <2> DEFINE Bad == {n \in 0 .. N : K[n] \notin Seq(V)}
  <2>1. CASE Bad = {}
    BY <1>10, <2>1
  <2>2. CASE Bad # {}
    <3>1. Bad \in SUBSET Nat
      BY <1>2
    <3>2. PICK n \in Bad : \A m \in Bad : n <= m
      <4> HIDE DEF Bad
      <4> QED BY <2>2, <3>1, LeastOf
    <3>3. n # 0
      BY <1>2, <1>11, <3>2
    <3>4. n \in 1 .. N /\ n - 1 \in 0 .. N /\ n - 1 \notin Bad
      BY <1>2, <3>2, <3>3
    <3>5. K[n] \in Seq(V)
      BY <1>4, <1>11, <3>4
    <3> QED BY <3>2, <3>5
  <2> QED BY <2>1, <2>2
<1> QED BY <1>11, <1>12 DEF next, N, V, K

LEMMA KeptFacts ==
  ASSUME NEW reply, Len(reply) \in Nat, NEW t, NEW n \in 0 .. Len(reply)
  PROVE  LET k == KeptPoints(reply, t)[n]
         IN  /\ \E V : k \in Seq(V)
             /\ ToSet(k) = {Sources(reply[i], t) : i \in 1 .. n} \ {<<>>}
             /\ IsInjective(k)
<1> DEFINE N == Len(reply)
           K == KeptPoints(reply, t)
           V == {Sources(reply[i], t) : i \in 1 .. N}
           S(m) == Sources(reply[m], t)
           Good(m) == /\ ToSet(K[m]) = {S(i) : i \in 1 .. m} \ {<<>>}
                      /\ IsInjective(K[m])
           Bad == {m \in 0 .. N : ~Good(m)}
<1>1. /\ N \in Nat /\ K \in [0 .. N -> Seq(V)] /\ K[0] = <<>>
      /\ \A m \in 1 .. N : K[m] = IF S(m) = <<>> \/ Contains(K[m - 1], S(m))
                                  THEN K[m - 1] ELSE Append(K[m - 1], S(m))
  BY KeptIterates
<1>2. \A m \in 1 .. N : S(m) \in V
  OBVIOUS
<1> HIDE DEF N, K, V, S
<1>3. Bad = {}
  <2> SUFFICES ASSUME Bad # {} PROVE FALSE
    OBVIOUS
  <2>1. PICK m \in Bad : \A j \in Bad : m <= j
    <3>1. Bad \in SUBSET Nat
      BY <1>1
    <3> HIDE DEF Bad
    <3> QED BY <3>1, LeastOf
  <2>2. m \in 0 .. N /\ ~Good(m)
    BY <2>1
  <2>3. CASE m = 0
    <3>1. ToSet(<<>>) = {} /\ IsInjective(<<>>) /\ 1 .. 0 = {}
      BY DEF ToSet, IsInjective
    <3> QED BY <1>1, <2>2, <2>3, <3>1
  <2>4. CASE m > 0
    <3>1. m \in 1 .. N /\ m - 1 \in 0 .. N /\ m - 1 \notin Bad
      BY <1>1, <2>1, <2>2, <2>4
    <3>2. Good(m - 1)
      BY <3>1
    <3> DEFINE k == K[m - 1]
               e == S(m)
    <3>3. k \in Seq(V) /\ e \in V
      BY <1>1, <1>2, <3>1
    <3>4. {S(i) : i \in 1 .. m} = {S(i) : i \in 1 .. m - 1} \cup {e}
      <4>1. \A i \in 1 .. m : i \in 1 .. m - 1 \/ i = m
        BY <1>1, <3>1
      <4>2. \A i \in 1 .. m - 1 : i \in 1 .. m
        BY <1>1, <3>1
      <4>3. m \in 1 .. m
        BY <1>1, <3>1
      <4> QED BY <4>1, <4>2, <4>3
    <3>5. K[m] = IF e = <<>> \/ Contains(k, e) THEN k ELSE Append(k, e)
      BY <1>1, <3>1
    <3>6. ToSet(k) = {S(i) : i \in 1 .. m - 1} \ {<<>>} /\ IsInjective(k)
      BY <3>2
    <3> HIDE DEF k, e
    <3>7. Len(k) \in Nat /\ DOMAIN k = 1 .. Len(k)
      BY <3>3
    <3>8. Contains(k, e) <=> e \in ToSet(k)
      BY <3>7 DEF Contains, ToSet
    <3>9. CASE e = <<>> \/ Contains(k, e)
      <4>1. K[m] = k
        BY <3>5, <3>9
      <4>2. ToSet(k) = {S(i) : i \in 1 .. m} \ {<<>>}
        BY <3>4, <3>6, <3>8, <3>9
      <4> QED BY <2>2, <3>6, <4>1, <4>2
    <3>10. CASE e # <<>> /\ ~Contains(k, e)
      <4> DEFINE p == Append(k, e)
      <4>1. K[m] = p
        BY <3>5, <3>10
      <4>2. /\ Len(p) = Len(k) + 1 /\ DOMAIN p = 1 .. Len(k) + 1
            /\ \A i \in 1 .. Len(k) : p[i] = k[i]
            /\ p[Len(k) + 1] = e
        BY <3>3, <3>7
      <4> HIDE DEF p
      <4>3. ToSet(p) = ToSet(k) \cup {e}
        <5>1. ToSet(p) = {p[i] : i \in 1 .. Len(k) + 1} /\ ToSet(k) = {k[i] : i \in 1 .. Len(k)}
          BY <3>7, <4>2 DEF ToSet
        <5>2. \A i \in 1 .. Len(k) + 1 : i \in 1 .. Len(k) \/ i = Len(k) + 1
          BY <3>7
        <5>3. 1 .. Len(k) \subseteq 1 .. Len(k) + 1 /\ Len(k) + 1 \in 1 .. Len(k) + 1
          BY <3>7
        <5> QED BY <4>2, <5>1, <5>2, <5>3
      <4>4. IsInjective(p)
        <5>1. ASSUME NEW i \in 1 .. Len(k), NEW j \in 1 .. Len(k), p[i] = p[j] PROVE i = j
          BY <3>6, <3>7, <4>2, <5>1 DEF IsInjective
        <5>2. ASSUME NEW i \in 1 .. Len(k) PROVE p[i] # p[Len(k) + 1]
          BY <3>7, <3>8, <3>10, <4>2 DEF ToSet
        <5> QED BY <3>7, <4>2, <5>1, <5>2 DEF IsInjective
      <4>5. ToSet(p) = {S(i) : i \in 1 .. m} \ {<<>>}
        BY <3>4, <3>6, <3>10, <4>3
      <4> QED BY <2>2, <4>1, <4>4, <4>5
    <3> QED BY <3>9, <3>10
  <2> QED BY <1>1, <2>2, <2>3, <2>4
<1>4. Good(n)
  BY <1>3 DEF N
<1>5. K[n] \in Seq(V)
  BY <1>1 DEF N
<1> QED BY <1>4, <1>5 DEF K, S

(* What an answer is validated to: the distinct points that have a source. *)
LEMMA ValidatedFacts ==
  ASSUME NEW reply, NEW t, reply = Garbage \/ reply \in Seq(Seq(Nat))
  PROVE  /\ \E V : Validated(reply, t) \in Seq(V)
         /\ IsInjective(Validated(reply, t))
         /\ ToSet(Validated(reply, t)) =
              IF reply = Garbage THEN {}
              ELSE {Sources(point, t) : point \in ToSet(reply)} \ {<<>>}
<1>1. CASE reply = Garbage
  <2>1. Validated(reply, t) = <<>>
    BY <1>1 DEF Validated
  <2>2. <<>> \in Seq(Nat) /\ IsInjective(<<>>) /\ ToSet(<<>>) = {}
    BY DEF IsInjective, ToSet
  <2> QED BY <1>1, <2>1, <2>2
<1>2. CASE reply # Garbage
  <2> DEFINE N == Len(reply)
             k == KeptPoints(reply, t)[N]
  <2>1. N \in Nat /\ DOMAIN reply = 1 .. N /\ N \in 0 .. N
    BY <1>2
  <2>2. Validated(reply, t) = k
    BY <1>2 DEF Validated
  <2>3. /\ \E V : k \in Seq(V)
        /\ ToSet(k) = {Sources(reply[i], t) : i \in 1 .. N} \ {<<>>}
        /\ IsInjective(k)
    BY <2>1, KeptFacts
  <2> HIDE DEF k
  <2>4. {Sources(point, t) : point \in ToSet(reply)} = {Sources(reply[i], t) : i \in 1 .. N}
    BY <2>1 DEF ToSet
  <2> QED BY <1>2, <2>2, <2>3, <2>4
<1> QED BY <1>1, <1>2

-----------------------------------------------------------------------------
(* The plan: images, chunks, important origins, report and digest. *)
ChunkSet ==
  {Task("chunk", Chunks(PointOrigins[o])[c]) :
     o \in DOMAIN PointOrigins, c \in UNION {DOMAIN Chunks(PointOrigins[p]) : p \in DOMAIN PointOrigins}}

LEMMA ChunksType ==
  ASSUME NEW messages, Len(messages) \in Nat
  PROVE  \E n \in Nat : DOMAIN Chunks(messages) = 1 .. n
<1> DEFINE q == (Len(messages) + ChunkSize - 1) \div ChunkSize
<1>1. q \in Int
  BY AnalysisAssumption
<1>2. DOMAIN Chunks(messages) = 1 .. q
  BY DEF Chunks
<1> HIDE DEF q
<1>3. CASE q \in Nat
  BY <1>2, <1>3
<1>4. CASE q \notin Nat
  <2>1. 1 .. q = 1 .. 0
    BY <1>1, <1>4
  <2> QED BY <1>2, <2>1
<1> QED BY <1>3, <1>4

LEMMA FlattenType ==
  ASSUME NEW W, NEW F \in Seq(Seq(W))
  PROVE  FlattenSeq(F) \in Seq(W)
<1> DEFINE N == Len(F)
           step == [x \in (1 .. N) \X Seq(W) |-> x[2] \o F[x[1]]]
           Is(f) == f = [i \in 1 .. N |-> IF i = 1 THEN F[i] ELSE f[i - 1] \o F[i]]
<1>1. N \in Nat /\ <<>> \in Seq(W) /\ \A i \in 1 .. N : F[i] \in Seq(W)
  OBVIOUS
<1>2. CASE N = 0
  <2>1. FlattenSeq(F) = <<>>
    BY <1>2 DEF FlattenSeq
  <2> QED BY <2>1
<1>3. CASE N # 0
  <2>1. FlattenSeq(F) = (CHOOSE f : Is(f))[N]
    BY <1>3 DEF FlattenSeq
  <2> HIDE DEF N
  <2>2. step \in [(1 .. N) \X Seq(W) -> Seq(W)]
    BY <1>1
  <2>3. \A i \in 1 .. N : \A s \in Seq(W) : step[<<i, s>>] = s \o F[i]
    OBVIOUS
  <2> HIDE DEF step
  <2>4. PICK f \in [0 .. N -> Seq(W)] : Iteration(f, <<>>, N, step)
    BY <1>1, <2>2, Iterates
  <2> DEFINE g == [i \in 1 .. N |-> f[i]]
  <2>5. ASSUME NEW i \in 1 .. N PROVE i \in 0 .. N /\ i - 1 \in 0 .. N /\ f[i] = f[i - 1] \o F[i]
    <3>1. i \in 0 .. N /\ i - 1 \in 0 .. N /\ i # 0
      BY <1>1
    <3>2. f[i] = step[<<i, f[i - 1]>>]
      BY <2>4, <3>1 DEF Iteration
    <3> QED BY <2>3, <3>1, <3>2
  <2>6. f[0] = <<>>
    <3>1. 0 \in 0 .. N
      BY <1>1
    <3> QED BY <2>4, <3>1 DEF Iteration
  <2>7. ASSUME NEW i \in 1 .. N PROVE g[i] = IF i = 1 THEN F[i] ELSE g[i - 1] \o F[i]
    <3>1. g[i] = f[i - 1] \o F[i]
      BY <2>5
    <3>2. CASE i = 1
      <4>1. f[i - 1] = <<>>
        BY <2>6, <3>2
      <4> QED BY <1>1, <3>1, <3>2, <4>1, ConcatEmptySeq
    <3>3. CASE i # 1
      <4>1. i - 1 \in 1 .. N
        BY <1>1, <3>3
      <4> QED BY <3>1, <3>3, <4>1
    <3> QED BY <3>2, <3>3
  <2>8. Is(g)
    BY <2>7
  <2> DEFINE h == CHOOSE f1 : Is(f1)
  <2>9. Is(h)
    <3> HIDE DEF Is, g
    <3> QED BY <2>8
  <2> HIDE DEF h
  <2>10. \A i \in 1 .. N : h[i] = IF i = 1 THEN F[i] ELSE h[i - 1] \o F[i]
    BY <2>9
  <2> DEFINE Bad == {i \in 1 .. N : h[i] \notin Seq(W)}
  <2>11. Bad = {}
    <3> SUFFICES ASSUME Bad # {} PROVE FALSE
      OBVIOUS
    <3>1. PICK i \in Bad : \A j \in Bad : i <= j
      <4>1. Bad \in SUBSET Nat
        BY <1>1
      <4> HIDE DEF Bad
      <4> QED BY <4>1, LeastOf
    <3>2. i \in 1 .. N /\ h[i] \notin Seq(W)
      BY <3>1
    <3>3. CASE i = 1
      BY <1>1, <2>10, <3>2, <3>3
    <3>4. CASE i # 1
      <4>1. i - 1 \in 1 .. N /\ i - 1 \notin Bad
        BY <1>1, <3>1, <3>2, <3>4
      <4>2. h[i - 1] \in Seq(W)
        BY <4>1
      <4>3. h[i] = h[i - 1] \o F[i]
        BY <2>10, <3>2, <3>4
      <4> QED BY <1>1, <3>2, <4>2, <4>3
    <3> QED BY <3>3, <3>4
  <2>12. N \in 1 .. N
    BY <1>1, <1>3
  <2>13. h[N] \in Seq(W)
    BY <2>11, <2>12
  <2> QED BY <2>1, <2>13 DEF h
<1> QED BY <1>2, <1>3

LEMMA ExtractionsType == Extractions \in Seq(ChunkSet)
<1> DEFINE Of(messages) == [c \in DOMAIN Chunks(messages) |-> Task("chunk", Chunks(messages)[c])]
           F == [o \in DOMAIN PointOrigins |-> Of(PointOrigins[o])]
<1>1. PointOrigins \in Seq(Seq(Nat))
  BY AnalysisAssumption
<1>2. Len(PointOrigins) \in Nat /\ DOMAIN PointOrigins = 1 .. Len(PointOrigins)
  BY <1>1
<1>3. ASSUME NEW o \in DOMAIN PointOrigins PROVE Of(PointOrigins[o]) \in Seq(ChunkSet)
  <2>1. Len(PointOrigins[o]) \in Nat
    BY <1>1
  <2>2. PICK n \in Nat : DOMAIN Chunks(PointOrigins[o]) = 1 .. n
    BY <2>1, ChunksType
  <2>3. \A c \in DOMAIN Chunks(PointOrigins[o]) : Task("chunk", Chunks(PointOrigins[o])[c]) \in ChunkSet
    BY DEF ChunkSet
  <2>4. Of(PointOrigins[o]) \in [1 .. n -> ChunkSet]
    BY <2>2, <2>3
  <2> QED BY <2>4, SeqDef
<1> HIDE DEF Of
<1>4. F \in [1 .. Len(PointOrigins) -> Seq(ChunkSet)]
  BY <1>2, <1>3
<1>5. F \in Seq(Seq(ChunkSet))
  BY <1>2, <1>4, SeqDef
<1>6. Extractions = FlattenSeq(F)
  BY DEF Extractions, Of
<1> HIDE DEF F
<1> QED BY <1>5, <1>6, FlattenType

LEMMA PlanFacts ==
  /\ LastReading \in Nat /\ Len(Plan) \in Nat /\ LastReading < Len(Plan)
  /\ Tasks = 1 .. Len(Plan)
  /\ ChunkTasks \subseteq 1 .. LastReading
<1> DEFINE Other == {Task("image", <<>>), Task("important", <<>>), Task("report", <<>>), Task("digest", <<>>)}
           W == ChunkSet \cup Other
           I == [i \in 1 .. Images |-> Task("image", <<>>)]
           M == [i \in 1 .. Importants |-> Task("important", <<>>)]
           R == IF Importants > 0 THEN <<Task("report", <<>>)>> ELSE <<>>
           D == <<Task("digest", <<>>)>>
<1>1. Images \in Nat /\ Importants \in Nat
  BY AnalysisAssumption
<1>2. I \in Seq(W) /\ Len(I) = Images
  <2>1. I \in [1 .. Images -> W]
    OBVIOUS
  <2>2. I \in Seq(W)
    BY <1>1, <2>1, SeqDef
  <2>3. DOMAIN I = 1 .. Images
    OBVIOUS
  <2> HIDE DEF I, W
  <2>4. DOMAIN I = 1 .. Len(I) /\ Len(I) \in Nat
    BY <2>2
  <2> QED BY <1>1, <2>2, <2>3, <2>4
<1>3. M \in Seq(W) /\ Len(M) = Importants /\ \A i \in 1 .. Len(M) : M[i] \in Other
  <2>1. M \in [1 .. Importants -> W]
    OBVIOUS
  <2>2. M \in Seq(W)
    BY <1>1, <2>1, SeqDef
  <2>3. DOMAIN M = 1 .. Importants /\ \A i \in 1 .. Importants : M[i] \in Other
    OBVIOUS
  <2> HIDE DEF M, W, Other
  <2>4. DOMAIN M = 1 .. Len(M) /\ Len(M) \in Nat
    BY <2>2
  <2> QED BY <1>1, <2>2, <2>3, <2>4
<1>4. R \in Seq(W) /\ Len(R) \in Nat /\ \A i \in 1 .. Len(R) : R[i] \in Other
  <2>1. CASE Importants > 0
    <3>1. R = <<Task("report", <<>>)>>
      BY <2>1
    <3> HIDE DEF R
    <3> QED BY <3>1
  <2>2. CASE ~ (Importants > 0)
    <3>1. R = <<>>
      BY <2>2
    <3> HIDE DEF R
    <3> QED BY <3>1
  <2> QED BY <2>1, <2>2
<1>5. D \in Seq(W) /\ Len(D) = 1 /\ \A i \in 1 .. Len(D) : D[i] \in Other
  OBVIOUS
<1>6. \A x \in Other : x.kind # "chunk"
  BY DEF Task
<1> HIDE DEF Other, I, M, R, D
<1>7. Extractions \in Seq(W) /\ Len(Extractions) \in Nat
  <2>1. ChunkSet \subseteq W /\ Extractions \in Seq(ChunkSet)
    BY ExtractionsType
  <2> HIDE DEF W
  <2> QED BY <2>1, SeqMonotonic
<1> HIDE DEF W
<1> DEFINE A == I \o Extractions
           B == A \o M
           C == B \o R
           P == C \o D
<1>8. Plan = P
  BY DEF Plan, I, M, R, D
<1>9. A \in Seq(W) /\ Len(A) = LastReading /\ LastReading \in Nat
  <2>1. A \in Seq(W) /\ Len(A) = Len(I) + Len(Extractions)
    BY <1>2, <1>7, ConcatProperties
  <2> HIDE DEF A
  <2> QED BY <1>1, <1>2, <1>7, <2>1 DEF LastReading
<1> HIDE DEF A
<1>10. /\ B \in Seq(W) /\ Len(B) = LastReading + Len(M)
       /\ \A t \in 1 .. LastReading + Len(M) : B[t] = IF t <= LastReading THEN A[t] ELSE M[t - LastReading]
  BY <1>3, <1>9, ConcatProperties
<1> HIDE DEF B
<1>11. /\ C \in Seq(W) /\ Len(C) = Len(B) + Len(R)
       /\ \A t \in 1 .. Len(B) + Len(R) : C[t] = IF t <= Len(B) THEN B[t] ELSE R[t - Len(B)]
  BY <1>4, <1>10, ConcatProperties
<1> HIDE DEF C
<1>12. /\ P \in Seq(W) /\ Len(P) = Len(C) + Len(D)
       /\ \A t \in 1 .. Len(C) + Len(D) : P[t] = IF t <= Len(C) THEN C[t] ELSE D[t - Len(C)]
  <2>1. C \in Seq(W) /\ D \in Seq(W)
    BY <1>5, <1>11
  <2> QED BY <2>1, ConcatProperties
<1> HIDE DEF P
<1>13. /\ Len(M) \in Nat /\ Len(B) \in Nat /\ Len(C) \in Nat /\ Len(P) \in Nat
       /\ LastReading < Len(P) /\ DOMAIN P = 1 .. Len(P)
  BY <1>1, <1>3, <1>4, <1>5, <1>9, <1>10, <1>11, <1>12
<1>14. ASSUME NEW t \in 1 .. Len(P), t > LastReading PROVE P[t] \in Other
  <2>1. CASE t > Len(C)
    <3>1. t \in 1 .. Len(C) + Len(D) /\ t - Len(C) \in 1 .. Len(D) /\ ~ (t <= Len(C))
      BY <1>5, <1>12, <1>13, <2>1
    <3> QED BY <1>5, <1>12, <3>1
  <2>2. CASE t <= Len(C) /\ t > Len(B)
    <3>1. /\ t \in 1 .. Len(C) + Len(D) /\ t \in 1 .. Len(B) + Len(R)
          /\ t - Len(B) \in 1 .. Len(R) /\ ~ (t <= Len(B))
      BY <1>4, <1>5, <1>11, <1>12, <1>13, <2>2
    <3> QED BY <1>4, <1>11, <1>12, <2>2, <3>1
  <2>3. CASE t <= Len(B)
    <3>1. /\ t \in 1 .. Len(C) + Len(D) /\ t \in 1 .. Len(B) + Len(R) /\ t \in 1 .. LastReading + Len(M)
          /\ t <= Len(C) /\ t - LastReading \in 1 .. Len(M) /\ ~ (t <= LastReading)
      BY <1>4, <1>5, <1>9, <1>10, <1>11, <1>12, <1>13, <1>14, <2>3
    <3> QED BY <1>3, <1>10, <1>11, <1>12, <2>3, <3>1
  <2> QED BY <1>13, <2>1, <2>2, <2>3
<1>15. ChunkTasks \subseteq 1 .. LastReading
  BY <1>6, <1>8, <1>9, <1>13, <1>14 DEF ChunkTasks, Tasks
<1> QED BY <1>8, <1>9, <1>13, <1>15 DEF Tasks

-----------------------------------------------------------------------------
(* The inductive invariant of a complete run.  An answer can be read by    *)
(* the task it is for; the answers the attempt has taken are those of the  *)
(* tasks behind it, none of Codex after one of the fallback; and once the  *)
(* chunks are read the rows are those of their answers.                    *)
Readable(t, reply) ==
  Plan[t].kind = "chunk" => reply = Garbage \/ reply \in Seq(Seq(Nat))

(* The answers count: an attempt is under way or has completed the run. *)
Goes == pc \notin {"idle", "raise"} \/ run = "completed"

AtTask == pc \in {"check", "launch", "register", "wait", "leave", "judge", "read"}

Progress ==
  /\ AtTask => task \in Tasks
  /\ pc = "persist" => task = LastReading + 1
  /\ pc = "finish" \/ run = "completed" => task = Len(Plan) + 1
  /\ run = "completed" => pc = "idle" /\ job = "ended"
  /\ Goes => DOMAIN artifacts = 1 .. task - 1

PointsStored ==
  Goes /\ pc # "persist" /\ task > LastReading /\ LastReading > 0 => stored = PointRows

ArtifactSound(t) ==
  /\ Readable(t, artifacts[t].reply)
  /\ artifacts[t].from = "fallback" =>
       switched /\ (Plan[t].kind = "chunk" => artifacts[t].reply # Garbage)

ArtifactsSound ==
  Goes => /\ \A t \in DOMAIN artifacts : ArtifactSound(t)
          /\ \A t, u \in DOMAIN artifacts :
               t < u /\ artifacts[t].from = "fallback" => artifacts[u].from \in {"fallback", "static"}

(* The process of the task is asked, of the provider the attempt is with. *)
Asked ==
  pc \in {"register", "wait", "leave", "judge", "read"} =>
    procs[proc].task = task /\ procs[proc].by = IF switched THEN "fallback" ELSE "codex"

FilesReadable ==
  DOMAIN files = Tasks /\ \A t \in Tasks : files[t] # None => Readable(t, files[t].reply)

ReadReadable == pc = "read" => Readable(task, files[task].reply)

Over(p) ==
  /\ procs[p].task \in Tasks
  /\ procs[p].alive \/ procs[p].exit \in Exits(procs[p].by) \cup {"killed"}
  /\ procs[p].exit \in {"printed", "answer"} => Readable(procs[p].task, procs[p].reply)

AllOver == \A p \in DOMAIN procs : Over(p)

CInv ==
  /\ Progress /\ PointsStored /\ ArtifactsSound /\ Asked
  /\ FilesReadable /\ ReadReadable /\ AllOver

-----------------------------------------------------------------------------
LEMMA AnswersReadable ==
  ASSUME NEW t, NEW reply \in Answers(t)
  PROVE  Readable(t, reply)
BY AnalysisAssumption DEF Answers, Readable

LEMMA SamePoints ==
  ASSUME UNCHANGED artifacts
  PROVE  PointRows' = PointRows
<1>1. \A t \in ChunkTasks : PointsOf(t)' = PointsOf(t)
  BY DEF PointsOf
<1> QED BY <1>1 DEF PointRows

(* The answers stay, and the worker stays with its task or gives it up. *)
LEMMA AnswersStay ==
  ASSUME CInv, UNCHANGED <<artifacts, task, switched, attempt, stored, run>>,
         pc' \in {"idle", "raise"} \/ pc' = pc \/ (AtTask /\ AtTask'),
         run = "completed" => pc' = "idle" /\ job' = "ended",
         Asked', FilesReadable', ReadReadable', AllOver'
  PROVE  CInv'
<1>1. Goes' => Goes
  BY DEF Goes, AtTask
<1>2. Progress'
  BY <1>1 DEF CInv, Progress, AtTask, Goes
<1>3. PointsStored'
  <2>1. Goes' /\ pc' # "persist" => pc # "persist"
    BY DEF CInv, Progress, Goes, AtTask
  <2> QED BY <1>1, <2>1, SamePoints DEF CInv, PointsStored
<1>4. \A t : ArtifactSound(t)' <=> ArtifactSound(t)
  BY DEF ArtifactSound
<1>5. ArtifactsSound'
  BY <1>1, <1>4 DEF CInv, ArtifactsSound
<1> QED BY <1>2, <1>3, <1>5 DEF CInv

(* The end of a task. *)
LEMMA AnswerTaken ==
  ASSUME CInv, AtTask, NEW output, NEW how, Accept(output, how),
         Readable(task, output.reply),
         how = "fallback" => switched /\ (Plan[task].kind = "chunk" => output.reply # Garbage),
         switched => how \in {"fallback", "static"},
         UNCHANGED <<attempt, stored, run>>, FilesReadable', AllOver'
  PROVE  CInv'
<1> DEFINE new == [attempt |-> output.attempt, reply |-> output.reply, from |-> how]
<1>1. /\ task \in 1 .. Len(Plan) /\ Len(Plan) \in Nat /\ LastReading \in Nat /\ LastReading < Len(Plan)
      /\ Tasks = 1 .. Len(Plan) /\ ChunkTasks \subseteq 1 .. LastReading
  BY PlanFacts DEF CInv, Progress
<1>2. Goes /\ run # "completed" /\ DOMAIN artifacts = 1 .. task - 1 /\ pc # "persist"
  BY DEF CInv, Progress, AtTask, Goes
<1>3. /\ artifacts' = [t \in DOMAIN artifacts \cup {task} |-> IF t = task THEN new ELSE artifacts[t]]
      /\ task' = task + 1 /\ switched' = switched
      /\ pc' = IF task = LastReading THEN "persist" ELSE IF task = Len(Plan) THEN "finish" ELSE "check"
  BY DEF Accept
<1> HIDE DEF new
<1>4. DOMAIN artifacts' = 1 .. task
  BY <1>1, <1>2, <1>3
<1>5. artifacts'[task] = new /\ \A t \in 1 .. task - 1 : artifacts'[t] = artifacts[t] /\ t # task
  BY <1>1, <1>2, <1>3
<1>6. Progress'
  <2>1. pc' = "check" => task + 1 \in Tasks
    BY <1>1, <1>3
  <2>2. task + 1 - 1 = task
    BY <1>1
  <2>3. AtTask' => task' \in Tasks
    BY <1>3, <2>1, PlanFacts DEF AtTask, Tasks
  <2>4. /\ pc' = "persist" => task' = LastReading + 1
        /\ pc' = "finish" => task' = Len(Plan) + 1
    BY <1>3
  <2>5. DOMAIN artifacts' = 1 .. task' - 1
    BY <1>3, <1>4, <2>2
  <2> QED BY <1>2, <2>3, <2>4, <2>5 DEF Progress
<1>7. PointsStored'
  <2> SUFFICES ASSUME task' > LastReading, LastReading > 0, pc' # "persist"
               PROVE  stored' = PointRows'
    BY DEF PointsStored
  <2>1. task > LastReading
    BY <1>1, <1>3
  <2>2. stored = PointRows
    BY <1>2, <2>1 DEF CInv, PointsStored
  <2>3. ASSUME NEW t \in ChunkTasks PROVE PointsOf(t)' = PointsOf(t)
    <3>1. t \in 1 .. task - 1 /\ t \in DOMAIN artifacts'
      BY <1>1, <1>4, <2>1
    <3> QED BY <1>2, <1>5, <3>1 DEF PointsOf
  <2>4. PointRows' = PointRows
    BY <2>3 DEF PointRows
  <2> QED BY <2>2, <2>4
<1>8. ArtifactsSound'
  <2>1. ASSUME NEW t \in 1 .. task - 1 PROVE ArtifactSound(t)'
    BY <1>2, <1>3, <1>5 DEF CInv, ArtifactsSound, ArtifactSound
  <2>2. ASSUME NEW t, t = task PROVE ArtifactSound(t)'
    BY <1>3, <1>5, <2>2 DEF ArtifactSound, new
  <2>3. ASSUME NEW t \in 1 .. task, NEW u \in 1 .. task, t < u, artifacts'[t].from = "fallback"
        PROVE  artifacts'[u].from \in {"fallback", "static"}
    <3>1. t \in 1 .. task - 1
      BY <1>1, <2>3
    <3>2. artifacts[t].from = "fallback"
      BY <1>5, <2>3, <3>1
    <3>3. CASE u = task
      <4>1. switched
        BY <1>2, <3>1, <3>2 DEF CInv, ArtifactsSound, ArtifactSound
      <4> QED BY <1>5, <3>3, <4>1 DEF new
    <3>4. CASE u # task
      <4>1. u \in 1 .. task - 1
        BY <1>1, <3>4
      <4> QED BY <1>2, <1>5, <2>3, <3>1, <3>2, <4>1 DEF CInv, ArtifactsSound
    <3> QED BY <3>3, <3>4
  <2>4. \A t \in 1 .. task : t \in 1 .. task - 1 \/ t = task
    BY <1>1
  <2>5. \A t \in 1 .. task : ArtifactSound(t)'
    BY <2>1, <2>2, <2>4
  <2>6. \A t, u \in 1 .. task :
          t < u /\ artifacts'[t].from = "fallback" => artifacts'[u].from \in {"fallback", "static"}
    BY <2>3
  <2> QED BY <1>4, <2>5, <2>6 DEF ArtifactsSound
<1>9. Asked' /\ ReadReadable'
  BY <1>3 DEF Asked, ReadReadable
<1> QED BY <1>6, <1>7, <1>8, <1>9 DEF CInv

-----------------------------------------------------------------------------
LEMMA BeginKeeps ==
  ASSUME CInv, Begin
  PROVE  CInv'
<1>1. /\ pc' = "check" /\ task' = 1 /\ artifacts' = <<>> /\ run' = "running"
      /\ UNCHANGED <<procs, files>>
  BY DEF Begin
<1>2. LastReading \in Nat /\ 1 \in Tasks
  BY PlanFacts
<1>3. DOMAIN artifacts' = {}
  BY <1>1
<1>4. Progress'
  BY <1>1, <1>2, <1>3 DEF Progress, AtTask
<1>5. PointsStored' /\ Asked' /\ ReadReadable'
  BY <1>1, <1>2 DEF PointsStored, Asked, ReadReadable
<1>6. ArtifactsSound'
  BY <1>3 DEF ArtifactsSound
<1>7. FilesReadable' /\ AllOver'
  BY <1>1 DEF CInv, FilesReadable, AllOver, Over
<1> QED BY <1>4, <1>5, <1>6, <1>7 DEF CInv

LEMMA FileWritten ==
  ASSUME CInv, NEW t \in Tasks, NEW output, files' = [files EXCEPT ![t] = output],
         Readable(t, output.reply)
  PROVE  FilesReadable'
BY DEF CInv, FilesReadable

LEMMA StartTaskKeeps ==
  ASSUME CInv, StartTask
  PROVE  CInv'
<1>1. /\ pc = "check" /\ UNCHANGED <<attempt, procs, stored, run, job>>
  BY DEF StartTask, rows
<1>2. AtTask /\ run # "completed" /\ task \in Tasks
  BY <1>1 DEF AtTask, CInv, Progress
<1>3. AllOver'
  BY <1>1 DEF CInv, AllOver, Over
<1>4. CASE pc' \in {"raise", "launch"} /\ UNCHANGED <<mem, files>>
  <2>1. FilesReadable' /\ ReadReadable' /\ Asked'
    BY <1>4 DEF CInv, FilesReadable, ReadReadable, Asked
  <2>2. pc' = "raise" \/ AtTask'
    BY <1>4 DEF AtTask
  <2> QED BY <1>1, <1>2, <1>3, <1>4, <2>1, <2>2, AnswersStay DEF mem
<1>5. CASE /\ StaticTask
           /\ LET output == Output(IF Plan[task].kind = "chunk" THEN <<>> ELSE Prose)
              IN  Accept(output, "static") /\ files' = [files EXCEPT ![task] = output]
  <2> DEFINE output == Output(IF Plan[task].kind = "chunk" THEN <<>> ELSE Prose)
  <2>1. Accept(output, "static") /\ files' = [files EXCEPT ![task] = output]
    BY <1>5
  <2>2. Readable(task, output.reply)
    BY DEF Readable, Output
  <2> HIDE DEF output
  <2>3. FilesReadable'
    BY <1>2, <2>1, <2>2, FileWritten
  <2> QED BY <1>1, <1>2, <1>3, <2>1, <2>2, <2>3, AnswerTaken
<1> QED BY <1>4, <1>5 DEF StartTask, Raise

LEMMA LaunchKeeps ==
  ASSUME CInv, Launch
  PROVE  CInv'
<1> DEFINE new == Process(IF switched THEN "fallback" ELSE "codex")
<1>1. PICK p \in ProcIds \ DOMAIN procs :
        /\ proc' = p /\ pc = "launch" /\ pc' = "register"
        /\ UNCHANGED <<artifacts, task, switched, attempt, files, stored, run, job>>
        /\ procs' = [q \in DOMAIN procs \cup {p} |-> IF q = p THEN new ELSE procs[q]]
  BY DEF Launch, mem, rows
<1>2. AtTask /\ AtTask' /\ run # "completed" /\ task \in Tasks
  BY <1>1 DEF AtTask, CInv, Progress
<1>3. /\ new.task = task /\ new.by = (IF switched THEN "fallback" ELSE "codex")
      /\ new.alive /\ new.exit = None
  BY DEF Process
<1> HIDE DEF new
<1>4. procs'[p] = new
  BY <1>1
<1>5. Asked'
  BY <1>1, <1>3, <1>4 DEF Asked
<1>6. ASSUME NEW q \in DOMAIN procs' PROVE Over(q)'
  <2>1. CASE q = p
    BY <1>2, <1>3, <1>4, <2>1, AnalysisAssumption DEF Over
  <2>2. CASE q # p
    <3>1. q \in DOMAIN procs /\ procs'[q] = procs[q]
      BY <1>1, <2>2
    <3> QED BY <3>1 DEF CInv, AllOver, Over
  <2> QED BY <2>1, <2>2
<1>7. FilesReadable' /\ ReadReadable' /\ AllOver'
  BY <1>1, <1>6 DEF CInv, FilesReadable, ReadReadable, AllOver
<1> QED BY <1>1, <1>2, <1>5, <1>7, AnswersStay

LEMMA JudgeKeeps ==
  ASSUME IInv, CInv, Judge
  PROVE  CInv'
<1>1. /\ pc = "judge" /\ UNCHANGED <<attempt, stored, run, job>>
      /\ IF pc' = "read" THEN UNCHANGED <<procs, proc>> ELSE procs' = Forgotten(procs, proc)
  BY DEF Judge, rows
<1>2. AtTask /\ run # "completed" /\ task \in Tasks
  BY <1>1 DEF AtTask, CInv, Progress
<1>3. AllOver'
  <2>1. \A q \in DOMAIN procs' : q \in DOMAIN procs /\ procs'[q] = procs[q]
    BY <1>1, ForgottenFacts DEF IInv
  <2> QED BY <2>1 DEF CInv, AllOver, Over
<1>4. /\ proc \in DOMAIN procs /\ ~exited.alive /\ Over(proc)
      /\ exited.task = task /\ exited.by = IF switched THEN "fallback" ELSE "codex"
  <2>1. proc \in DOMAIN procs
    BY <1>1 DEF IInv, Known
  <2> QED BY <1>1, <2>1 DEF IInv, Reaped, ToJudge, CInv, AllOver, Asked, exited
<1>5. UNCHANGED files => FilesReadable'
  BY DEF CInv, FilesReadable
<1>6. CASE pc' = "raise" /\ UNCHANGED <<mem, files>>
  <2>1. Asked' /\ ReadReadable'
    BY <1>6 DEF Asked, ReadReadable
  <2> QED BY <1>1, <1>2, <1>3, <1>5, <1>6, <2>1, AnswersStay DEF mem
<1>7. CASE pc' = "launch" /\ switched' = TRUE /\ UNCHANGED <<task, artifacts, files>>
  <2>1. Goes /\ Goes'
    BY <1>1, <1>7 DEF Goes
  <2>2. Progress' /\ Asked' /\ ReadReadable'
    BY <1>1, <1>2, <1>7, <2>1 DEF CInv, Progress, AtTask, Asked, ReadReadable
  <2>3. PointsStored'
    BY <1>1, <1>7, <2>1, SamePoints DEF CInv, PointsStored
  <2>4. ArtifactsSound'
    BY <1>1, <1>7, <2>1 DEF CInv, ArtifactsSound, ArtifactSound
  <2> QED BY <1>3, <1>5, <1>7, <2>2, <2>3, <2>4 DEF CInv
<1>8. ASSUME Answered, FilesReadable', Readable(task, files'[task].reply)
      PROVE  CInv'
  <2>1. pc' = "read" /\ UNCHANGED <<artifacts, task, switched, procs, proc>>
    BY <1>1, <1>8 DEF Answered, mem
  <2>2. Asked' /\ ReadReadable' /\ AtTask'
    BY <1>1, <1>8, <2>1 DEF CInv, Asked, ReadReadable, Readable, AtTask
  <2> QED BY <1>1, <1>2, <1>3, <1>8, <2>1, <2>2, AnswersStay
<1>9. CASE Answered /\ UNCHANGED files /\ files[task] # None
  <2>1. Readable(task, files[task].reply)
    BY <1>2, <1>9 DEF CInv, FilesReadable
  <2> QED BY <1>5, <1>8, <1>9, <2>1
<1>10. CASE /\ exited.exit \in {"printed", "answer"} /\ Answered
            /\ files' = [files EXCEPT ![task] = Output(exited.reply)]
  <2> DEFINE output == Output(exited.reply)
  <2>1. Readable(task, output.reply)
    BY <1>4, <1>10 DEF Over, Output, exited
  <2>2. files' = [files EXCEPT ![task] = output]
    BY <1>10
  <2> HIDE DEF output
  <2>3. FilesReadable'
    BY <1>2, <2>1, <2>2, FileWritten
  <2>4. files'[task] = output
    BY <1>2, <2>2 DEF CInv, FilesReadable
  <2> QED BY <1>8, <1>10, <2>1, <2>3, <2>4
<1>11. CASE JudgeCodex
  BY <1>6, <1>7, <1>9, <1>10, <1>11 DEF JudgeCodex, Raise, mem
<1>12. CASE JudgeFallback
  <2>1. exited.exit \in {"answer", "transient", "permanent", "killed"}
    BY <1>4, <1>12 DEF JudgeFallback, Over, Exits, exited
  <2> QED BY <1>6, <1>10, <1>12, <2>1 DEF JudgeFallback, Raise
<1> QED BY <1>6, <1>11, <1>12 DEF Judge, Raise

LEMMA ReadAnswerKeeps ==
  ASSUME IInv, CInv, ReadAnswer
  PROVE  CInv'
<1>1. /\ pc = "read" /\ UNCHANGED <<attempt, stored, run, job, files>>
      /\ procs' = Forgotten(procs, proc)
  BY DEF ReadAnswer, rows
<1>2. AtTask /\ run # "completed" /\ task \in Tasks
  BY <1>1 DEF AtTask, CInv, Progress
<1>3. FilesReadable' /\ AllOver'
  <2>1. \A q \in DOMAIN procs' : q \in DOMAIN procs /\ procs'[q] = procs[q]
    BY <1>1, ForgottenFacts DEF IInv
  <2> QED BY <1>1, <2>1 DEF CInv, FilesReadable, AllOver, Over
<1>4. exited.by = IF switched THEN "fallback" ELSE "codex"
  BY <1>1 DEF CInv, Asked, exited
<1>5. CASE pc' = "raise" /\ UNCHANGED mem
  <2>1. Asked' /\ ReadReadable'
    BY <1>5 DEF Asked, ReadReadable
  <2> QED BY <1>1, <1>2, <1>3, <1>5, <2>1, AnswersStay DEF mem
<1>6. CASE /\ ~(exited.by = "fallback" /\ Plan[task].kind = "chunk" /\ Unusable(files[task].reply, task))
           /\ Accept(files[task], Source)
  <2>1. Readable(task, files[task].reply)
    BY <1>1 DEF CInv, ReadReadable
  <2>2. Source = "fallback" => switched /\ (Plan[task].kind = "chunk" => files[task].reply # Garbage)
    <3>1. CASE switched
      BY <1>4, <1>6, <3>1 DEF Unusable
    <3>2. CASE ~switched
      <4>1. exited.exit # "fallback"
        <5>1. proc \in DOMAIN procs /\ ~exited.alive
          BY <1>1 DEF IInv, Known, Reaped, exited
        <5> QED BY <1>4, <3>2, <5>1 DEF CInv, AllOver, Over, Exits, exited
      <4> QED BY <1>4, <3>2, <4>1 DEF Source
    <3> QED BY <3>1, <3>2
  <2>3. switched => Source \in {"fallback", "static"}
    BY <1>4 DEF Source
  <2> QED BY <1>1, <1>2, <1>3, <1>6, <2>1, <2>2, <2>3, AnswerTaken
<1> QED BY <1>5, <1>6 DEF ReadAnswer, Raise

LEMMA PersistKeeps ==
  ASSUME CInv, Persist
  PROVE  CInv'
<1>1. /\ pc = "persist" /\ UNCHANGED <<artifacts, task, switched, attempt, procs, files, run, job>>
  BY DEF Persist, mem
<1>2. run # "completed" /\ task = LastReading + 1 /\ Goes
  BY <1>1 DEF CInv, Progress, Goes
<1>3. FilesReadable' /\ AllOver'
  BY <1>1 DEF CInv, FilesReadable, AllOver, Over
<1>4. CASE pc' = "raise" /\ UNCHANGED stored
  <2>1. Asked' /\ ReadReadable'
    BY <1>4 DEF Asked, ReadReadable
  <2> QED BY <1>1, <1>2, <1>3, <1>4, <2>1, AnswersStay
<1>5. CASE pc' = "check" /\ stored' = PointRows
  <2>1. task \in Tasks
    BY <1>2, PlanFacts
  <2>2. Progress'
    BY <1>1, <1>2, <1>5, <2>1 DEF CInv, Progress, Goes, AtTask
  <2>3. PointsStored' /\ Asked' /\ ReadReadable'
    BY <1>1, <1>5, SamePoints DEF PointsStored, Asked, ReadReadable
  <2>4. \A t : ArtifactSound(t)' <=> ArtifactSound(t)
    BY <1>1 DEF ArtifactSound
  <2>5. ArtifactsSound'
    BY <1>1, <1>2, <2>4 DEF CInv, ArtifactsSound
  <2> QED BY <1>3, <2>2, <2>3, <2>5 DEF CInv
<1> QED BY <1>4, <1>5 DEF Persist, Raise

LEMMA FinishKeeps ==
  ASSUME CInv, Finish
  PROVE  CInv'
<1>1. /\ pc = "finish" /\ UNCHANGED <<artifacts, task, switched, attempt, procs, files, stored>>
  BY DEF Finish, mem
<1>2. run # "completed" /\ task = Len(Plan) + 1 /\ Goes
  BY <1>1 DEF CInv, Progress, Goes
<1>3. FilesReadable' /\ AllOver'
  BY <1>1 DEF CInv, FilesReadable, AllOver, Over
<1>4. CASE pc' = "raise" /\ UNCHANGED run
  <2>1. Asked' /\ ReadReadable'
    BY <1>4 DEF Asked, ReadReadable
  <2> QED BY <1>1, <1>2, <1>3, <1>4, <2>1, AnswersStay
<1>5. CASE pc' = "idle" /\ run' = "completed" /\ job' = "ended"
  <2>1. Progress'
    BY <1>1, <1>2, <1>5 DEF CInv, Progress, Goes, AtTask
  <2>2. PointsStored' /\ Asked' /\ ReadReadable'
    BY <1>1, <1>2, <1>5, SamePoints DEF CInv, PointsStored, Asked, ReadReadable
  <2>3. \A t : ArtifactSound(t)' <=> ArtifactSound(t)
    BY <1>1 DEF ArtifactSound
  <2>4. ArtifactsSound'
    BY <1>1, <1>2, <2>3 DEF CInv, ArtifactsSound
  <2> QED BY <1>3, <2>1, <2>2, <2>4 DEF CInv
<1> QED BY <1>4, <1>5 DEF Finish, Raise

(* The attempt ends without a result, or the server dies. *)
LEMMA AttemptOver ==
  ASSUME CInv, pc' \in {"idle", "raise"}, run' # "completed", UNCHANGED files,
         \A p \in DOMAIN procs' : p \in DOMAIN procs /\ procs'[p] = procs[p]
  PROVE  CInv'
<1>1. ~Goes' /\ ~AtTask' /\ pc' \notin {"persist", "finish"}
  BY DEF Goes, AtTask
<1>2. FilesReadable' /\ AllOver'
  BY DEF CInv, FilesReadable, AllOver, Over
<1> QED BY <1>1, <1>2 DEF CInv, Progress, PointsStored, ArtifactsSound, Asked, ReadReadable

(* The row of the job, the marks of the other threads or the references of *)
(* the worker change; a process may be killed.                             *)
LEMMA AnswersApart ==
  ASSUME CInv, UNCHANGED <<artifacts, task, switched, attempt, stored, run, files, proc>>,
         \/ pc' = pc
         \/ /\ AtTask /\ AtTask' /\ pc' # "read"
            /\ pc' = "launch" \/ pc \notin {"check", "launch"},
         run = "completed" => job' = "ended",
         DOMAIN procs' = DOMAIN procs,
         IInv,
         \A p \in DOMAIN procs :
           /\ procs'[p].task = procs[p].task /\ procs'[p].by = procs[p].by
           /\ Over(p)'
  PROVE  CInv'
<1>1. AllOver'
  BY DEF AllOver
<1>2. FilesReadable' /\ ReadReadable'
  BY DEF CInv, FilesReadable, ReadReadable
<1>3. Asked'
  <2> SUFFICES ASSUME pc' \in {"register", "wait", "leave", "judge", "read"}
               PROVE  procs'[proc].task = task /\ procs'[proc].by = IF switched THEN "fallback" ELSE "codex"
    BY DEF Asked
  <2>1. pc \in {"register", "wait", "leave", "judge", "read"}
    BY DEF AtTask
  <2>2. proc \in DOMAIN procs
    BY <2>1 DEF IInv, Known
  <2> QED BY <2>1, <2>2 DEF CInv, Asked
<1>4. run = "completed" => pc' = "idle" /\ job' = "ended"
  BY DEF CInv, Progress, AtTask
<1> QED BY <1>1, <1>2, <1>3, <1>4, AnswersStay

LEMMA SameProcesses ==
  ASSUME CInv, UNCHANGED procs
  PROVE  /\ DOMAIN procs' = DOMAIN procs
         /\ \A p \in DOMAIN procs :
              procs'[p].task = procs[p].task /\ procs'[p].by = procs[p].by /\ Over(p)'
BY DEF CInv, AllOver, Over

LEMMA ProcessKilled ==
  ASSUME CInv, IInv, NEW q \in DOMAIN procs, procs' = Dead(q)
  PROVE  /\ DOMAIN procs' = DOMAIN procs
         /\ \A p \in DOMAIN procs :
              procs'[p].task = procs[p].task /\ procs'[p].by = procs[p].by /\ Over(p)'
<1>1. /\ DOMAIN procs' = DOMAIN procs /\ \A p \in DOMAIN procs : p # q => procs'[p] = procs[p]
      /\ ~procs'[q].alive /\ procs'[q].exit = "killed"
  BY DeadFacts DEF IInv
<1>2. procs'[q].task = procs[q].task /\ procs'[q].by = procs[q].by
  <2>1. procs[q] \in Processes /\ procs' = [procs EXCEPT ![q] = [[procs[q] EXCEPT !.alive = FALSE] EXCEPT !.exit = "killed"]]
    BY DEF IInv, ProcessTypeOK, Dead
  <2> QED BY <2>1 DEF Processes
<1>3. ASSUME NEW p \in DOMAIN procs PROVE Over(p)'
  <2>1. CASE p = q
    BY <1>1, <1>2, <2>1 DEF CInv, AllOver, Over
  <2>2. CASE p # q
    BY <1>1, <2>2 DEF CInv, AllOver, Over
  <2> QED BY <2>1, <2>2
<1> QED BY <1>1, <1>2, <1>3

LEMMA WaitingKeeps ==
  ASSUME CInv, IInv, Register \/ SeeInterruption \/ SeeExit \/ SeeDeadline \/ Leave
  PROVE  CInv'
<1>1. /\ UNCHANGED <<artifacts, task, switched, attempt, stored, run, files, proc, job>>
      /\ pc \in {"register", "wait", "leave"} /\ pc' \in {"wait", "leave", "judge", "raise"}
      /\ procs' = procs \/ procs' = Dead(proc)
  BY DEF Register, SeeInterruption, SeeExit, SeeDeadline, Leave, mem, rows
<1>2. run # "completed" /\ proc \in DOMAIN procs
  BY <1>1 DEF CInv, Progress, IInv, Known
<1>3. /\ DOMAIN procs' = DOMAIN procs
      /\ \A p \in DOMAIN procs :
           procs'[p].task = procs[p].task /\ procs'[p].by = procs[p].by /\ Over(p)'
  BY <1>1, <1>2, SameProcesses, ProcessKilled
<1>4. CASE pc' # "raise"
  <2>1. AtTask /\ AtTask' /\ pc \notin {"check", "launch"}
    BY <1>1, <1>4 DEF AtTask
  <2> QED BY <1>1, <1>2, <1>3, <2>1, AnswersApart
<1>5. CASE pc' = "raise"
  <2>1. FilesReadable' /\ ReadReadable' /\ AllOver' /\ Asked'
    BY <1>1, <1>3, <1>5 DEF CInv, FilesReadable, ReadReadable, AllOver, Asked
  <2> QED BY <1>1, <1>2, <1>5, <2>1, AnswersStay
<1> QED BY <1>4, <1>5

LEMMA KillKeeps ==
  ASSUME CInv, IInv, CancelKill \/ StopKill
  PROVE  CInv'
<1>1. UNCHANGED <<artifacts, task, switched, attempt, stored, run, files, proc, job, pc>> /\ Kill
  BY DEF CancelKill, StopKill, mem, rows
<1>2. /\ DOMAIN procs' = DOMAIN procs
      /\ \A p \in DOMAIN procs :
           procs'[p].task = procs[p].task /\ procs'[p].by = procs[p].by /\ Over(p)'
  <2>1. CASE UNCHANGED procs
    BY <2>1, SameProcesses
  <2>2. CASE current \in DOMAIN procs /\ procs' = Dead(current)
    BY <2>2, ProcessKilled
  <2> QED BY <1>1, <2>1, <2>2 DEF Kill
<1>3. run = "completed" => job' = "ended"
  BY <1>1 DEF CInv, Progress
<1> QED BY <1>1, <1>2, <1>3, AnswersApart

LEMMA WriteFileKeeps ==
  ASSUME CInv, IInv, NEW p \in DOMAIN procs, WriteFile(p)
  PROVE  CInv'
<1>1. /\ UNCHANGED <<artifacts, task, switched, attempt, stored, run, proc, job, pc>>
      /\ procs' = [procs EXCEPT ![p].wrote = TRUE]
  BY DEF WriteFile, mem, rows
<1>2. PICK reply \in Answers(procs[p].task) :
        files' = [files EXCEPT ![procs[p].task] = [attempt |-> procs[p].attempt, reply |-> reply]]
  BY DEF WriteFile
<1>3. procs[p].task \in Tasks
  BY DEF CInv, AllOver, Over
<1>4. FilesReadable' /\ ReadReadable'
  <2> DEFINE output == [attempt |-> procs[p].attempt, reply |-> reply]
             t == procs[p].task
  <2>1. Readable(t, output.reply)
    BY AnswersReadable
  <2> HIDE DEF output
  <2>2. files' = [files EXCEPT ![t] = output]
    BY <1>2 DEF output
  <2> HIDE DEF t
  <2>3. t \in Tasks
    BY <1>3 DEF t
  <2>4. FilesReadable'
    BY <2>1, <2>2, <2>3, FileWritten
  <2>5. ReadReadable'
    BY <1>1, <2>1, <2>2, <2>3 DEF CInv, FilesReadable, ReadReadable, Readable
  <2> QED BY <2>4, <2>5
<1>5. /\ DOMAIN procs' = DOMAIN procs
      /\ \A q \in DOMAIN procs :
           /\ procs'[q].task = procs[q].task /\ procs'[q].by = procs[q].by
           /\ procs'[q].alive = procs[q].alive /\ procs'[q].exit = procs[q].exit
           /\ procs'[q].reply = procs[q].reply
  BY <1>1 DEF IInv, ProcessTypeOK, Processes
<1>6. AllOver'
  BY <1>5 DEF CInv, AllOver, Over
<1>7. Asked'
  BY <1>1, <1>5 DEF CInv, Asked, IInv, Known
<1>8. run = "completed" => pc' = "idle" /\ job' = "ended"
  BY <1>1 DEF CInv, Progress
<1> QED BY <1>1, <1>4, <1>6, <1>7, <1>8, AnswersStay

LEMMA ExitKeeps ==
  ASSUME CInv, IInv, NEW p \in DOMAIN procs, Exit(p)
  PROVE  CInv'
<1>1. UNCHANGED <<artifacts, task, switched, attempt, stored, run, files, proc, job, pc>>
  BY DEF Exit, mem, rows
<1>2. PICK how \in Exits(procs[p].by) : \E reply \in Answers(procs[p].task) :
        procs' = IF p = proc
                 THEN [procs EXCEPT ![p].alive = FALSE, ![p].exit = how, ![p].reply = reply]
                 ELSE Forgotten(procs, p)
  BY Zenon DEF Exit
<1>3. PICK reply \in Answers(procs[p].task) :
        procs' = IF p = proc
                 THEN [procs EXCEPT ![p].alive = FALSE, ![p].exit = how, ![p].reply = reply]
                 ELSE Forgotten(procs, p)
  BY <1>2
<1>4. run = "completed" => pc' = "idle" /\ job' = "ended"
  BY <1>1 DEF CInv, Progress
<1>5. CASE p = proc
  <2> DEFINE over == [[[procs[p] EXCEPT !.alive = FALSE] EXCEPT !.exit = how] EXCEPT !.reply = reply]
  <2>1. procs[p] \in Processes
    BY DEF IInv, ProcessTypeOK
  <2>2. over.task = procs[p].task /\ over.by = procs[p].by /\ over.exit = how /\ over.reply = reply
    BY <2>1 DEF Processes
  <2>3. procs' = [procs EXCEPT ![p] = over]
    BY <1>3, <1>5
  <2> HIDE DEF over
  <2>4. /\ DOMAIN procs' = DOMAIN procs /\ procs'[p] = over
        /\ \A q \in DOMAIN procs : q # p => procs'[q] = procs[q]
    BY <2>3
  <2>5. Readable(procs[p].task, reply)
    BY AnswersReadable
  <2>6. ASSUME NEW q \in DOMAIN procs
        PROVE  procs'[q].task = procs[q].task /\ procs'[q].by = procs[q].by /\ Over(q)'
    <3>1. CASE q = p
      BY <2>2, <2>4, <2>5, <3>1 DEF CInv, AllOver, Over
    <3>2. CASE q # p
      BY <2>4, <3>2 DEF CInv, AllOver, Over
    <3> QED BY <3>1, <3>2
  <2> QED BY <1>1, <1>4, <2>4, <2>6, AnswersApart
<1>6. CASE p # proc
  <2>1. /\ DOMAIN procs' = DOMAIN procs \ {p}
        /\ \A q \in DOMAIN procs' : procs'[q] = procs[q]
    BY <1>3, <1>6, ForgottenFacts DEF IInv
  <2>2. AllOver' /\ FilesReadable' /\ ReadReadable'
    BY <1>1, <2>1 DEF CInv, AllOver, Over, FilesReadable, ReadReadable
  <2>3. Asked'
    BY <1>1, <1>6, <2>1 DEF CInv, Asked, IInv, Known
  <2> QED BY <1>1, <1>4, <2>2, <2>3, AnswersStay
<1> QED BY <1>5, <1>6

-----------------------------------------------------------------------------
LEMMA InitCInv == Init => CInv
<1> SUFFICES ASSUME Init PROVE CInv
  OBVIOUS
<1>1. pc = "idle" /\ run = "absent" /\ procs = <<>> /\ files = [t \in Tasks |-> None]
  BY DEF Init
<1>2. Progress /\ PointsStored /\ ArtifactsSound /\ Asked
  BY <1>1 DEF Progress, PointsStored, ArtifactsSound, Asked, Goes, AtTask
<1>3. DOMAIN procs = {}
  BY <1>1
<1>4. FilesReadable /\ ReadReadable /\ AllOver
  BY <1>1, <1>3 DEF FilesReadable, ReadReadable, AllOver
<1> QED BY <1>2, <1>4 DEF CInv

LEMMA StepCInv == IInv /\ CInv /\ [Next]_vars => CInv'
<1> SUFFICES ASSUME IInv, CInv, [Next]_vars PROVE CInv'
  OBVIOUS
<1>1. CASE Begin
  BY <1>1, BeginKeeps
<1>2. CASE StartTask
  BY <1>2, StartTaskKeeps
<1>3. CASE Launch
  BY <1>3, LaunchKeeps
<1>4. CASE Register \/ SeeInterruption \/ SeeExit \/ SeeDeadline \/ Leave
  BY <1>4, WaitingKeeps
<1>5. CASE Judge
  BY <1>5, JudgeKeeps
<1>5a. CASE ReadAnswer
  BY <1>5a, ReadAnswerKeeps
<1>6. CASE Persist
  BY <1>6, PersistKeeps
<1>7. CASE Finish
  BY <1>7, FinishKeeps
<1>8. CASE EndAttempt
  <2>1. /\ pc' = "idle" /\ run' \in {"canceled", "failed"} /\ UNCHANGED files
        /\ procs' = [q \in {q \in DOMAIN procs : procs[q].alive} |-> procs[q]]
    BY <1>8 DEF EndAttempt
  <2> QED BY <2>1, AttemptOver
<1>9. CASE Crash
  <2>1. /\ pc' = "idle" /\ pc # "idle" /\ UNCHANGED <<files, run>>
        /\ procs' = [q \in Abandoned |-> procs[q]]
    BY <1>9 DEF Crash, rows
  <2>2. run' # "completed"
    BY <2>1 DEF CInv, Progress
  <2>3. \A p \in DOMAIN procs' : p \in DOMAIN procs /\ procs'[p] = procs[p]
    BY <2>1 DEF Abandoned
  <2> QED BY <2>1, <2>2, <2>3, AttemptOver
<1>10. CASE Sweep \/ Restart \/ RequestCancel \/ Stop \/ UNCHANGED vars
  <2>1. UNCHANGED <<artifacts, task, switched, attempt, stored, run, files, proc, procs, pc>>
    BY <1>10 DEF Sweep, Restart, RequestCancel, Stop, vars, mem, rows
  <2>2. run = "completed" => job' = "ended"
    BY <1>10 DEF Sweep, Restart, RequestCancel, Stop, vars, rows, CInv, Progress
  <2> QED BY <2>1, <2>2, SameProcesses, AnswersApart
<1>11. CASE CancelKill \/ StopKill
  BY <1>11, KillKeeps
<1>12. CASE DatabaseError
  <2>1. /\ pc \in {"check", "register", "wait", "leave", "judge", "persist", "finish"}
        /\ pc' = (IF pc = "wait" THEN "leave" ELSE "raise")
        /\ UNCHANGED <<artifacts, task, switched, attempt, stored, run, job, files, proc, procs>>
    BY <1>12 DEF DatabaseError, mem, rows
  <2>2. run # "completed"
    BY <2>1 DEF CInv, Progress
  <2>3. CASE pc = "wait"
    <3>1. AtTask /\ AtTask'
      BY <2>1, <2>3 DEF AtTask
    <3> QED BY <2>1, <2>2, <2>3, <3>1, SameProcesses, AnswersApart
  <2>4. CASE pc # "wait"
    BY <2>1, <2>2, <2>4, AttemptOver
  <2> QED BY <2>3, <2>4
<1>13. ASSUME NEW p \in DOMAIN procs, WriteFile(p) PROVE CInv'
  BY <1>13, WriteFileKeeps
<1>14. ASSUME NEW p \in DOMAIN procs, Exit(p) PROVE CInv'
  BY <1>14, ExitKeeps
<1> QED
  BY <1>1, <1>2, <1>3, <1>4, <1>5, <1>5a, <1>6, <1>7, <1>8, <1>9, <1>10, <1>11, <1>12, <1>13, <1>14
  DEF Next, Work

LEMMA CInvHolds == Spec => []CInv
<1>1. Init => CInv
  BY InitCInv
<1>2. IInv /\ CInv /\ [Next]_vars => CInv'
  BY StepCInv
<1> QED
  BY <1>1, <1>2, IInvHolds, PTL DEF Spec

-----------------------------------------------------------------------------
(* Whose answers are in the files.  A process of this attempt is the one   *)
(* that is awaited; a file of this attempt answers a task behind, or the   *)
(* task in progress by a Codex that gave an answer or by the fallback.     *)
Awaited == pc \in {"register", "wait", "leave", "judge", "read"}

Gave == procs[proc].wrote \/ (pc = "read" /\ procs[proc].exit = "printed")

AttemptsApart ==
  \A p \in DOMAIN procs :
    /\ procs[p].attempt <= attempt
    /\ Goes /\ procs[p].attempt = attempt => Awaited /\ p = proc

FileOld(t) ==
  /\ files[t].attempt \in Nat /\ files[t].attempt <= attempt
  /\ Goes /\ files[t].attempt = attempt =>
       t < task \/ (t = task /\ (switched \/ (Awaited /\ Gave)))

FilesOld == \A t \in Tasks : files[t] # None => FileOld(t)

ReadOld == pc = "read" => FileOld(task)

QuietOld ==
  Goes => \A t \in DOMAIN artifacts : artifacts[t].from = "quiet" => artifacts[t].attempt < attempt

AInv == AttemptsApart /\ FilesOld /\ ReadOld /\ QuietOld

(* The attempt, its answers and the files stay; processes may end, and the *)
(* worker may give up the one it waits for.                                *)
LEMMA AttemptStands ==
  ASSUME AInv, UNCHANGED <<attempt, files, artifacts, task, switched>>,
         Goes' => Goes,
         DOMAIN procs' \subseteq DOMAIN procs,
         \A p \in DOMAIN procs' :
           procs'[p].attempt = procs[p].attempt /\ procs'[p].wrote = procs[p].wrote,
         Goes' /\ Awaited => Awaited' /\ proc' = proc /\ proc \in DOMAIN procs',
         pc' = "read" => pc = "read" /\ procs'[proc].exit = procs[proc].exit,
         pc = "read" => pc' = "read" \/ ~Goes'
  PROVE  AInv'
<1>1. AttemptsApart'
  BY DEF AInv, AttemptsApart
<1>2. Goes' /\ Awaited /\ Gave => Awaited' /\ Gave'
  BY DEF Gave
<1>3. ASSUME NEW t, FileOld(t) PROVE FileOld(t)'
  BY <1>2, <1>3 DEF FileOld
<1>4. FilesOld'
  BY <1>3 DEF AInv, FilesOld
<1>5. ReadOld'
  BY <1>3 DEF AInv, ReadOld
<1>6. QuietOld'
  BY DEF AInv, QuietOld
<1> QED BY <1>1, <1>4, <1>5, <1>6 DEF AInv

(* The answer to the task is taken. *)
LEMMA AttemptGoesOn ==
  ASSUME AInv, IInv, CInv, AtTask, NEW output, NEW how, Accept(output, how),
         how = "quiet" => output.attempt < attempt,
         UNCHANGED attempt,
         \A p \in DOMAIN procs' : p \in DOMAIN procs /\ procs'[p] = procs[p] /\ (Awaited => p # proc),
         \A t \in Tasks : t # task => files'[t] = files[t],
         files'[task] = files[task] \/ files'[task].attempt = attempt
  PROVE  AInv'
<1> DEFINE new == [attempt |-> output.attempt, reply |-> output.reply, from |-> how]
<1>1. /\ artifacts' = [t \in DOMAIN artifacts \cup {task} |-> IF t = task THEN new ELSE artifacts[t]]
      /\ task' = task + 1 /\ pc' \in {"persist", "finish", "check"}
  BY DEF Accept
<1>2. new.from = how /\ new.attempt = output.attempt
  OBVIOUS
<1> HIDE DEF new
<1>3. Goes /\ attempt \in Nat /\ task \in Nat /\ ~Awaited' /\ Tasks \subseteq Nat
  BY <1>1, PlanFacts DEF AtTask, Goes, IInv, ProcessTypeOK, Awaited
<1>4. AttemptsApart'
  BY <1>3 DEF AInv, AttemptsApart
<1>5. FilesOld'
  <2> SUFFICES ASSUME NEW t \in Tasks, files'[t] # None PROVE FileOld(t)'
    BY DEF FilesOld, Tasks
  <2>1. CASE files'[t] = files[t]
    <3>1. FileOld(t)
      BY <2>1 DEF AInv, FilesOld
    <3>2. t \in Nat
      BY <1>3
    <3>3. files[t].attempt = attempt => t < task + 1
      BY <1>3, <3>1, <3>2 DEF FileOld
    <3> QED BY <1>1, <2>1, <3>1, <3>3 DEF FileOld
  <2>2. CASE t = task /\ files'[t].attempt = attempt
    BY <1>1, <1>3, <2>2 DEF FileOld
  <2> QED BY <2>1, <2>2
<1>6. ReadOld'
  BY <1>1 DEF ReadOld
<1>7. QuietOld'
  <2> SUFFICES ASSUME NEW t \in DOMAIN artifacts', artifacts'[t].from = "quiet"
               PROVE  artifacts'[t].attempt < attempt'
    BY DEF QuietOld
  <2>1. CASE t = task
    BY <1>1, <1>2, <2>1
  <2>2. CASE t # task
    BY <1>1, <1>3, <2>2 DEF AInv, QuietOld
  <2> QED BY <2>1, <2>2
<1> QED BY <1>4, <1>5, <1>6, <1>7 DEF AInv

LEMMA DeadKeeps ==
  ASSUME IInv, NEW q \in DOMAIN procs
  PROVE  /\ DOMAIN Dead(q) = DOMAIN procs
         /\ \A p \in DOMAIN procs :
              Dead(q)[p].attempt = procs[p].attempt /\ Dead(q)[p].wrote = procs[p].wrote
<1>1. DOMAIN Dead(q) = DOMAIN procs /\ \A p \in DOMAIN procs : p # q => Dead(q)[p] = procs[p]
  BY DeadFacts DEF IInv
<1>2. Dead(q)[q].attempt = procs[q].attempt /\ Dead(q)[q].wrote = procs[q].wrote
  <2>1. procs[q] \in Processes /\ Dead(q)[q] = [[procs[q] EXCEPT !.alive = FALSE] EXCEPT !.exit = "killed"]
    BY DEF IInv, ProcessTypeOK, Dead
  <2> QED BY <2>1 DEF Processes
<1> QED BY <1>1, <1>2

LEMMA BeginAttempt ==
  ASSUME AInv, IInv, Begin
  PROVE  AInv'
<1>1. /\ attempt' = attempt + 1 /\ artifacts' = <<>> /\ pc' = "check" /\ UNCHANGED <<procs, files>>
      /\ attempt \in Nat
  BY DEF Begin, IInv, ProcessTypeOK
<1>2. \A p \in DOMAIN procs : procs[p].attempt \in Nat
  BY DEF IInv, ProcessTypeOK, Processes
<1>3. AttemptsApart'
  BY <1>1, <1>2 DEF AInv, AttemptsApart
<1>4. ASSUME NEW t, FileOld(t) PROVE FileOld(t)'
  BY <1>1, <1>4 DEF FileOld
<1>5. FilesOld'
  BY <1>1, <1>4 DEF AInv, FilesOld
<1>6. ReadOld'
  BY <1>1 DEF ReadOld
<1>7. DOMAIN artifacts' = {}
  BY <1>1
<1>8. QuietOld'
  BY <1>7 DEF QuietOld
<1> QED BY <1>3, <1>5, <1>6, <1>8 DEF AInv

LEMMA LaunchAttempt ==
  ASSUME AInv, IInv, Launch
  PROVE  AInv'
<1> DEFINE new == Process(IF switched THEN "fallback" ELSE "codex")
<1>1. PICK p \in ProcIds \ DOMAIN procs :
        /\ proc' = p /\ pc = "launch" /\ pc' = "register"
        /\ UNCHANGED <<artifacts, task, switched, attempt, files>>
        /\ procs' = [q \in DOMAIN procs \cup {p} |-> IF q = p THEN new ELSE procs[q]]
  BY DEF Launch, mem
<1>2. new.attempt = attempt
  BY DEF Process
<1> HIDE DEF new
<1>3. Goes /\ ~Awaited /\ Awaited' /\ attempt \in Nat
  BY <1>1 DEF Goes, Awaited, IInv, ProcessTypeOK
<1>4. AttemptsApart'
  <2> SUFFICES ASSUME NEW q \in DOMAIN procs'
               PROVE  procs'[q].attempt <= attempt /\ (procs'[q].attempt = attempt => q = p)
    BY <1>1, <1>3 DEF AttemptsApart
  <2>1. CASE q = p
    BY <1>1, <1>2, <1>3, <2>1
  <2>2. CASE q # p
    BY <1>1, <1>3, <2>2 DEF AInv, AttemptsApart
  <2> QED BY <2>1, <2>2
<1>5. FilesOld'
  BY <1>1, <1>3 DEF AInv, FilesOld, FileOld
<1>6. ReadOld' /\ QuietOld'
  BY <1>1, <1>3 DEF AInv, ReadOld, QuietOld
<1> QED BY <1>4, <1>5, <1>6 DEF AInv

LEMMA JudgeAttempt ==
  ASSUME AInv, IInv, CInv, Judge
  PROVE  AInv'
<1>1. /\ pc = "judge" /\ UNCHANGED <<attempt, run, task, artifacts>>
      /\ IF pc' = "read" THEN UNCHANGED <<procs, proc>> ELSE procs' = Forgotten(procs, proc)
      /\ pc' \in {"raise", "launch", "read"}
      /\ pc' # "read" => UNCHANGED files
  BY DEF Judge, rows, JudgeCodex, JudgeFallback, Raise, Answered, mem
<1>2. Goes /\ Awaited /\ run # "completed" /\ task \in Tasks /\ attempt \in Nat /\ task \in Nat
  BY <1>1 DEF Goes, Awaited, AtTask, CInv, Progress, IInv, ProcessTypeOK
<1>3. proc \in DOMAIN procs /\ exited.by = IF switched THEN "fallback" ELSE "codex"
  BY <1>1 DEF IInv, Known, CInv, Asked, exited
<1>4. CASE pc' # "read"
  <2>1. \A q \in DOMAIN procs' : q \in DOMAIN procs /\ procs'[q] = procs[q] /\ q # proc
    BY <1>1, <1>4, ForgottenFacts DEF IInv
  <2>2. AttemptsApart'
    BY <1>1, <1>2, <2>1 DEF AInv, AttemptsApart
  <2>3. Goes' => switched'
    BY <1>1, <1>2, <1>4 DEF Goes, Judge, JudgeCodex, JudgeFallback, Raise, Answered
  <2>4. FilesOld'
    BY <1>1, <1>2, <1>4, <2>3 DEF AInv, FilesOld, FileOld
  <2>5. ReadOld' /\ QuietOld'
    BY <1>1, <1>2, <1>4 DEF AInv, ReadOld, QuietOld
  <2> QED BY <2>2, <2>4, <2>5 DEF AInv
<1>5. CASE pc' = "read"
  <2>1. UNCHANGED <<procs, proc, switched>> /\ Awaited' /\ Goes'
    BY <1>1, <1>5 DEF Judge, JudgeCodex, JudgeFallback, Raise, Answered, Awaited, Goes, mem
  <2>2. Gave => Gave'
    BY <1>1, <2>1 DEF Gave
  <2>3. ASSUME NEW t, FileOld(t), files'[t] = files[t] PROVE FileOld(t)'
    BY <1>1, <2>1, <1>2, <2>2, <2>3 DEF FileOld
  <2>4. \/ files[task] # None /\ UNCHANGED files
        \/ /\ files' = [files EXCEPT ![task] = Output(exited.reply)]
           /\ exited.exit = "printed" \/ exited.by = "fallback"
    BY <1>5 DEF Judge, JudgeCodex, JudgeFallback, Raise, Answered
  <2>5. AttemptsApart' /\ QuietOld'
    BY <1>1, <1>2, <2>1 DEF AInv, AttemptsApart, QuietOld
  <2>6. CASE /\ files' = [files EXCEPT ![task] = Output(exited.reply)]
             /\ exited.exit = "printed" \/ exited.by = "fallback"
    <3>1. files'[task].attempt = attempt /\ \A t \in Tasks : t # task => files'[t] = files[t]
      BY <1>2, <2>6 DEF Output, CInv, FilesReadable
    <3>2. switched \/ Gave'
      BY <1>3, <1>5, <2>1, <2>6 DEF Gave, exited
    <3>3. FileOld(task)'
      BY <1>1, <1>2, <2>1, <3>1, <3>2 DEF FileOld
    <3>4. FilesOld'
      BY <1>1, <2>3, <3>1, <3>3 DEF AInv, FilesOld, Tasks
    <3>5. ReadOld'
      BY <1>1, <3>3 DEF ReadOld
    <3> QED BY <2>5, <3>4, <3>5 DEF AInv
  <2>7. CASE files[task] # None /\ UNCHANGED files
    <3>1. FilesOld' /\ ReadOld'
      BY <1>1, <1>2, <2>3, <2>7 DEF AInv, FilesOld, ReadOld
    <3> QED BY <2>5, <3>1 DEF AInv
  <2> QED BY <2>4, <2>6, <2>7
<1> QED BY <1>4, <1>5

LEMMA ReadAttempt ==
  ASSUME AInv, IInv, CInv, ReadAnswer
  PROVE  AInv'
<1>1. /\ pc = "read" /\ UNCHANGED <<attempt, run, files>> /\ procs' = Forgotten(procs, proc)
  BY DEF ReadAnswer, rows
<1>2. Goes /\ AtTask /\ run # "completed" /\ proc \in DOMAIN procs
  BY <1>1 DEF Goes, AtTask, CInv, Progress, IInv, Known
<1>3. \A q \in DOMAIN procs' : q \in DOMAIN procs /\ procs'[q] = procs[q] /\ q # proc
  BY <1>1, ForgottenFacts DEF IInv
<1>4. CASE pc' = "raise" /\ UNCHANGED mem
  <2>1. ~Goes'
    BY <1>1, <1>2, <1>4 DEF Goes
  <2> QED BY <1>1, <1>3, <1>4, <2>1, AttemptStands DEF mem
<1>5. CASE Accept(files[task], Source)
  <2>1. Source = "quiet" => ~switched /\ ~Gave
    <3>1. exited.by = IF switched THEN "fallback" ELSE "codex"
      BY <1>1 DEF CInv, Asked, exited
    <3> QED BY <3>1 DEF Source, Gave, exited
  <2>2. FileOld(task)
    BY <1>1 DEF AInv, ReadOld
  <2>3. attempt \in Nat /\ task \in Nat
    BY DEF IInv, ProcessTypeOK
  <2>4. Source = "quiet" => files[task].attempt < attempt
    BY <1>2, <2>1, <2>2, <2>3 DEF FileOld
  <2> QED BY <1>1, <1>2, <1>3, <1>5, <2>4, AttemptGoesOn
<1> QED BY <1>4, <1>5 DEF ReadAnswer, Raise

LEMMA WriteFileAttempt ==
  ASSUME AInv, IInv, CInv, NEW p \in DOMAIN procs, WriteFile(p)
  PROVE  AInv'
<1>1. /\ UNCHANGED <<artifacts, task, switched, attempt, run, proc, pc>>
      /\ procs' = [procs EXCEPT ![p].wrote = TRUE]
  BY DEF WriteFile, mem, rows
<1>2. PICK reply \in Answers(procs[p].task) :
        files' = [files EXCEPT ![procs[p].task] = [attempt |-> procs[p].attempt, reply |-> reply]]
  BY DEF WriteFile
<1>3. /\ DOMAIN procs' = DOMAIN procs /\ procs'[p].wrote
      /\ \A q \in DOMAIN procs :
           /\ procs'[q].attempt = procs[q].attempt /\ procs'[q].exit = procs[q].exit
           /\ procs[q].wrote => procs'[q].wrote
  BY <1>1 DEF IInv, ProcessTypeOK, Processes
<1>4. procs[p].task \in Tasks /\ procs[p].attempt \in Nat /\ attempt \in Nat /\ Tasks \subseteq Nat
  BY PlanFacts DEF CInv, AllOver, Over, IInv, ProcessTypeOK, Processes
<1>5. AttemptsApart'
  BY <1>1, <1>3 DEF AInv, AttemptsApart, Goes, Awaited
<1>6. Awaited /\ Gave => Awaited' /\ Gave'
  BY <1>1, <1>3 DEF Gave, Awaited, IInv, Known
<1>7. ASSUME NEW t, FileOld(t), files'[t] = files[t] PROVE FileOld(t)'
  BY <1>1, <1>6, <1>7 DEF FileOld, Goes
<1>8. files'[procs[p].task].attempt = procs[p].attempt
  BY <1>2, <1>4 DEF CInv, FilesReadable
<1>9. FileOld(procs[p].task)'
  <2>1. procs[p].attempt <= attempt
    BY DEF AInv, AttemptsApart
  <2>2. ASSUME Goes', procs[p].attempt = attempt
        PROVE  procs[p].task = task /\ Awaited' /\ Gave'
    <3>1. Awaited /\ p = proc
      BY <1>1, <2>2 DEF AInv, AttemptsApart, Goes
    <3> QED BY <1>1, <1>3, <3>1 DEF CInv, Asked, Awaited, Gave
  <2>3. procs'[p].task = procs[p].task
    BY <1>1 DEF IInv, ProcessTypeOK, Processes
  <2> QED BY <1>1, <1>4, <1>8, <2>1, <2>2, <2>3 DEF FileOld
<1>10. procs'[p].task = procs[p].task
  BY <1>1 DEF IInv, ProcessTypeOK, Processes
<1>11. \A t \in Tasks : t # procs[p].task => files'[t] = files[t]
  BY <1>2 DEF CInv, FilesReadable
<1>12. FilesOld'
  BY <1>7, <1>9, <1>10, <1>11 DEF AInv, FilesOld, Tasks
<1>13. ReadOld'
  <2>1. pc = "read" => task \in Tasks
    BY DEF CInv, Progress, AtTask
  <2> QED BY <1>1, <1>7, <1>9, <1>10, <1>11, <2>1 DEF AInv, ReadOld
<1>14. QuietOld'
  BY <1>1 DEF AInv, QuietOld, Goes
<1> QED BY <1>5, <1>12, <1>13, <1>14 DEF AInv

LEMMA InitAInv == Init => AInv
<1> SUFFICES ASSUME Init PROVE AInv
  OBVIOUS
<1>1. pc = "idle" /\ procs = <<>> /\ files = [t \in Tasks |-> None] /\ run = "absent"
  BY DEF Init
<1>2. DOMAIN procs = {} /\ ~Goes /\ \A t \in Tasks : files[t] = None
  BY <1>1 DEF Goes
<1> QED BY <1>1, <1>2 DEF AInv, AttemptsApart, FilesOld, ReadOld, QuietOld

LEMMA StepAInv == IInv /\ CInv /\ AInv /\ [Next]_vars => AInv'
<1> SUFFICES ASSUME IInv, CInv, AInv, [Next]_vars PROVE AInv'
  OBVIOUS
<1>0. /\ run = "completed" => pc = "idle"
      /\ Awaited => Goes /\ proc \in DOMAIN procs
  BY DEF CInv, Progress, Awaited, Goes, IInv, Known
<1>1. CASE Begin
  BY <1>1, BeginAttempt
<1>2. CASE StartTask
  <2>1. pc = "check" /\ UNCHANGED <<attempt, procs, run>>
    BY <1>2 DEF StartTask, rows
  <2>2. CASE pc' \in {"raise", "launch"} /\ UNCHANGED <<mem, files>>
    <3>1. Goes /\ ~Awaited
      BY <2>1 DEF Goes, Awaited
    <3> QED BY <2>1, <2>2, <3>1, AttemptStands DEF mem
  <2>3. CASE LET output == Output(IF Plan[task].kind = "chunk" THEN <<>> ELSE Prose)
             IN  Accept(output, "static") /\ files' = [files EXCEPT ![task] = output]
    <3> DEFINE output == Output(IF Plan[task].kind = "chunk" THEN <<>> ELSE Prose)
    <3>1. output.attempt = attempt /\ Accept(output, "static") /\ files' = [files EXCEPT ![task] = output]
      BY <2>3 DEF Output
    <3> HIDE DEF output
    <3>2. AtTask /\ ~Awaited /\ task \in Tasks
      BY <2>1 DEF AtTask, Awaited, CInv, Progress
    <3>3. files'[task] = output /\ \A t \in Tasks : t # task => files'[t] = files[t]
      BY <3>1, <3>2 DEF CInv, FilesReadable
    <3> QED BY <2>1, <3>1, <3>2, <3>3, AttemptGoesOn
  <2> QED BY <1>2, <2>2, <2>3 DEF StartTask, Raise
<1>3. CASE Launch
  BY <1>3, LaunchAttempt
<1>4. CASE Register \/ SeeInterruption \/ SeeExit \/ SeeDeadline \/ Leave
  <2>1. /\ UNCHANGED <<artifacts, task, switched, attempt, run, files, proc>>
        /\ pc \in {"register", "wait", "leave"} /\ pc' \in {"wait", "leave", "judge", "raise"}
        /\ procs' = procs \/ procs' = Dead(proc)
    BY <1>4 DEF Register, SeeInterruption, SeeExit, SeeDeadline, Leave, mem, rows
  <2>2. Awaited /\ Goes /\ run # "completed"
    BY <1>0, <2>1 DEF Awaited
  <2>3. Goes' => Awaited'
    BY <2>1, <2>2 DEF Goes, Awaited
  <2>4. /\ DOMAIN procs' = DOMAIN procs
        /\ \A p \in DOMAIN procs :
             procs'[p].attempt = procs[p].attempt /\ procs'[p].wrote = procs[p].wrote
    BY <1>0, <2>1, <2>2, DeadKeeps
  <2> QED BY <1>0, <2>1, <2>2, <2>3, <2>4, AttemptStands
<1>5. CASE Judge
  BY <1>5, JudgeAttempt
<1>6. CASE ReadAnswer
  BY <1>6, ReadAttempt
<1>7. CASE Persist \/ Finish
  <2>1. /\ pc \in {"persist", "finish"} /\ pc' \in {"raise", "check", "idle"}
        /\ UNCHANGED <<artifacts, task, switched, attempt, files, procs>>
    BY <1>7 DEF Persist, Finish, Raise, mem
  <2>2. Goes /\ ~Awaited
    BY <2>1 DEF Goes, Awaited
  <2> QED BY <2>1, <2>2, AttemptStands
<1>8. CASE EndAttempt \/ Crash
  <2>1. /\ pc' = "idle" /\ run' # "completed"
    BY <1>0, <1>8 DEF EndAttempt, Crash, rows
  <2>2. UNCHANGED <<artifacts, task, switched, attempt, files>>
    BY <1>8 DEF EndAttempt, Crash, mem
  <2>3. \A p \in DOMAIN procs' : p \in DOMAIN procs /\ procs'[p] = procs[p]
    BY <1>8 DEF EndAttempt, Crash, Abandoned
  <2>4. ~Goes' /\ pc' # "read"
    BY <2>1 DEF Goes
  <2> QED BY <2>2, <2>3, <2>4, AttemptStands
<1>9. CASE Sweep \/ Restart \/ RequestCancel \/ Stop \/ UNCHANGED vars
  <2>1. UNCHANGED <<artifacts, task, switched, attempt, run, files, proc, procs, pc>>
    BY <1>9 DEF Sweep, Restart, RequestCancel, Stop, vars, mem, rows
  <2>2. (Goes' <=> Goes) /\ (Awaited' <=> Awaited)
    BY <2>1 DEF Goes, Awaited
  <2> QED BY <1>0, <2>1, <2>2, AttemptStands
<1>10. CASE CancelKill \/ StopKill
  <2>1. UNCHANGED <<artifacts, task, switched, attempt, run, files, proc, pc>> /\ Kill
    BY <1>10 DEF CancelKill, StopKill, mem, rows
  <2>2. (Goes' <=> Goes) /\ (Awaited' <=> Awaited)
    BY <2>1 DEF Goes, Awaited
  <2>3. CASE UNCHANGED procs
    BY <1>0, <2>1, <2>2, <2>3, AttemptStands
  <2>4. CASE current \in DOMAIN procs /\ procs[current].alive /\ procs' = Dead(current)
    <3>1. /\ DOMAIN procs' = DOMAIN procs
          /\ \A p \in DOMAIN procs :
               procs'[p].attempt = procs[p].attempt /\ procs'[p].wrote = procs[p].wrote
      BY <2>4, DeadKeeps
    <3>2. pc = "read" => procs'[proc] = procs[proc]
      <4> SUFFICES ASSUME pc = "read" PROVE procs'[proc] = procs[proc]
        OBVIOUS
      <4>1. proc \in DOMAIN procs /\ proc # current
        BY <2>4 DEF IInv, Known, Reaped
      <4> QED BY <2>4, <4>1, DeadFacts DEF IInv
    <3> QED BY <1>0, <2>1, <2>2, <3>1, <3>2, AttemptStands
  <2> QED BY <2>1, <2>3, <2>4 DEF Kill
<1>11. CASE DatabaseError
  <2>1. /\ pc' = (IF pc = "wait" THEN "leave" ELSE "raise") /\ pc \notin {"idle", "read"}
        /\ UNCHANGED <<artifacts, task, switched, attempt, run, files, proc, procs>>
    BY <1>11 DEF DatabaseError, mem, rows
  <2>2. (Goes' => Goes) /\ (Goes' /\ Awaited => Awaited')
    BY <1>0, <2>1 DEF Goes, Awaited
  <2> QED BY <1>0, <2>1, <2>2, AttemptStands
<1>12. ASSUME NEW p \in DOMAIN procs, WriteFile(p) PROVE AInv'
  BY <1>12, WriteFileAttempt
<1>13. ASSUME NEW p \in DOMAIN procs, Exit(p) PROVE AInv'
  <2>1. UNCHANGED <<artifacts, task, switched, attempt, run, files, proc, pc>> /\ procs[p].alive
    BY <1>13 DEF Exit, mem, rows
  <2>2. (Goes' <=> Goes) /\ (Awaited' <=> Awaited)
    BY <2>1 DEF Goes, Awaited
  <2>3. pc = "read" => proc # p /\ proc \in DOMAIN procs
    BY <2>1 DEF IInv, Known, Reaped
  <2>4. CASE p # proc /\ procs' = Forgotten(procs, p)
    <3>1. /\ DOMAIN procs' = DOMAIN procs \ {p}
          /\ \A q \in DOMAIN procs' : procs'[q] = procs[q]
      BY <2>4, ForgottenFacts DEF IInv
    <3>2. DOMAIN procs' \subseteq DOMAIN procs /\ (proc \in DOMAIN procs => proc \in DOMAIN procs')
      BY <2>4, <3>1
    <3>3. pc = "read" => procs'[proc].exit = procs[proc].exit
      BY <2>3, <3>1, <3>2
    <3>4. \A q \in DOMAIN procs' :
            procs'[q].attempt = procs[q].attempt /\ procs'[q].wrote = procs[q].wrote
      BY <3>1
    <3> QED BY <1>0, <2>1, <2>2, <3>2, <3>3, <3>4, AttemptStands
  <2>5. CASE p = proc
    <3>0. PICK how \in Exits(procs[p].by) : \E reply \in Answers(procs[p].task) :
            procs' = IF p = proc
                     THEN [procs EXCEPT ![p].alive = FALSE, ![p].exit = how, ![p].reply = reply]
                     ELSE Forgotten(procs, p)
      BY <1>13, Zenon DEF Exit
    <3>1. PICK reply \in Answers(procs[p].task) :
            procs' = [procs EXCEPT ![p].alive = FALSE, ![p].exit = how, ![p].reply = reply]
      BY <2>5, <3>0
    <3> DEFINE over == [[[procs[p] EXCEPT !.alive = FALSE] EXCEPT !.exit = how] EXCEPT !.reply = reply]
    <3>2. over.attempt = procs[p].attempt /\ over.wrote = procs[p].wrote
      BY DEF IInv, ProcessTypeOK, Processes
    <3>3. procs' = [procs EXCEPT ![p] = over]
      BY <3>1 DEF IInv, ProcessTypeOK
    <3> HIDE DEF over
    <3>4. /\ DOMAIN procs' = DOMAIN procs
          /\ \A q \in DOMAIN procs :
               procs'[q].attempt = procs[q].attempt /\ procs'[q].wrote = procs[q].wrote
      BY <3>2, <3>3
    <3> QED BY <1>0, <2>1, <2>2, <2>3, <2>5, <3>4, AttemptStands
  <2> QED BY <1>13, <2>4, <2>5 DEF Exit
<1> QED
  BY <1>1, <1>2, <1>3, <1>4, <1>5, <1>6, <1>7, <1>8, <1>9, <1>10, <1>11, <1>12, <1>13 DEF Next, Work

LEMMA AInvHolds == Spec => []AInv
<1>1. Init => AInv
  BY InitAInv
<1>2. IInv /\ CInv /\ AInv /\ [Next]_vars => AInv'
  BY StepAInv
<1> QED
  BY <1>1, <1>2, IInvHolds, CInvHolds, PTL DEF Spec

-----------------------------------------------------------------------------
RowsOf(t, v) == {<<t, i, v[i]>> : i \in DOMAIN v}

LEMMA RowsOfChunk ==
  ASSUME NEW t \in ChunkTasks
  PROVE  {r \in PointRows : r[1] = t} = RowsOf(t, PointsOf(t))
BY DEF PointRows, RowsOf

(* The stored rows of one task, whose points are the values of v, each once. *)
LEMMA RowsOfPoints ==
  ASSUME NEW t, NEW v, IsInjective(v)
  PROVE  /\ {row[3] : row \in RowsOf(t, v)} = ToSet(v)
         /\ \A r, s \in RowsOf(t, v) : r[3] = s[3] => r = s
<1> DEFINE R == RowsOf(t, v)
<1>0. R = {<<t, i, v[i]>> : i \in DOMAIN v}
  BY DEF RowsOf
<1> HIDE DEF R
<1>1. \A i \in DOMAIN v : <<t, i, v[i]>>[3] = v[i]
  OBVIOUS
<1>2. ASSUME NEW x \in {row[3] : row \in R} PROVE x \in ToSet(v)
  <2>1. PICK row \in R : x = row[3]
    BY <1>2
  <2>2. PICK i \in DOMAIN v : row = <<t, i, v[i]>>
    BY <1>0, <2>1
  <2>3. x = v[i]
    BY <1>1, <2>1, <2>2
  <2> QED BY <2>3 DEF ToSet
<1>3. ASSUME NEW x \in ToSet(v) PROVE x \in {row[3] : row \in R}
  <2>1. PICK i \in DOMAIN v : x = v[i]
    BY <1>3 DEF ToSet
  <2>2. <<t, i, v[i]>> \in R /\ x = <<t, i, v[i]>>[3]
    BY <1>0, <1>1, <2>1
  <2> QED BY <2>2
<1>4. ASSUME NEW r \in R, NEW s \in R, r[3] = s[3] PROVE r = s
  <2>1. PICK i \in DOMAIN v : r = <<t, i, v[i]>>
    BY <1>0
  <2>2. PICK j \in DOMAIN v : s = <<t, j, v[j]>>
    BY <1>0
  <2>3. v[i] = v[j]
    BY <1>1, <1>4, <2>1, <2>2
  <2>4. i = j
    BY <2>3 DEF IsInjective
  <2> QED BY <2>1, <2>2, <2>4
<1>5. {row[3] : row \in R} = ToSet(v)
  BY <1>2, <1>3
<1> QED BY <1>4, <1>5 DEF R

LEMMA CompleteIsSound ==
  ASSUME CInv, AInv
  PROVE  CompleteRun
<1> SUFFICES ASSUME run = "completed" PROVE CompleteRun
  BY DEF CompleteRun
<1>1. /\ LastReading \in Nat /\ Len(Plan) \in Nat /\ LastReading < Len(Plan)
      /\ Tasks = 1 .. Len(Plan) /\ ChunkTasks \subseteq 1 .. LastReading
  BY PlanFacts
<1>2. Goes /\ pc # "persist" /\ task = Len(Plan) + 1 /\ DOMAIN artifacts = 1 .. task - 1
  BY DEF CInv, Progress, Goes
<1>3. DOMAIN artifacts = Tasks
  BY <1>1, <1>2
<1>4. /\ \A t \in Tasks : ArtifactSound(t)
      /\ \A t, u \in Tasks :
           t < u /\ artifacts[t].from = "fallback" => artifacts[u].from \in {"fallback", "static"}
  BY <1>2, <1>3 DEF CInv, ArtifactsSound
<1>5. ASSUME NEW t \in ChunkTasks
      PROVE  /\ {row[3] : row \in {r \in stored : r[1] = t}} =
                  (IF artifacts[t].reply = Garbage THEN {}
                   ELSE {Sources(point, t) : point \in ToSet(artifacts[t].reply)} \ {<<>>})
             /\ \A r, s \in {r \in stored : r[1] = t} : r[3] = s[3] => r = s
             /\ \A r \in stored : r[1] \in ChunkTasks
             /\ artifacts[t].from = "fallback" => artifacts[t].reply # Garbage
  <2>1. t \in Tasks /\ Plan[t].kind = "chunk"
    BY DEF ChunkTasks
  <2>2. LastReading > 0
    BY <1>1
  <2>3. stored = PointRows
    BY <1>1, <1>2, <2>2 DEF CInv, PointsStored
  <2>4. artifacts[t].reply = Garbage \/ artifacts[t].reply \in Seq(Seq(Nat))
    BY <1>4, <2>1 DEF ArtifactSound, Readable
  <2>5. PointsOf(t) = Validated(artifacts[t].reply, t)
    BY <1>3, <2>1 DEF PointsOf
  <2> DEFINE R == {r \in stored : r[1] = t}
  <2>6. R = RowsOf(t, PointsOf(t))
    BY <2>3, RowsOfChunk
  <2>7. /\ IsInjective(PointsOf(t))
        /\ ToSet(PointsOf(t)) =
             IF artifacts[t].reply = Garbage THEN {}
             ELSE {Sources(point, t) : point \in ToSet(artifacts[t].reply)} \ {<<>>}
    <3> DEFINE reply == artifacts[t].reply
    <3>1. reply = Garbage \/ reply \in Seq(Seq(Nat))
      BY <2>4
    <3>2. PointsOf(t) = Validated(reply, t)
      BY <2>5
    <3> HIDE DEF reply
    <3>3. /\ IsInjective(Validated(reply, t))
          /\ ToSet(Validated(reply, t)) =
               IF reply = Garbage THEN {} ELSE {Sources(point, t) : point \in ToSet(reply)} \ {<<>>}
      BY <3>1, ValidatedFacts
    <3>4. /\ IsInjective(PointsOf(t))
          /\ ToSet(PointsOf(t)) =
               IF reply = Garbage THEN {} ELSE {Sources(point, t) : point \in ToSet(reply)} \ {<<>>}
      BY <3>2, <3>3, Zenon
    <3> QED BY <3>4 DEF reply
  <2> HIDE DEF R
  <2>8. {row[3] : row \in R} = ToSet(PointsOf(t)) /\ \A r, s \in R : r[3] = s[3] => r = s
    <3>1. PICK v : v = PointsOf(t)
      OBVIOUS
    <3>2. R = RowsOf(t, v) /\ IsInjective(v)
      BY <2>6, <2>7, <3>1
    <3>3. {row[3] : row \in RowsOf(t, v)} = ToSet(v) /\ \A r, s \in RowsOf(t, v) : r[3] = s[3] => r = s
      BY <3>2, RowsOfPoints
    <3> QED BY <3>1, <3>2, <3>3, Zenon
  <2>9. artifacts[t].from = "fallback" => artifacts[t].reply # Garbage
    BY <1>4, <2>1 DEF ArtifactSound
  <2>10. \A r \in stored : r[1] \in ChunkTasks
    BY <2>3 DEF PointRows
  <2>11. {row[3] : row \in R} =
           (IF artifacts[t].reply = Garbage THEN {}
            ELSE {Sources(point, t) : point \in ToSet(artifacts[t].reply)} \ {<<>>})
    BY <2>7, <2>8, Zenon
  <2> QED BY <2>8, <2>9, <2>10, <2>11, Zenon DEF R
<1>6. ASSUME NEW t \in ChunkTasks, NEW r \in stored, NEW s \in stored, r[1] = s[1], r[3] = s[3]
      PROVE  r = s
  <2>1. r[1] \in ChunkTasks
    BY <1>5
  <2>2. \A x, y \in {row \in stored : row[1] = r[1]} : x[3] = y[3] => x = y
    BY <1>5, <2>1, Zenon
  <2> QED BY <1>6, <2>2
<1>7. \A t \in Tasks : artifacts[t].from = "quiet" => artifacts[t].attempt < attempt
  BY <1>2, <1>3 DEF AInv, QuietOld
<1>8. \A t \in ChunkTasks :
        /\ {row[3] : row \in {r \in stored : r[1] = t}} =
             (IF artifacts[t].reply = Garbage THEN {}
              ELSE {Sources(point, t) : point \in ToSet(artifacts[t].reply)} \ {<<>>})
        /\ \A r, s \in stored : r[1] = s[1] /\ r[3] = s[3] => r = s
        /\ artifacts[t].from = "fallback" => artifacts[t].reply # Garbage
  BY <1>5, <1>6, Zenon
<1> QED BY <1>3, <1>4, <1>7, <1>8, Zenon DEF CompleteRun

(* A completed run has an answer to every task, stores the distinct points *)
(* of the answers taken and none that an earlier attempt stored, does not  *)
(* go back to Codex once the fallback was asked, and takes an answer for   *)
(* that of a silent Codex only from an earlier attempt.                    *)
THEOREM RunsAreComplete == Spec => []CompleteRun
<1>1. CInv /\ AInv => CompleteRun
  BY CompleteIsSound
<1> QED
  BY <1>1, CInvHolds, AInvHolds, PTL
=============================================================================
