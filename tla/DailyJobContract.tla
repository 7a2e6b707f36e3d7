-------------------------- MODULE DailyJobContract --------------------------
(***************************************************************************)
(* What the job queue promises its users, without rows, leases or clocks:  *)
(* a request is open until it ends, at most one worker at a time works on  *)
(* requests that are equivalent, and a request to cancel is never lost.    *)
(* DailyJobRefinement maps DailyJobQueue onto this module.                 *)
(***************************************************************************)
EXTENDS Integers

CONSTANTS Workers, Keys, JobId, NoJob

VARIABLES
  phase,  \* none, open, closing (a cancel was asked for), or how it ended
  key,    \* which requests are equivalent
  held    \* the job each worker works on

contractVars == <<phase, key, held>>

Ended   == {"completed", "failed", "canceled"}
Pending == {"open", "closing"}

Free(j) == \A w \in Workers : held[w] # j

Sole(j, k) == \A i \in JobId \ {j} : key[i] = k => phase[i] \notin Pending

Init ==
  /\ phase = [j \in JobId |-> "none"]
  /\ key \in [JobId -> Keys]
  /\ held = [w \in Workers |-> NoJob]

Submit(j, k) ==
  /\ phase[j] = "none" /\ Sole(j, k)
  /\ phase' = [phase EXCEPT ![j] = "open"]
  /\ key' = [key EXCEPT ![j] = k]
  /\ UNCHANGED held

(* Cancels nobody is left to honour are honoured together. *)
Cleared(S) == [j \in JobId |-> IF j \in S THEN "canceled" ELSE phase[j]]

Clear(S) ==
  /\ \A j \in S : phase[j] = "closing" /\ Free(j)
  /\ phase' = Cleared(S)
  /\ UNCHANGED key

Take(w, j) ==
  /\ held[w] = NoJob /\ phase[j] = "open" /\ Free(j)
  /\ held' = [held EXCEPT ![w] = j]

(* Stopped, crashed, failed by the database, or put off for a retry. *)
LetGo(w) ==
  /\ held[w] # NoJob
  /\ held' = [held EXCEPT ![w] = NoJob]
  /\ UNCHANGED <<phase, key>>

(* A cancel request that raced with the end of the job still opens it, but *)
(* only towards "canceled".                                                *)
AskCancel(j) ==
  /\ phase[j] # "none" /\ Sole(j, key[j])
  /\ phase' = [phase EXCEPT ![j] = "closing"]
  /\ UNCHANGED <<key, held>>

End(w, how) ==
  /\ held[w] # NoJob
  /\ phase' = [phase EXCEPT ![held[w]] = how]
  /\ held' = [held EXCEPT ![w] = NoJob]
  /\ UNCHANGED key

Next ==
  \/ \E j \in JobId, k \in Keys : Submit(j, k)
  \/ \E S \in SUBSET JobId :
       Clear(S) /\ (UNCHANGED held \/ \E w \in Workers, j \in JobId : Take(w, j))
  \/ \E w \in Workers : LetGo(w) \/ \E how \in Ended : End(w, how)
  \/ \E j \in JobId : AskCancel(j)

Spec == Init /\ [][Next]_contractVars
=============================================================================
