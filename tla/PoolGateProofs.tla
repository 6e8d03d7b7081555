--------------------------- MODULE PoolGateProofs ---------------------------
(***************************************************************************)
(* Safety of PoolGate, proved for every finite set of workers and any      *)
(* number of dispatches, pthread failures and spurious wakeups.            *)
(*                                                                         *)
(* The argument in one paragraph.  `pending' is the cardinality of the set *)
(* Owing (PendingCountsOwing), so a caller that reads zero knows that      *)
(* every worker has written this generation (PendingZero); hence nobody is *)
(* inside a callback when dispatch returns 0, and the next dispatch may    *)
(* change the per-frame state (CallerInv).  A worker's private seen_gen    *)
(* lies between the frame it wrote last and the gate's generation          *)
(* (WorkerInv), so an unseen generation is always one it still owes.  The  *)
(* thread records that are no longer `started' are those of threads that   *)
(* are gone (StopInv), and with no failed call threads go only after they  *)
(* have run what was armed (FaultFree).                                    *)
(***************************************************************************)
EXTENDS PoolGate, FiniteSetTheorems, TLAPS

USE DEF gateVars, doneVars, poolVars, budgetVars

\* TypeOK with any integer for `pending': its range needs the count.
Typed ==
  /\ lock \in Workers \cup {Main, NoOne}
  /\ generation \in Nat
  /\ exitReq \in BOOLEAN
  /\ doneLock \in Workers \cup {Main, NoOne}
  /\ pending \in Int
  /\ syncFailed \in BOOLEAN
  /\ wpc \in [Workers -> WorkerPCs]
  /\ seen \in [Workers -> Nat]
  /\ dst \in [Workers -> Nat]
  /\ mpc \in MainPCs
  /\ broken \in BOOLEAN
  /\ closing \in BOOLEAN
  /\ job \in Nat
  /\ started \in SUBSET Workers
  /\ toJoin \in SUBSET Workers
  /\ cancelled \in SUBSET Workers
  /\ faults \in Nat
  /\ spurious \in Nat

\* The caller is inside dispatch, past the generation bump.
DispatchPCs == {"broadcast", "waitAll", "doneLock", "doneCheck", "doneSleep",
                "doneWait", "doneRelock", "timedOut", "recheck"}

\* Nobody owes anything for the current generation.
Quiet == \A w \in Workers : dst[w] = generation /\ wpc[w] # "done"

WorkerInv ==
  \A w \in Workers :
    /\ dst[w] <= seen[w] /\ seen[w] <= generation
    /\ wpc[w] = "run" => dst[w] < generation /\ seen[w] = generation /\ job = generation
    /\ wpc[w] = "done" => dst[w] = generation

\* The per-frame state runs ahead of the generation only between the owner's
\* setup and Arm, or after a dispatch that failed there: nobody is running.
CallerInv ==
  /\ job = generation \/ (job = generation + 1 /\ Quiet)
  /\ mpc \in {"gateLock", "arm"} => job = generation + 1
  /\ mpc = "idle" /\ ~broken => job = generation /\ Quiet
  /\ mpc \in DispatchPCs => job = generation
  /\ mpc \in {"gateLock", "arm"} \cup DispatchPCs => ~broken

StopInv ==
  /\ mpc \in {"exitLock", "exitBroadcast", "join"} => broken \/ closing
  /\ mpc = "freed" => started = {}
  /\ \A w \in Workers \ started : wpc[w] = "gone"

FaultFree ==
  faults = 0 =>
    /\ ~syncFailed
    /\ cancelled = {}
    /\ mpc \in {"gateLock", "arm"} \cup DispatchPCs => ~exitReq
    /\ mpc = "idle" /\ ~broken => ~exitReq
    /\ \A w \in Workers :
         /\ wpc[w] \notin {"report", "reportSignal"}
         /\ wpc[w] # "run" => dst[w] = seen[w]
         /\ wpc[w] = "gone" => exitReq /\ seen[w] = generation

Core == WorkerInv /\ CallerInv /\ StopInv /\ FaultFree

IInv == Typed /\ Core /\ PendingCountsOwing

-----------------------------------------------------------------------------
(* Counting.                                                               *)

\* The number of workers is a natural number, so Arm keeps `pending' one.
LEMMA CardWorkers == Cardinality(Workers) \in Nat
  BY PoolAssumption, FS_CardinalityType

\* The workers that owe a decrement are finitely many, at most all of them.
LEMMA OwingFinite ==
  /\ IsFiniteSet(Owing)
  /\ Cardinality(Owing) \in Nat
  /\ Cardinality(Owing) <= Cardinality(Workers)
  BY PoolAssumption, FS_Subset, FS_CardinalityType DEF Owing

\* What wait_all concludes from reading zero.
LEMMA PendingZero ==
  ASSUME PendingCountsOwing, pending = 0
  PROVE  Quiet
<1>1. Owing = {}
  BY OwingFinite, FS_EmptySet DEF PendingCountsOwing
<1>2. QED
  BY <1>1 DEF Owing, Quiet

-----------------------------------------------------------------------------
(* The inductive invariant.                                                *)

\* The initial state is well typed.
LEMMA TypedInit == Init => Typed
<1> SUFFICES ASSUME Init PROVE Typed
  OBVIOUS
<1>1. wpc \in [Workers -> WorkerPCs] /\ mpc \in MainPCs
  BY DEF Init, WorkerPCs, MainPCs
<1>2. {exitReq, syncFailed, broken, closing} \subseteq BOOLEAN
  BY DEF Init
<1>3. {lock, doneLock} \subseteq Workers \cup {Main, NoOne}
  BY DEF Init
<1>4. /\ {generation, pending, job, faults, spurious} \subseteq Nat
      /\ {seen, dst} \subseteq [Workers -> Nat]
  BY DEF Init
<1>5. {started, toJoin, cancelled} \subseteq SUBSET Workers
  BY DEF Init
<1>6. QED
  BY <1>1, <1>2, <1>3, <1>4, <1>5 DEF Typed

\* A broadcast moves threads between two labels.
LEMMA WakeAllTyped ==
  ASSUME Typed, WakeAll
  PROVE  wpc' \in [Workers -> WorkerPCs]
  BY DEF Typed, WakeAll, WorkerPCs

\* Every step keeps the variables in their types.
LEMMA TypedStep == Typed /\ [Next]_vars => Typed'
<1> SUFFICES ASSUME Typed, [Next]_vars PROVE Typed'
  OBVIOUS
<1> USE CardWorkers, WakeAllTyped DEF Typed, WorkerPCs, MainPCs
<1>1. ASSUME NEW w \in Workers, Boot(w) PROVE Typed'
  BY <1>1 DEF Boot, Step
<1>2. ASSUME NEW w \in Workers, Lock(w) PROVE Typed'
  BY <1>2 DEF Lock, Step
<1>3. ASSUME NEW w \in Workers, CheckWait(w) PROVE Typed'
  BY <1>3 DEF CheckWait, Step
<1>4. ASSUME NEW w \in Workers, CheckGo(w) PROVE Typed'
  BY <1>4 DEF CheckGo, Step, MustWait
<1>5. ASSUME NEW w \in Workers, Sleep(w) PROVE Typed'
  BY <1>5 DEF Sleep, Step
<1>6. ASSUME NEW w \in Workers, CancelWake(w) PROVE Typed'
  BY <1>6 DEF CancelWake, Step
<1>7. ASSUME NEW w \in Workers, CancelExit(w) PROVE Typed'
  BY <1>7 DEF CancelExit, Step
<1>8. ASSUME NEW w \in Workers, Run(w) PROVE Typed'
  BY <1>8 DEF Run, Step
<1>9. ASSUME NEW w \in Workers, WorkerDone(w) PROVE Typed'
  BY <1>9 DEF WorkerDone, Step
<1>10. ASSUME NEW w \in Workers, NotifyLock(w) PROVE Typed'
  BY <1>10 DEF NotifyLock, Step
<1>11. ASSUME NEW w \in Workers, Signal(w) PROVE Typed'
  BY <1>11 DEF Signal, Step, WakeMain
<1>12. ASSUME NEW w \in Workers, ReportSignal(w) PROVE Typed'
  BY <1>12 DEF ReportSignal, Step, WakeMain, Without
<1>13. ASSUME NEW w \in Workers, GateFails(w) PROVE Typed'
  BY <1>13 DEF GateFails, Step, Fault
<1>14. ASSUME NEW w \in Workers, UnlockFails(w) PROVE Typed'
  BY <1>14 DEF UnlockFails, Step, Fault, MustWait
<1>15. ASSUME NEW w \in Workers, SpuriousWake(w) PROVE Typed'
  BY <1>15 DEF SpuriousWake, Step, Spurious
<1>16. ASSUME NEW w \in Workers, NotifyFails(w) PROVE Typed'
  BY <1>16 DEF NotifyFails, Step, Fault, WakeMain, Without
<1>17. ASSUME NEW w \in Workers, ReportFails(w) PROVE Typed'
  BY <1>17 DEF ReportFails, Step, Fault, Without
<1>18. CASE GateLock
  BY <1>18 DEF GateLock, MainGoes
<1>19. CASE Arm
  BY <1>19 DEF Arm, MainGoes
<1>20. CASE Broadcast
  BY <1>20 DEF Broadcast, MainGoes
<1>21. CASE WaitAll
  BY <1>21 DEF WaitAll, Poison
<1>22. CASE DoneLock
  BY <1>22 DEF DoneLock, MainGoes
<1>23. CASE DoneCheck
  BY <1>23 DEF DoneCheck, Poison
<1>24. CASE DoneSleep
  BY <1>24 DEF DoneSleep, MainGoes
<1>25. CASE TimedOut
  BY <1>25 DEF TimedOut, Poison
<1>26. CASE Recheck
  BY <1>26 DEF Recheck, Poison
<1>27. CASE ExitLock
  BY <1>27 DEF ExitLock, MainGoes
<1>28. CASE ExitBroadcast
  BY <1>28 DEF ExitBroadcast, MainGoes
<1>29. CASE StopReturns
  BY <1>29 DEF StopReturns, MainGoes
<1>30. CASE DispatchFails
  BY <1>30 DEF DispatchFails, Fault, Poison, Without
<1>31. CASE BroadcastFails
  BY <1>31 DEF BroadcastFails, Fault, Poison
<1>32. CASE DoneSpuriousWake
  BY <1>32 DEF DoneSpuriousWake, MainGoes, Spurious
<1>33. CASE ExitFails
  BY <1>33 DEF ExitFails, Fault, Without
<1>34. ASSUME NEW w \in Workers, Join(w) PROVE Typed'
  BY <1>34 DEF Join
<1>35. ASSUME NEW w \in Workers, JoinFails(w) PROVE Typed'
  BY <1>35 DEF JoinFails, Fault
<1>36. CASE Timeout
  BY <1>36 DEF Timeout, MainGoes
<1>37. CASE Dispatch
  BY <1>37 DEF Dispatch, MainGoes
<1>38. CASE Close
  BY <1>38 DEF Close, MainGoes
<1>39. CASE Closed \/ UNCHANGED vars
  BY <1>39 DEF Closed, vars
<1>40. QED
  BY <1>1, <1>2, <1>3, <1>4, <1>5, <1>6, <1>7, <1>8, <1>9, <1>10, <1>11, <1>12,
     <1>13, <1>14, <1>15, <1>16, <1>17, <1>18, <1>19, <1>20, <1>21, <1>22, <1>23, <1>24,
     <1>25, <1>26, <1>27, <1>28, <1>29, <1>30, <1>31, <1>32, <1>33, <1>34, <1>35, <1>36,
     <1>37, <1>38, <1>39 DEF Next, WorkerStep, WorkerFault, MainStep, MainFault

\* The parts of the invariant that do not count.
LEMMA CoreStep ==
  Typed /\ Core /\ PendingCountsOwing /\ [Next]_vars => Core'
<1> SUFFICES ASSUME Typed, Core, PendingCountsOwing, [Next]_vars PROVE Core'
  OBVIOUS
<1> USE PendingZero
    DEF Typed, Core, WorkerInv, CallerInv, StopInv, FaultFree, Quiet, DispatchPCs
<1>1. ASSUME NEW w \in Workers, Boot(w) PROVE Core'
  BY <1>1 DEF Boot, Step
<1>2. ASSUME NEW w \in Workers, Lock(w) PROVE Core'
  BY <1>2 DEF Lock, Step
<1>3. ASSUME NEW w \in Workers, CheckWait(w) PROVE Core'
  BY <1>3 DEF CheckWait, Step
<1>4. ASSUME NEW w \in Workers, CheckGo(w) PROVE Core'
  BY <1>4 DEF CheckGo, Step, MustWait
<1>5. ASSUME NEW w \in Workers, Sleep(w) PROVE Core'
  BY <1>5 DEF Sleep, Step
<1>6. ASSUME NEW w \in Workers, CancelWake(w) PROVE Core'
  BY <1>6 DEF CancelWake, Step
<1>7. ASSUME NEW w \in Workers, CancelExit(w) PROVE Core'
  BY <1>7 DEF CancelExit, Step
<1>8. ASSUME NEW w \in Workers, Run(w) PROVE Core'
  BY <1>8 DEF Run, Step
<1>9. ASSUME NEW w \in Workers, WorkerDone(w) PROVE Core'
  BY <1>9 DEF WorkerDone, Step
<1>10. ASSUME NEW w \in Workers, NotifyLock(w) PROVE Core'
  BY <1>10 DEF NotifyLock, Step
<1>11. ASSUME NEW w \in Workers, Signal(w) PROVE Core'
  BY <1>11 DEF Signal, Step, WakeMain
<1>12. ASSUME NEW w \in Workers, ReportSignal(w) PROVE Core'
  BY <1>12 DEF ReportSignal, Step, WakeMain, Without
<1>13. ASSUME NEW w \in Workers, GateFails(w) PROVE Core'
  BY <1>13 DEF GateFails, Step, Fault
<1>14. ASSUME NEW w \in Workers, UnlockFails(w) PROVE Core'
  BY <1>14 DEF UnlockFails, Step, Fault, MustWait
<1>15. ASSUME NEW w \in Workers, SpuriousWake(w) PROVE Core'
  BY <1>15 DEF SpuriousWake, Step, Spurious
<1>16. ASSUME NEW w \in Workers, NotifyFails(w) PROVE Core'
  BY <1>16 DEF NotifyFails, Step, Fault, WakeMain, Without
<1>17. ASSUME NEW w \in Workers, ReportFails(w) PROVE Core'
  BY <1>17 DEF ReportFails, Step, Fault, Without
<1>18. CASE GateLock
  BY <1>18 DEF GateLock, MainGoes
<1>19. CASE Arm
  BY <1>19 DEF Arm, MainGoes
<1>20. CASE Broadcast
  BY <1>20 DEF Broadcast, MainGoes, WakeAll
<1>21. CASE WaitAll
  BY <1>21 DEF WaitAll, Poison
<1>22. CASE DoneLock
  BY <1>22 DEF DoneLock, MainGoes
<1>23. CASE DoneCheck
  BY <1>23 DEF DoneCheck, Poison
<1>24. CASE DoneSleep
  BY <1>24 DEF DoneSleep, MainGoes
<1>25. CASE TimedOut
  BY <1>25 DEF TimedOut, Poison
<1>26. CASE Recheck
  BY <1>26 DEF Recheck, Poison
<1>27. CASE ExitLock
  BY <1>27 DEF ExitLock, MainGoes
<1>28. CASE ExitBroadcast
  BY <1>28 DEF ExitBroadcast, MainGoes, WakeAll
<1>29. CASE StopReturns
  BY <1>29 DEF StopReturns, MainGoes
<1>30. CASE DispatchFails
  BY <1>30 DEF DispatchFails, Fault, Poison, Without
<1>31. CASE BroadcastFails
  BY <1>31 DEF BroadcastFails, Fault, Poison, WakeAll
<1>32. CASE DoneSpuriousWake
  BY <1>32 DEF DoneSpuriousWake, MainGoes, Spurious
<1>33. CASE ExitFails
  BY <1>33 DEF ExitFails, Fault, WakeAll, Without
<1>34. ASSUME NEW w \in Workers, Join(w) PROVE Core'
  BY <1>34 DEF Join
<1>35. ASSUME NEW w \in Workers, JoinFails(w) PROVE Core'
  BY <1>35 DEF JoinFails, Fault
<1>36. CASE Timeout
  BY <1>36 DEF Timeout, MainGoes
<1>37. CASE Dispatch
  BY <1>37 DEF Dispatch, MainGoes
<1>38. CASE Close
  BY <1>38 DEF Close, MainGoes
<1>39. CASE Closed \/ UNCHANGED vars
  BY <1>39 DEF Closed, vars
<1>40. QED
  BY <1>1, <1>2, <1>3, <1>4, <1>5, <1>6, <1>7, <1>8, <1>9, <1>10, <1>11, <1>12,
     <1>13, <1>14, <1>15, <1>16, <1>17, <1>18, <1>19, <1>20, <1>21, <1>22, <1>23, <1>24,
     <1>25, <1>26, <1>27, <1>28, <1>29, <1>30, <1>31, <1>32, <1>33, <1>34, <1>35, <1>36,
     <1>37, <1>38, <1>39 DEF Next, WorkerStep, WorkerFault, MainStep, MainFault

\* A step that moves no worker into or out of Owing, and leaves `pending'
\* alone, keeps the count.
LEMMA SameOwing ==
  ASSUME PendingCountsOwing, Owing' = Owing, pending' = pending
  PROVE  PendingCountsOwing'
  BY DEF PendingCountsOwing

\* The count is kept: Arm makes everybody owe, a decrement removes exactly
\* the worker that made it, and no other step changes who owes.
LEMMA OwingStep ==
  Typed /\ Core /\ PendingCountsOwing /\ [Next]_vars => PendingCountsOwing'
<1> SUFFICES ASSUME Typed, Core, PendingCountsOwing, [Next]_vars
             PROVE  PendingCountsOwing'
  OBVIOUS
<1> USE SameOwing DEF Typed, Owing
<1>1. ASSUME NEW w \in Workers, Boot(w) PROVE PendingCountsOwing'
  BY <1>1 DEF Boot, Step
<1>2. ASSUME NEW w \in Workers, Lock(w) PROVE PendingCountsOwing'
  BY <1>2 DEF Lock, Step
<1>3. ASSUME NEW w \in Workers, CheckWait(w) PROVE PendingCountsOwing'
  BY <1>3 DEF CheckWait, Step
<1>4. ASSUME NEW w \in Workers, CheckGo(w) PROVE PendingCountsOwing'
  BY <1>4 DEF CheckGo, Step, MustWait
<1>5. ASSUME NEW w \in Workers, Sleep(w) PROVE PendingCountsOwing'
  BY <1>5 DEF Sleep, Step
<1>6. ASSUME NEW w \in Workers, CancelWake(w) PROVE PendingCountsOwing'
  BY <1>6 DEF CancelWake, Step
<1>7. ASSUME NEW w \in Workers, CancelExit(w) PROVE PendingCountsOwing'
  BY <1>7 DEF CancelExit, Step
<1>8. ASSUME NEW w \in Workers, Run(w) PROVE PendingCountsOwing'
  <2>1. Owing' = Owing
    BY <1>8 DEF Run, Step, Core, WorkerInv
  <2>2. QED
    BY <1>8, <2>1 DEF Run
<1>9. ASSUME NEW w \in Workers, WorkerDone(w) PROVE PendingCountsOwing'
  <2>1. w \in Owing /\ Owing' = Owing \ {w}
    BY <1>9 DEF WorkerDone, Step, Core, WorkerInv
  <2>2. Cardinality(Owing \ {w}) = Cardinality(Owing) - 1
    BY <2>1, OwingFinite, FS_RemoveElement
  <2>3. QED
    BY <1>9, <2>1, <2>2 DEF WorkerDone, PendingCountsOwing
<1>10. ASSUME NEW w \in Workers, NotifyLock(w) PROVE PendingCountsOwing'
  BY <1>10 DEF NotifyLock, Step
<1>11. ASSUME NEW w \in Workers, Signal(w) PROVE PendingCountsOwing'
  BY <1>11 DEF Signal, Step, WakeMain
<1>12. ASSUME NEW w \in Workers, ReportSignal(w) PROVE PendingCountsOwing'
  BY <1>12 DEF ReportSignal, Step, WakeMain, Without
<1>13. ASSUME NEW w \in Workers, GateFails(w) PROVE PendingCountsOwing'
  BY <1>13 DEF GateFails, Step, Fault
<1>14. ASSUME NEW w \in Workers, UnlockFails(w) PROVE PendingCountsOwing'
  BY <1>14 DEF UnlockFails, Step, Fault, MustWait
<1>15. ASSUME NEW w \in Workers, SpuriousWake(w) PROVE PendingCountsOwing'
  BY <1>15 DEF SpuriousWake, Step, Spurious
<1>16. ASSUME NEW w \in Workers, NotifyFails(w) PROVE PendingCountsOwing'
  BY <1>16 DEF NotifyFails, Step, Fault, WakeMain, Without
<1>17. ASSUME NEW w \in Workers, ReportFails(w) PROVE PendingCountsOwing'
  BY <1>17 DEF ReportFails, Step, Fault, Without
<1>18. CASE GateLock
  BY <1>18 DEF GateLock, MainGoes
<1>19. CASE Arm
  <2>1. Owing' = Workers
    BY <1>19 DEF Arm, MainGoes, Core, WorkerInv, CallerInv, Quiet
  <2>2. QED
    BY <1>19, <2>1 DEF Arm, PendingCountsOwing
<1>20. CASE Broadcast
  BY <1>20 DEF Broadcast, MainGoes, WakeAll
<1>21. CASE WaitAll
  BY <1>21 DEF WaitAll, Poison
<1>22. CASE DoneLock
  BY <1>22 DEF DoneLock, MainGoes
<1>23. CASE DoneCheck
  BY <1>23 DEF DoneCheck, Poison
<1>24. CASE DoneSleep
  BY <1>24 DEF DoneSleep, MainGoes
<1>25. CASE TimedOut
  BY <1>25 DEF TimedOut, Poison
<1>26. CASE Recheck
  BY <1>26 DEF Recheck, Poison
<1>27. CASE ExitLock
  BY <1>27 DEF ExitLock, MainGoes
<1>28. CASE ExitBroadcast
  BY <1>28 DEF ExitBroadcast, MainGoes, WakeAll
<1>29. CASE StopReturns
  BY <1>29 DEF StopReturns, MainGoes
<1>30. CASE DispatchFails
  BY <1>30 DEF DispatchFails, Fault, Poison, Without
<1>31. CASE BroadcastFails
  BY <1>31 DEF BroadcastFails, Fault, Poison, WakeAll
<1>32. CASE DoneSpuriousWake
  BY <1>32 DEF DoneSpuriousWake, MainGoes, Spurious
<1>33. CASE ExitFails
  BY <1>33 DEF ExitFails, Fault, WakeAll, Without
<1>34. ASSUME NEW w \in Workers, Join(w) PROVE PendingCountsOwing'
  BY <1>34 DEF Join
<1>35. ASSUME NEW w \in Workers, JoinFails(w) PROVE PendingCountsOwing'
  BY <1>35 DEF JoinFails, Fault
<1>36. CASE Timeout
  BY <1>36 DEF Timeout, MainGoes
<1>37. CASE Dispatch
  BY <1>37 DEF Dispatch, MainGoes
<1>38. CASE Close
  BY <1>38 DEF Close, MainGoes
<1>39. CASE Closed \/ UNCHANGED vars
  BY <1>39 DEF Closed, vars
<1>40. QED
  BY <1>1, <1>2, <1>3, <1>4, <1>5, <1>6, <1>7, <1>8, <1>9, <1>10, <1>11, <1>12,
     <1>13, <1>14, <1>15, <1>16, <1>17, <1>18, <1>19, <1>20, <1>21, <1>22, <1>23, <1>24,
     <1>25, <1>26, <1>27, <1>28, <1>29, <1>30, <1>31, <1>32, <1>33, <1>34, <1>35, <1>36,
     <1>37, <1>38, <1>39 DEF Next, WorkerStep, WorkerFault, MainStep, MainFault

\* The strengthened invariant holds in every reachable state.
THEOREM Inductive == Spec => []IInv
<1>1. Init => IInv
  <2> SUFFICES ASSUME Init PROVE IInv
    OBVIOUS
  <2>1. Typed
    BY TypedInit
  <2>2. Core
    BY DEF Init, Core, WorkerInv, CallerInv, StopInv, FaultFree, Quiet, DispatchPCs
  <2>3. Owing = {}
    BY DEF Init, Owing
  <2>4. PendingCountsOwing
    BY <2>3, FS_EmptySet DEF Init, PendingCountsOwing
  <2>5. QED
    BY <2>1, <2>2, <2>4 DEF IInv
<1>2. IInv /\ [Next]_vars => IInv'
  BY TypedStep, CoreStep, OwingStep DEF IInv
<1>3. QED
  BY <1>1, <1>2, PTL DEF Spec

-----------------------------------------------------------------------------
(* What it means for the users of the gate.                                *)

\* Every variable keeps its type, and `pending' stays between zero and the
\* number of workers: no worker decrements twice.
THEOREM TypeCorrect == Spec => []TypeOK
<1>1. IInv => TypeOK
  <2> SUFFICES ASSUME IInv PROVE TypeOK
    OBVIOUS
  <2>1. pending \in 0..Cardinality(Workers)
    BY CardWorkers, OwingFinite DEF IInv, PendingCountsOwing
  <2>2. QED
    BY <2>1 DEF IInv, Typed, TypeOK
<1>2. QED
  BY <1>1, Inductive, PTL

\* `pending' is the number of workers that still owe this generation.
THEOREM Counting == Spec => []PendingCountsOwing
<1>1. IInv => PendingCountsOwing
  BY DEF IInv
<1>2. QED
  BY <1>1, Inductive, PTL

\* A dispatch that returned 0 left a complete picture that nobody writes.
THEOREM PublishedComplete == Spec => []PublishedFrameComplete
<1>1. IInv => PublishedFrameComplete
  BY DEF IInv, Typed, Core, WorkerInv, CallerInv, Quiet, PublishedFrameComplete
<1>2. QED
  BY <1>1, Inductive, PTL

\* A callback never runs on a frame its worker has already written, nor on
\* the state of another frame.
THEOREM NeverStale == Spec => []NoStaleRun
<1>1. IInv => NoStaleRun
  BY DEF IInv, Core, WorkerInv, NoStaleRun
<1>2. QED
  BY <1>1, Inductive, PTL

\* No thread is left when the gate and the thread records are freed.
THEOREM FreedGone == Spec => []FreedMeansGone
<1>1. IInv => FreedMeansGone
  BY DEF IInv, Core, StopInv, FreedMeansGone
<1>2. QED
  BY <1>1, Inductive, PTL

\* As long as no call fails, a reaped thread has run all that was armed.
THEOREM ReapedFinished == Spec => []ReapedFinishedFrame
<1>1. IInv => ReapedFinishedFrame
  BY DEF IInv, Typed, Core, StopInv, FaultFree, ReapedFinishedFrame
<1>2. QED
  BY <1>1, Inductive, PTL
-----------------------------------------------------------------------------
(* The refinement.                                                         *)

BarrierStep == [Barrier!Next]_(Barrier!fbVars)

\* Every step of the gate is one of FrameBarrier's or changes nothing that
\* FrameBarrier sees.  Arm lends the picture, CheckGo begins and Run finishes
\* a part, the last load of wait_all takes the picture back.
LEMMA StepRefines ==
  IInv /\ [Next]_vars => BarrierStep
<1> SUFFICES ASSUME Typed, Core, PendingCountsOwing, [Next]_vars PROVE BarrierStep
  BY DEF IInv
<1> USE DEF Typed, Core, WorkerInv, CallerInv, StopInv, Quiet, DispatchPCs, MainPCs,
            BarrierStep, BarrierPhase, Barrier!fbVars, Barrier!Next, Barrier!Dispatch,
            Barrier!Begin, Barrier!Finish, Barrier!Complete, Barrier!Retire,
            Barrier!Reap, Barrier!Leak
<1>1. ASSUME NEW w \in Workers, Boot(w) PROVE BarrierStep
  BY <1>1 DEF Boot, Step
<1>2. ASSUME NEW w \in Workers, Lock(w) PROVE BarrierStep
  BY <1>2 DEF Lock, Step
<1>3. ASSUME NEW w \in Workers, CheckWait(w) PROVE BarrierStep
  BY <1>3 DEF CheckWait, Step
<1>4. ASSUME NEW w \in Workers, CheckGo(w) PROVE BarrierStep
  BY <1>4 DEF CheckGo, Step, MustWait
<1>5. ASSUME NEW w \in Workers, Sleep(w) PROVE BarrierStep
  BY <1>5 DEF Sleep, Step
<1>6. ASSUME NEW w \in Workers, CancelWake(w) PROVE BarrierStep
  BY <1>6 DEF CancelWake, Step
<1>7. ASSUME NEW w \in Workers, CancelExit(w) PROVE BarrierStep
  BY <1>7 DEF CancelExit, Step
<1>8. ASSUME NEW w \in Workers, Run(w) PROVE BarrierStep
  BY <1>8 DEF Run, Step
<1>9. ASSUME NEW w \in Workers, WorkerDone(w) PROVE BarrierStep
  BY <1>9 DEF WorkerDone, Step
<1>10. ASSUME NEW w \in Workers, NotifyLock(w) PROVE BarrierStep
  BY <1>10 DEF NotifyLock, Step
<1>11. ASSUME NEW w \in Workers, Signal(w) PROVE BarrierStep
  BY <1>11 DEF Signal, Step, WakeMain
<1>12. ASSUME NEW w \in Workers, ReportSignal(w) PROVE BarrierStep
  BY <1>12 DEF ReportSignal, Step, WakeMain, Without
<1>13. ASSUME NEW w \in Workers, GateFails(w) PROVE BarrierStep
  BY <1>13 DEF GateFails, Step, Fault
<1>14. ASSUME NEW w \in Workers, UnlockFails(w) PROVE BarrierStep
  BY <1>14 DEF UnlockFails, Step, Fault, MustWait
<1>15. ASSUME NEW w \in Workers, SpuriousWake(w) PROVE BarrierStep
  BY <1>15 DEF SpuriousWake, Step, Spurious
<1>16. ASSUME NEW w \in Workers, NotifyFails(w) PROVE BarrierStep
  BY <1>16 DEF NotifyFails, Step, Fault, WakeMain, Without
<1>17. ASSUME NEW w \in Workers, ReportFails(w) PROVE BarrierStep
  BY <1>17 DEF ReportFails, Step, Fault, Without
<1>18. CASE GateLock
  BY <1>18 DEF GateLock, MainGoes
<1>19. CASE Arm
  BY <1>19 DEF Arm, MainGoes
<1>20. CASE Broadcast
  BY <1>20 DEF Broadcast, MainGoes, WakeAll
<1>21. CASE WaitAll
  BY <1>21 DEF WaitAll, Poison
<1>22. CASE DoneLock
  BY <1>22 DEF DoneLock, MainGoes
<1>23. CASE DoneCheck
  BY <1>23 DEF DoneCheck, Poison
<1>24. CASE DoneSleep
  BY <1>24 DEF DoneSleep, MainGoes
<1>25. CASE TimedOut
  BY <1>25 DEF TimedOut, Poison
<1>26. CASE Recheck
  <2>1. ASSUME pending = 0 PROVE Quiet
    BY <2>1, PendingZero
  <2>2. ASSUME pending = 0
        PROVE  /\ {w \in Workers : dst[w] = generation} = Workers
               /\ {w \in Workers : wpc[w] = "run"} = {}
    BY <2>1, <2>2
  <2>3. CASE pending = 0 /\ ~syncFailed
    BY <1>26, <2>2, <2>3 DEF Recheck
  <2>4. CASE ~(pending = 0 /\ ~syncFailed)
    BY <1>26, <2>4 DEF Recheck, Poison
  <2>5. QED
    BY <2>3, <2>4
<1>27. CASE ExitLock
  BY <1>27 DEF ExitLock, MainGoes
<1>28. CASE ExitBroadcast
  BY <1>28 DEF ExitBroadcast, MainGoes, WakeAll
<1>29. CASE StopReturns
  BY <1>29 DEF StopReturns, MainGoes
<1>30. CASE DispatchFails
  BY <1>30 DEF DispatchFails, Fault, Poison, Without
<1>31. CASE BroadcastFails
  BY <1>31 DEF BroadcastFails, Fault, Poison, WakeAll
<1>32. CASE DoneSpuriousWake
  BY <1>32 DEF DoneSpuriousWake, MainGoes, Spurious
<1>33. CASE ExitFails
  BY <1>33 DEF ExitFails, Fault, WakeAll, Without
<1>34. ASSUME NEW w \in Workers, Join(w) PROVE BarrierStep
  BY <1>34 DEF Join
<1>35. ASSUME NEW w \in Workers, JoinFails(w) PROVE BarrierStep
  BY <1>35 DEF JoinFails, Fault
<1>36. CASE Timeout
  BY <1>36 DEF Timeout, MainGoes
<1>37. CASE Dispatch
  BY <1>37 DEF Dispatch, MainGoes
<1>38. CASE Close
  BY <1>38 DEF Close, MainGoes
<1>39. CASE Closed \/ UNCHANGED vars
  BY <1>39 DEF Closed, vars
<1>40. QED
  BY <1>1, <1>2, <1>3, <1>4, <1>5, <1>6, <1>7, <1>8, <1>9, <1>10, <1>11, <1>12, <1>13,
     <1>14, <1>15, <1>16, <1>17, <1>18, <1>19, <1>20, <1>21, <1>22, <1>23, <1>24, <1>25,
     <1>26, <1>27, <1>28, <1>29, <1>30, <1>31, <1>32, <1>33, <1>34, <1>35, <1>36, <1>37,
     <1>38, <1>39 DEF Next, WorkerStep, WorkerFault, MainStep, MainFault

\* The gate implements the barrier it promises to the owners of a pool.
THEOREM Refinement == Spec => ImplementsBarrier
<1>1. Init => Barrier!Init
  BY DEF Init, Barrier!Init, BarrierPhase
<1>2. QED
  BY <1>1, Inductive, StepRefines, PTL
     DEF Spec, ImplementsBarrier, Barrier!Spec, BarrierStep

\* Without a failed call, only a dispatch some worker has not finished
\* poisons the pool.
THEOREM LatePoisons == Spec => OnlyLatePoisons
<1> DEFINE Late == ~broken /\ broken' /\ faults' = 0 => pending # 0
<1>1. IInv /\ [Next]_vars => [Late]_vars
  <2> SUFFICES ASSUME Typed, Core, [Next]_vars, ~broken, broken', faults' = 0
               PROVE  pending # 0
    BY DEF IInv
  <2> USE DEF Typed, Core, FaultFree, DispatchPCs
  <2>1. faults = 0 => ~syncFailed
    OBVIOUS
  <2>2. CASE WaitAll
    BY <2>1, <2>2 DEF WaitAll
  <2>3. CASE DoneCheck
    BY <2>1, <2>3 DEF DoneCheck
  <2>4. CASE TimedOut
    BY <2>4 DEF TimedOut
  <2>5. CASE Recheck
    BY <2>1, <2>5 DEF Recheck
  <2>6. ~Fault
    BY DEF Fault
  <2>7. ASSUME UNCHANGED broken PROVE FALSE
    BY <2>7
  <2>8. QED
    BY <2>2, <2>3, <2>4, <2>5, <2>6, <2>7
       DEF Next, WorkerStep, WorkerFault, MainStep, MainFault, vars,
           Boot, Lock, CheckWait, CheckGo, Sleep, CancelWake, CancelExit, Run, WorkerDone,
           NotifyLock, Signal, ReportSignal, GateFails, UnlockFails, SpuriousWake,
           NotifyFails, ReportFails, GateLock, Arm, Broadcast, DoneLock, DoneSleep,
           ExitLock, ExitBroadcast, Join, StopReturns, DispatchFails, BroadcastFails,
           DoneSpuriousWake, ExitFails, JoinFails, Timeout, Dispatch, Close, Closed
<1>2. QED
  BY <1>1, Inductive, PTL DEF Spec, OnlyLatePoisons
=============================================================================
