-------------------------- MODULE WorkerPoolProofs --------------------------
(***************************************************************************)
(* Safety of WorkerPool, proved for pools of any size, both owners, and    *)
(* every order of failed starts, frames, poisons, failed joins and the     *)
(* final destroy.                                                          *)
(*                                                                         *)
(* The argument in one paragraph.  A slot is constructed exactly when its  *)
(* index is below Top, the count the unwinding code would use (SlotInv),   *)
(* so releasing the slots below the count releases each once.  A living    *)
(* thread is still marked `started', which is what keeps retire and        *)
(* destroy from releasing anything under it (ThreadInv).  While a dispatch *)
(* waits, every worker of the partition owes its part or has written it    *)
(* (FrameInv), so one that returns 0 with nobody owing has the whole       *)
(* frame.  StartInv says what the lazy state means at each point: above    *)
(* all, that a pool is used only if its partition is over the workers      *)
(* that came up.                                                           *)
(***************************************************************************)
EXTENDS WorkerPool, TLAPS

USE WorkerPoolAssumption DEF configVars, startVars, gateVars, stopVars, vars, Slots, Storage

\* The slots the pool would have to unwind now.
Top == IF pc = "build" THEN built ELSE nWorkers

\* Nothing was built: before the first frame, or during its set-up.
Unstarted == pc = "setup" \/ (pc = "idle" /\ ~lazyDone /\ ~lazyFailed)

Stopping(caller) == pc \in {"stop", "join"} /\ why = caller

SlotInv ==
  /\ \A i \in Slots : slot[i] # "misused"
  /\ HasRelease => \A i \in Slots : slot[i] = "built" <=> i < Top

ThreadInv ==
  /\ \A i \in Slots : Alive(i) => /\ i \in started
                                  /\ i < Top
                                  /\ slot[i] = "built"
                                  /\ held = Storage
  /\ \A i \in Slots : thread[i] = "running" => i \in owes
  /\ pc = "join" /\ ~joinFailed => started \subseteq toJoin

StartInv ==
  /\ Unstarted => started = {} /\ nWorkers = 0 /\ owes = {}
  /\ pc = "build" => held = Needed /\ inlineRun = (nPref = 1) /\ owes = {}
  /\ inlineRun => nPref = 1 /\ owes = {}
  /\ pc \in {"setup", "build"} \/ Stopping("start") => ~lazyDone
  /\ pc \in {"ready", "wait"} \/ Stopping("poison") => lazyDone
  /\ pc \in {"setup", "build", "ready", "wait"} => ~broken /\ ~lazyFailed
  /\ lazyDone /\ pc # "destroyed" =>
       /\ nWorkers > 0
       /\ nWorkers = IF AllOrNothing THEN nPref ELSE stripes

FrameInv ==
  /\ delivered => pc = "idle" /\ owes = {}
  /\ pc = "wait" => owes \cup wrote = 0..nWorkers - 1

IInv ==
  /\ TypeOK /\ SlotInv /\ ThreadInv /\ StartInv /\ FrameInv
  /\ ReleasedOnce /\ WholeFrameWritten /\ RetiredPoolIsIdle

-----------------------------------------------------------------------------
(* The initial state.                                                      *)

\* A configured pool holds nothing, so every part is true of it.
LEMMA InitIInv == Init => IInv
<1> SUFFICES ASSUME Init PROVE IInv
  OBVIOUS
<1>1. TypeOK
  <2>1. /\ owner \in Owners /\ nPref \in 1..MaxWorkers /\ held \in SUBSET Storage
        /\ slot \in [Slots -> {"raw", "built", "released", "misused"}]
        /\ thread \in [Slots -> {"none", "parked", "running", "exited"}]
    BY DEF Init
  <2>2. /\ {started, cancelled, owes, wrote, toJoin} \subseteq SUBSET Slots
        /\ {nWorkers, stripes, built} \subseteq 0..nPref
    BY DEF Init
  <2>3. {inlineRun, lazyDone, lazyFailed, broken, exitReq, syncFailed, joinFailed,
         delivered} \subseteq BOOLEAN
    BY DEF Init
  <2>4. QED
    BY <2>1, <2>2, <2>3 DEF Init, TypeOK
<1>2. SlotInv /\ ThreadInv
  BY DEF Init, SlotInv, ThreadInv, Top, Alive
<1>3. StartInv /\ FrameInv
  BY DEF Init, StartInv, FrameInv, Unstarted, Stopping
<1>4. ReleasedOnce /\ WholeFrameWritten /\ RetiredPoolIsIdle
  BY DEF Init, ReleasedOnce, WholeFrameWritten, RetiredPoolIsIdle, Alive
<1>5. QED
  BY <1>1, <1>2, <1>3, <1>4 DEF IInv

-----------------------------------------------------------------------------
(* One lemma per part, one step per action.                                *)

\* Every step keeps the variables in their types: above all, the counts of
\* slots stay within the number of slots asked for.
LEMMA TypedStep == TypeOK /\ [Next]_vars => TypeOK'
<1> SUFFICES ASSUME TypeOK, [Next]_vars PROVE TypeOK'
  OBVIOUS
<1> USE DEF TypeOK
<1>1. CASE Frame
  BY <1>1 DEF Frame
<1>2. CASE SetupFails
  BY <1>2 DEF SetupFails, Needed
<1>3. CASE Setup
  BY <1>3 DEF Setup, Needed
<1>4. CASE ConstructOne
  BY <1>4 DEF ConstructOne
<1>5. CASE BuildEnds
  BY <1>5 DEF BuildEnds, StartDone, StartRetires, BuildOk
<1>6. CASE DispatchInline
  BY <1>6 DEF DispatchInline
<1>7. CASE Dispatch
  BY <1>7 DEF Dispatch
<1>8. CASE Delivered
  BY <1>8 DEF Delivered
<1>9. CASE Poison
  BY <1>9 DEF Poison
<1>10. ASSUME NEW i \in Slots, RunBegins(i) PROVE TypeOK'
  BY <1>10 DEF RunBegins
<1>11. ASSUME NEW i \in Slots, RunEnds(i) PROVE TypeOK'
  BY <1>11 DEF RunEnds
<1>12. ASSUME NEW i \in Slots, Leave(i) PROVE TypeOK'
  BY <1>12 DEF Leave
<1>13. ASSUME NEW i \in Slots, ThreadFails(i) PROVE TypeOK'
  BY <1>13 DEF ThreadFails
<1>14. CASE Destroy
  BY <1>14 DEF Destroy
<1>15. CASE ExitRequested
  BY <1>15 DEF ExitRequested
<1>16. CASE ExitFails
  BY <1>16 DEF ExitFails
<1>17. ASSUME NEW i \in Slots, Join(i) PROVE TypeOK'
  BY <1>17 DEF Join
<1>18. ASSUME NEW i \in Slots, JoinFails(i) PROVE TypeOK'
  BY <1>18 DEF JoinFails
<1>19. CASE Retired
  BY <1>19 DEF Retired, Release
<1>20. CASE Poisoned
  BY <1>20 DEF Poisoned
<1>21. CASE Destroyed
  BY <1>21 DEF Destroyed, Release
<1>22. CASE Quarantined
  BY <1>22 DEF Quarantined
<1>23. CASE Gone
  BY <1>23 DEF Gone
<1>24. CASE UNCHANGED vars
  BY <1>24
<1>25. QED
  BY <1>1, <1>2, <1>3, <1>4, <1>5, <1>6, <1>7, <1>8, <1>9, <1>10, <1>11, <1>12, <1>13, <1>14, <1>15, <1>16, <1>17, <1>18, <1>19, <1>20, <1>21, <1>22, <1>23, <1>24 DEF Next

\* Construction raises the count with the slot it fills; retire and destroy
\* reset the count with the slots they release.
LEMMA SlotStep == TypeOK /\ SlotInv /\ ThreadInv /\ StartInv /\ [Next]_vars => SlotInv'
<1> SUFFICES ASSUME TypeOK, SlotInv, ThreadInv, StartInv, [Next]_vars PROVE SlotInv'
  OBVIOUS
<1> USE DEF TypeOK, SlotInv, StartInv, Unstarted, Top, HasRelease, AllOrNothing
<1>1. CASE Frame
  BY <1>1 DEF Frame
<1>2. CASE SetupFails
  BY <1>2 DEF SetupFails, Needed
<1>3. CASE Setup
  BY <1>3 DEF Setup, Needed
<1>4. CASE ConstructOne
  BY <1>4 DEF ConstructOne
<1>5. CASE BuildEnds
  BY <1>5 DEF BuildEnds, StartDone, StartRetires, BuildOk
<1>6. CASE DispatchInline
  BY <1>6 DEF DispatchInline
<1>7. CASE Dispatch
  BY <1>7 DEF Dispatch
<1>8. CASE Delivered
  BY <1>8 DEF Delivered
<1>9. CASE Poison
  BY <1>9 DEF Poison
<1>10. ASSUME NEW i \in Slots, RunBegins(i) PROVE SlotInv'
  BY <1>10 DEF RunBegins
<1>11. ASSUME NEW i \in Slots, RunEnds(i) PROVE SlotInv'
  BY <1>11 DEF RunEnds
<1>12. ASSUME NEW i \in Slots, Leave(i) PROVE SlotInv'
  BY <1>12 DEF Leave
<1>13. ASSUME NEW i \in Slots, ThreadFails(i) PROVE SlotInv'
  BY <1>13 DEF ThreadFails
<1>14. CASE Destroy
  BY <1>14 DEF Destroy
<1>15. CASE ExitRequested
  BY <1>15 DEF ExitRequested
<1>16. CASE ExitFails
  BY <1>16 DEF ExitFails
<1>17. ASSUME NEW i \in Slots, Join(i) PROVE SlotInv'
  BY <1>17 DEF Join
<1>18. ASSUME NEW i \in Slots, JoinFails(i) PROVE SlotInv'
  BY <1>18 DEF JoinFails
<1>19. CASE Retired
  BY <1>19 DEF Retired, Release
<1>20. CASE Poisoned
  BY <1>20 DEF Poisoned
<1>21. CASE Destroyed
  BY <1>21 DEF Destroyed, Release
<1>22. CASE Quarantined
  BY <1>22 DEF Quarantined
<1>23. CASE Gone
  BY <1>23 DEF Gone
<1>24. CASE UNCHANGED vars
  BY <1>24
<1>25. QED
  BY <1>1, <1>2, <1>3, <1>4, <1>5, <1>6, <1>7, <1>8, <1>9, <1>10, <1>11, <1>12, <1>13, <1>14, <1>15, <1>16, <1>17, <1>18, <1>19, <1>20, <1>21, <1>22, <1>23, <1>24 DEF Next

\* Threads live on slots below the count, with all the storage; a stop that
\* releases anything has no `started' thread left.
LEMMA ThreadStep == TypeOK /\ SlotInv /\ ThreadInv /\ StartInv /\ [Next]_vars => ThreadInv'
<1> SUFFICES ASSUME TypeOK, SlotInv, ThreadInv, StartInv, [Next]_vars PROVE ThreadInv'
  OBVIOUS
<1> USE DEF TypeOK, SlotInv, ThreadInv, StartInv, Unstarted, Top, HasRelease, AllOrNothing, Alive, Needed
<1>1. CASE Frame
  BY <1>1 DEF Frame
<1>2. CASE SetupFails
  BY <1>2 DEF SetupFails, Needed
<1>3. CASE Setup
  BY <1>3 DEF Setup, Needed
<1>4. CASE ConstructOne
  <2>1. /\ pc = "build" /\ pc' = "build" /\ built' = built + 1
        /\ held' = held /\ owes' = owes /\ built \in Slots
        /\ slot' = [slot EXCEPT ![built] = "built"]
    BY <1>4 DEF ConstructOne
  <2>2. CASE inlineRun
    <3>1. thread' = thread /\ started' = started
      BY <1>4, <2>2 DEF ConstructOne
    <3>2. QED
      BY <2>1, <3>1
  <2>3. CASE ~inlineRun
    <3>1. /\ thread' = [thread EXCEPT ![built] = "parked"]
          /\ started' = started \cup {built}
      BY <1>4, <2>3 DEF ConstructOne
    <3>2. held = Storage
      BY <2>1, <2>3
    <3>3. ASSUME NEW j \in Slots, Alive(j)'
          PROVE  /\ j \in started' /\ j < built'
                 /\ slot'[j] = "built" /\ held' = Storage
      <4>1. CASE j = built
        BY <2>1, <3>1, <3>2, <4>1
      <4>2. CASE j # built
        <5>1. thread'[j] = thread[j] /\ slot'[j] = slot[j]
          BY <2>1, <3>1, <4>2
        <5>2. QED
          BY <2>1, <3>1, <3>2, <3>3, <5>1
      <4>3. QED
        BY <4>1, <4>2
    <3>4. ASSUME NEW j \in Slots, thread'[j] = "running" PROVE j \in owes'
      BY <2>1, <3>1, <3>4
    <3>5. QED
      BY <2>1, <3>3, <3>4
  <2>4. QED
    BY <2>2, <2>3
<1>5. CASE BuildEnds
  BY <1>5 DEF BuildEnds, StartDone, StartRetires, BuildOk
<1>6. CASE DispatchInline
  BY <1>6 DEF DispatchInline
<1>7. CASE Dispatch
  BY <1>7 DEF Dispatch
<1>8. CASE Delivered
  BY <1>8 DEF Delivered
<1>9. CASE Poison
  BY <1>9 DEF Poison
<1>10. ASSUME NEW i \in Slots, RunBegins(i) PROVE ThreadInv'
  BY <1>10 DEF RunBegins
<1>11. ASSUME NEW i \in Slots, RunEnds(i) PROVE ThreadInv'
  BY <1>11 DEF RunEnds
<1>12. ASSUME NEW i \in Slots, Leave(i) PROVE ThreadInv'
  BY <1>12 DEF Leave
<1>13. ASSUME NEW i \in Slots, ThreadFails(i) PROVE ThreadInv'
  BY <1>13 DEF ThreadFails
<1>14. CASE Destroy
  BY <1>14 DEF Destroy
<1>15. CASE ExitRequested
  BY <1>15 DEF ExitRequested
<1>16. CASE ExitFails
  BY <1>16 DEF ExitFails
<1>17. ASSUME NEW i \in Slots, Join(i) PROVE ThreadInv'
  BY <1>17 DEF Join
<1>18. ASSUME NEW i \in Slots, JoinFails(i) PROVE ThreadInv'
  BY <1>18 DEF JoinFails
<1>19. CASE Retired
  BY <1>19 DEF Retired, Release
<1>20. CASE Poisoned
  BY <1>20 DEF Poisoned
<1>21. CASE Destroyed
  BY <1>21 DEF Destroyed, Release
<1>22. CASE Quarantined
  BY <1>22 DEF Quarantined
<1>23. CASE Gone
  BY <1>23 DEF Gone
<1>24. CASE UNCHANGED vars
  BY <1>24
<1>25. QED
  BY <1>1, <1>2, <1>3, <1>4, <1>5, <1>6, <1>7, <1>8, <1>9, <1>10, <1>11, <1>12, <1>13, <1>14, <1>15, <1>16, <1>17, <1>18, <1>19, <1>20, <1>21, <1>22, <1>23, <1>24 DEF Next

\* The lazy state means the same before and after a step.
LEMMA StartStep == TypeOK /\ ThreadInv /\ StartInv /\ FrameInv /\ [Next]_vars => StartInv'
<1> SUFFICES ASSUME TypeOK, ThreadInv, StartInv, FrameInv, [Next]_vars PROVE StartInv'
  OBVIOUS
<1> USE DEF TypeOK, ThreadInv, FrameInv, StartInv, Unstarted, Stopping, Needed, AllOrNothing
<1>1. CASE Frame
  BY <1>1 DEF Frame
<1>2. CASE SetupFails
  BY <1>2 DEF SetupFails, Needed
<1>3. CASE Setup
  BY <1>3 DEF Setup, Needed
<1>4. CASE ConstructOne
  BY <1>4 DEF ConstructOne
<1>5. CASE BuildEnds
  BY <1>5 DEF BuildEnds, StartDone, StartRetires, BuildOk
<1>6. CASE DispatchInline
  BY <1>6 DEF DispatchInline
<1>7. CASE Dispatch
  BY <1>7 DEF Dispatch
<1>8. CASE Delivered
  BY <1>8 DEF Delivered
<1>9. CASE Poison
  BY <1>9 DEF Poison
<1>10. ASSUME NEW i \in Slots, RunBegins(i) PROVE StartInv'
  BY <1>10 DEF RunBegins
<1>11. ASSUME NEW i \in Slots, RunEnds(i) PROVE StartInv'
  BY <1>11 DEF RunEnds
<1>12. ASSUME NEW i \in Slots, Leave(i) PROVE StartInv'
  BY <1>12 DEF Leave
<1>13. ASSUME NEW i \in Slots, ThreadFails(i) PROVE StartInv'
  BY <1>13 DEF ThreadFails
<1>14. CASE Destroy
  BY <1>14 DEF Destroy
<1>15. CASE ExitRequested
  BY <1>15 DEF ExitRequested
<1>16. CASE ExitFails
  BY <1>16 DEF ExitFails
<1>17. ASSUME NEW i \in Slots, Join(i) PROVE StartInv'
  BY <1>17 DEF Join
<1>18. ASSUME NEW i \in Slots, JoinFails(i) PROVE StartInv'
  BY <1>18 DEF JoinFails
<1>19. CASE Retired
  BY <1>19 DEF Retired, Release
<1>20. CASE Poisoned
  BY <1>20 DEF Poisoned
<1>21. CASE Destroyed
  BY <1>21 DEF Destroyed, Release
<1>22. CASE Quarantined
  BY <1>22 DEF Quarantined
<1>23. CASE Gone
  BY <1>23 DEF Gone
<1>24. CASE UNCHANGED vars
  BY <1>24
<1>25. QED
  BY <1>1, <1>2, <1>3, <1>4, <1>5, <1>6, <1>7, <1>8, <1>9, <1>10, <1>11, <1>12, <1>13, <1>14, <1>15, <1>16, <1>17, <1>18, <1>19, <1>20, <1>21, <1>22, <1>23, <1>24 DEF Next

\* Parts of the frame move from owed to written and nowhere else.
LEMMA FrameStep == TypeOK /\ ThreadInv /\ StartInv /\ FrameInv /\ [Next]_vars => FrameInv'
<1> SUFFICES ASSUME TypeOK, ThreadInv, StartInv, FrameInv, [Next]_vars PROVE FrameInv'
  OBVIOUS
<1> USE DEF TypeOK, ThreadInv, StartInv, FrameInv
<1>1. CASE Frame
  BY <1>1 DEF Frame
<1>2. CASE SetupFails
  BY <1>2 DEF SetupFails, Needed
<1>3. CASE Setup
  BY <1>3 DEF Setup, Needed
<1>4. CASE ConstructOne
  BY <1>4 DEF ConstructOne
<1>5. CASE BuildEnds
  BY <1>5 DEF BuildEnds, StartDone, StartRetires, BuildOk
<1>6. CASE DispatchInline
  BY <1>6 DEF DispatchInline
<1>7. CASE Dispatch
  BY <1>7 DEF Dispatch
<1>8. CASE Delivered
  BY <1>8 DEF Delivered
<1>9. CASE Poison
  BY <1>9 DEF Poison
<1>10. ASSUME NEW i \in Slots, RunBegins(i) PROVE FrameInv'
  BY <1>10 DEF RunBegins
<1>11. ASSUME NEW i \in Slots, RunEnds(i) PROVE FrameInv'
  BY <1>11 DEF RunEnds
<1>12. ASSUME NEW i \in Slots, Leave(i) PROVE FrameInv'
  BY <1>12 DEF Leave
<1>13. ASSUME NEW i \in Slots, ThreadFails(i) PROVE FrameInv'
  BY <1>13 DEF ThreadFails
<1>14. CASE Destroy
  BY <1>14 DEF Destroy
<1>15. CASE ExitRequested
  BY <1>15 DEF ExitRequested
<1>16. CASE ExitFails
  BY <1>16 DEF ExitFails
<1>17. ASSUME NEW i \in Slots, Join(i) PROVE FrameInv'
  BY <1>17 DEF Join
<1>18. ASSUME NEW i \in Slots, JoinFails(i) PROVE FrameInv'
  BY <1>18 DEF JoinFails
<1>19. CASE Retired
  BY <1>19 DEF Retired, Release
<1>20. CASE Poisoned
  BY <1>20 DEF Poisoned
<1>21. CASE Destroyed
  BY <1>21 DEF Destroyed, Release
<1>22. CASE Quarantined
  BY <1>22 DEF Quarantined
<1>23. CASE Gone
  BY <1>23 DEF Gone
<1>24. CASE UNCHANGED vars
  BY <1>24
<1>25. QED
  BY <1>1, <1>2, <1>3, <1>4, <1>5, <1>6, <1>7, <1>8, <1>9, <1>10, <1>11, <1>12, <1>13, <1>14, <1>15, <1>16, <1>17, <1>18, <1>19, <1>20, <1>21, <1>22, <1>23, <1>24 DEF Next

-----------------------------------------------------------------------------
(* The three promises.                                                     *)

\* Only a clean stop reaches the destroyed state, with every slot released.
LEMMA ReleasedStep ==
  TypeOK /\ SlotInv /\ ThreadInv /\ ReleasedOnce /\ SlotInv' /\ [Next]_vars => ReleasedOnce'
<1> SUFFICES ASSUME TypeOK, SlotInv, ThreadInv, ReleasedOnce, SlotInv', [Next]_vars,
                    pc' = "destroyed"
             PROVE  /\ held' = {}
                    /\ \A i \in Slots : ~Alive(i)' /\ (HasRelease' => slot'[i] # "built")
  BY DEF ReleasedOnce, SlotInv
<1> USE DEF TypeOK, SlotInv, ThreadInv, Alive, HasRelease
<1>1. CASE Destroyed
  <2>1. \A i \in Slots : ~Alive(i)'
    BY <1>1 DEF Destroyed
  <2>2. HasRelease' => \A i \in Slots : slot'[i] # "built"
    BY <1>1 DEF Destroyed, Top
  <2>3. QED
    BY <1>1, <2>1, <2>2 DEF Destroyed
<1>2. ASSUME NEW i \in Slots,
             RunBegins(i) \/ RunEnds(i) \/ Leave(i) \/ ThreadFails(i)
      PROVE  held' = {} /\ \A j \in Slots : ~Alive(j)' /\ (HasRelease' => slot'[j] # "built")
  BY <1>2 DEF RunBegins, RunEnds, Leave, ThreadFails, ReleasedOnce
<1>3. CASE Gone \/ UNCHANGED vars
  BY <1>3 DEF Gone, ReleasedOnce
<1>4. pc' = "destroyed" =>
        ~(Frame \/ Setup \/ SetupFails \/ ConstructOne \/ BuildEnds)
  BY DEF Frame, Setup, SetupFails, ConstructOne, BuildEnds, StartDone, StartRetires
<1>5. pc' = "destroyed" => ~(DispatchInline \/ Dispatch \/ Delivered \/ Poison \/ Destroy)
  BY DEF DispatchInline, Dispatch, Delivered, Poison, Destroy
<1>6. pc' = "destroyed" => ~(ExitRequested \/ ExitFails \/ Retired \/ Poisoned \/ Quarantined)
  BY DEF ExitRequested, ExitFails, Retired, Poisoned, Quarantined
<1>7. \A i \in Slots : pc' = "destroyed" => ~(Join(i) \/ JoinFails(i))
  BY DEF Join, JoinFails
<1>8. QED
  BY <1>1, <1>2, <1>3, <1>4, <1>5, <1>6, <1>7 DEF Next

\* A dispatch returns 0 when nobody owes, over the partition of its workers;
\* nothing writes or repartitions until the next frame begins.
LEMMA WholeFrameStep == TypeOK /\ ThreadInv /\ StartInv /\ FrameInv /\ WholeFrameWritten /\ [Next]_vars => WholeFrameWritten'
<1> SUFFICES ASSUME TypeOK, ThreadInv, StartInv, FrameInv, WholeFrameWritten, [Next]_vars PROVE WholeFrameWritten'
  OBVIOUS
<1> USE DEF TypeOK, ThreadInv, StartInv, FrameInv, WholeFrameWritten, AllOrNothing
<1>1. CASE Frame
  BY <1>1 DEF Frame
<1>2. CASE SetupFails
  BY <1>2 DEF SetupFails, Needed
<1>3. CASE Setup
  BY <1>3 DEF Setup, Needed
<1>4. CASE ConstructOne
  BY <1>4 DEF ConstructOne
<1>5. CASE BuildEnds
  BY <1>5 DEF BuildEnds, StartDone, StartRetires, BuildOk
<1>6. CASE DispatchInline
  BY <1>6 DEF DispatchInline
<1>7. CASE Dispatch
  BY <1>7 DEF Dispatch
<1>8. CASE Delivered
  BY <1>8 DEF Delivered
<1>9. CASE Poison
  BY <1>9 DEF Poison
<1>10. ASSUME NEW i \in Slots, RunBegins(i) PROVE WholeFrameWritten'
  BY <1>10 DEF RunBegins
<1>11. ASSUME NEW i \in Slots, RunEnds(i) PROVE WholeFrameWritten'
  BY <1>11 DEF RunEnds
<1>12. ASSUME NEW i \in Slots, Leave(i) PROVE WholeFrameWritten'
  BY <1>12 DEF Leave
<1>13. ASSUME NEW i \in Slots, ThreadFails(i) PROVE WholeFrameWritten'
  BY <1>13 DEF ThreadFails
<1>14. CASE Destroy
  BY <1>14 DEF Destroy
<1>15. CASE ExitRequested
  BY <1>15 DEF ExitRequested
<1>16. CASE ExitFails
  BY <1>16 DEF ExitFails
<1>17. ASSUME NEW i \in Slots, Join(i) PROVE WholeFrameWritten'
  BY <1>17 DEF Join
<1>18. ASSUME NEW i \in Slots, JoinFails(i) PROVE WholeFrameWritten'
  BY <1>18 DEF JoinFails
<1>19. CASE Retired
  BY <1>19 DEF Retired, Release
<1>20. CASE Poisoned
  BY <1>20 DEF Poisoned
<1>21. CASE Destroyed
  BY <1>21 DEF Destroyed, Release
<1>22. CASE Quarantined
  BY <1>22 DEF Quarantined
<1>23. CASE Gone
  BY <1>23 DEF Gone
<1>24. CASE UNCHANGED vars
  BY <1>24
<1>25. QED
  BY <1>1, <1>2, <1>3, <1>4, <1>5, <1>6, <1>7, <1>8, <1>9, <1>10, <1>11, <1>12, <1>13, <1>14, <1>15, <1>16, <1>17, <1>18, <1>19, <1>20, <1>21, <1>22, <1>23, <1>24 DEF Next

\* The pool comes back to idle, broken or failed, only through a join loop
\* that visited every `started' thread.
LEMMA RetiredIdleStep == TypeOK /\ ThreadInv /\ StartInv /\ RetiredPoolIsIdle /\ [Next]_vars => RetiredPoolIsIdle'
<1> SUFFICES ASSUME TypeOK, ThreadInv, StartInv, RetiredPoolIsIdle, [Next]_vars PROVE RetiredPoolIsIdle'
  OBVIOUS
<1> USE DEF TypeOK, ThreadInv, StartInv, Unstarted, RetiredPoolIsIdle, Alive
<1>1. CASE Frame
  BY <1>1 DEF Frame
<1>2. CASE SetupFails
  BY <1>2 DEF SetupFails, Needed
<1>3. CASE Setup
  BY <1>3 DEF Setup, Needed
<1>4. CASE ConstructOne
  BY <1>4 DEF ConstructOne
<1>5. CASE BuildEnds
  BY <1>5 DEF BuildEnds, StartDone, StartRetires, BuildOk
<1>6. CASE DispatchInline
  BY <1>6 DEF DispatchInline
<1>7. CASE Dispatch
  BY <1>7 DEF Dispatch
<1>8. CASE Delivered
  BY <1>8 DEF Delivered
<1>9. CASE Poison
  BY <1>9 DEF Poison
<1>10. ASSUME NEW i \in Slots, RunBegins(i) PROVE RetiredPoolIsIdle'
  BY <1>10 DEF RunBegins
<1>11. ASSUME NEW i \in Slots, RunEnds(i) PROVE RetiredPoolIsIdle'
  BY <1>11 DEF RunEnds
<1>12. ASSUME NEW i \in Slots, Leave(i) PROVE RetiredPoolIsIdle'
  BY <1>12 DEF Leave
<1>13. ASSUME NEW i \in Slots, ThreadFails(i) PROVE RetiredPoolIsIdle'
  BY <1>13 DEF ThreadFails
<1>14. CASE Destroy
  BY <1>14 DEF Destroy
<1>15. CASE ExitRequested
  BY <1>15 DEF ExitRequested
<1>16. CASE ExitFails
  BY <1>16 DEF ExitFails
<1>17. ASSUME NEW i \in Slots, Join(i) PROVE RetiredPoolIsIdle'
  BY <1>17 DEF Join
<1>18. ASSUME NEW i \in Slots, JoinFails(i) PROVE RetiredPoolIsIdle'
  BY <1>18 DEF JoinFails
<1>19. CASE Retired
  BY <1>19 DEF Retired, Release
<1>20. CASE Poisoned
  BY <1>20 DEF Poisoned
<1>21. CASE Destroyed
  BY <1>21 DEF Destroyed, Release
<1>22. CASE Quarantined
  BY <1>22 DEF Quarantined
<1>23. CASE Gone
  BY <1>23 DEF Gone
<1>24. CASE UNCHANGED vars
  BY <1>24
<1>25. QED
  BY <1>1, <1>2, <1>3, <1>4, <1>5, <1>6, <1>7, <1>8, <1>9, <1>10, <1>11, <1>12, <1>13, <1>14, <1>15, <1>16, <1>17, <1>18, <1>19, <1>20, <1>21, <1>22, <1>23, <1>24 DEF Next

-----------------------------------------------------------------------------
(* The theorems.                                                           *)

\* The conjunction is inductive.
LEMMA StepIInv == IInv /\ [Next]_vars => IInv'
  BY TypedStep, SlotStep, ThreadStep, StartStep, FrameStep, ReleasedStep,
     WholeFrameStep, RetiredIdleStep DEF IInv

\* Every reachable state of a pool satisfies all of it.
THEOREM PoolInvariant == Spec => []IInv
<1>1. Init => IInv
  BY InitIInv
<1>2. IInv /\ [Next]_vars => IInv'
  BY StepIInv
<1>3. QED
  BY <1>1, <1>2, PTL DEF Spec

\* Type correctness: the counts of slots and workers never leave the array
\* that was allocated for them (worker_pool.h).
THEOREM PoolTyped == Spec => []TypeOK
<1>1. IInv => TypeOK
  BY DEF IInv
<1>2. QED
  BY <1>1, PoolInvariant, PTL

\* ops->release runs once for each slot construct accepted, and a destroyed
\* pool holds nothing, for any size of pool (worker_pool.h, release).
THEOREM PoolReleasesOnce == Spec => []ReleasedOnce
<1>1. IInv => ReleasedOnce
  BY DEF IInv
<1>2. QED
  BY <1>1, PoolInvariant, PTL

\* Whatever fails, a living thread's slot, record and gate exist.
THEOREM PoolOutlivesThreads == Spec => []LiveThreadsOwnStorage
<1>1. IInv => LiveThreadsOwnStorage
  BY DEF IInv, ThreadInv, LiveThreadsOwnStorage
<1>2. QED
  BY <1>1, PoolInvariant, PTL

\* A dispatch that returns 0 has written the owner's whole partition, also
\* when the sharpening pool came up with fewer workers than asked for.
THEOREM PoolWritesWholeFrame == Spec => []WholeFrameWritten
<1>1. IInv => WholeFrameWritten
  BY DEF IInv
<1>2. QED
  BY <1>1, PoolInvariant, PTL

\* RES-2: a retired pool keeps no parked thread, unless a join failed.
THEOREM PoolRetiresIdle == Spec => []RetiredPoolIsIdle
<1>1. IInv => RetiredPoolIsIdle
  BY DEF IInv
<1>2. QED
  BY <1>1, PoolInvariant, PTL
=============================================================================
