-------------------------- MODULE ZimgBackendProofs --------------------------
(***************************************************************************)
(* ZimgBackend implements ScalerBackend, proved for every size, every      *)
(* budget of workers and every grid that comes of them.                    *)
(*                                                                         *)
(* The argument in one paragraph.  A plan has at least one cell and at     *)
(* most one worker per cell and thread, whatever the search for the grid   *)
(* answers; the modes of the first frame are frozen with the graphs        *)
(* (InstanceInv).  Until it has left, a worker of a dispatch has views of  *)
(* this call's pictures in the modes of its graph (WorkersInv), and what   *)
(* it wrote is of this frame (FrameInv); so a barrier that every worker    *)
(* passed without an error leaves every cell whole.                        *)
(***************************************************************************)
EXTENDS ZimgBackend, ArithmeticLemmas

-----------------------------------------------------------------------------
(* The plan of a frame.                                                    *)

\* up__largest_valid_split answers one, or a valid number up to its start.
LEMMA SplitBounds ==
  ASSUME NEW start \in Int, NEW src, NEW dst
  PROVE  LET n == LargestValidSplit(start, src, dst)
         IN  n \in Nat \ {0} /\ (n = 1 \/ n <= start)
<1> DEFINE S == {1} \cup {n \in 2..start : AxisPartitionOk(n, src, dst)}
           b == IF start >= 1 THEN start ELSE 1
<1>1. S \in SUBSET Nat /\ S # {} /\ b \in Nat /\ \A x \in S : x <= b
  OBVIOUS
<1> HIDE DEF b
<1>2. Max(S) \in S
  BY <1>1, MaxInSet
<1>3. Max(S) \in Nat \ {0} /\ (Max(S) = 1 \/ Max(S) <= start)
  BY <1>2
<1>4. QED
  BY <1>3 DEF LargestValidSplit

\* The budget is a number of workers there may be.
LEMMA BudgetBounds ==
  ASSUME NEW threads \in Int
  PROVE  GridBudget(threads) \in 1..TileThreadsMax
<1>1. 1 \in Int /\ TileThreadsMax \in Nat \ {0} /\ TileThreadsMax \in Int
  BY GridAssumption
<1>2. Max({threads, 1}) \in {threads, 1} /\ Max({threads, 1}) >= 1
  BY <1>1, MaxOfTwo, Zenon
<1>3. Max({threads, 1}) \in Int
  BY <1>2
<1> DEFINE m == Max({threads, 1})
<1> HIDE DEF m
<1>4. m \in Int /\ m >= 1
  BY <1>2, <1>3 DEF m
<1>5. Min({m, TileThreadsMax}) \in {m, TileThreadsMax} /\ Min({m, TileThreadsMax}) <= TileThreadsMax
  BY <1>1, <1>4, MinOfTwo, Zenon
<1>6. Min({m, TileThreadsMax}) \in 1..TileThreadsMax
  BY <1>1, <1>4, <1>5
<1>7. QED
  BY <1>6 DEF GridBudget, m

\* up__tile_axis_limit stays within the budget; without a least extent it is
\* the fallback, and at least one.
LEMMA LimitBounds ==
  ASSUME NEW extent \in Nat, NEW minimum \in Int, NEW fallback \in Nat \ {0},
         NEW budget \in Nat \ {0}
  PROVE  /\ AxisLimit(extent, minimum, fallback, budget) \in 1..budget
         /\ minimum <= 0 /\ fallback = 1 => AxisLimit(extent, minimum, fallback, budget) = 1
<1> DEFINE limit == IF minimum > 0 THEN extent \div minimum ELSE fallback
           m == Max({limit, 1})
           r == Min({m, budget})
<1>1. limit \in Int /\ 1 \in Int /\ budget \in Int
  BY Division
<1>2. minimum <= 0 /\ fallback = 1 => limit = 1
  OBVIOUS
<1> HIDE DEF limit
<1>3. m \in {limit, 1} /\ m >= 1
  BY <1>1, MaxOfTwo, Zenon
<1>4. m \in Int /\ (limit = 1 => m = 1)
  BY <1>1, <1>3
<1> HIDE DEF m
<1>5. r \in {m, budget} /\ r <= m /\ r <= budget
  BY <1>1, <1>4, MinOfTwo, Zenon
<1> HIDE DEF r
<1>6. r \in 1..budget /\ (m = 1 => r = 1)
  BY <1>3, <1>4, <1>5
<1>7. QED
  BY <1>2, <1>4, <1>6 DEF AxisLimit, r, m, limit

Request == [threads : Int, srcW : Nat \ {0}, srcH : Nat \ {0},
            dstW : Nat \ {0}, dstH : Nat \ {0}, stripeMin : Int, colMin : Int,
            srcZerocopy : BOOLEAN, dstZerocopy : BOOLEAN]

\* The search of up_decide_tile_grid ends on a grid within the budget, and on
\* one of a single column if columns are not asked for.
LEMMA GridBounds ==
  ASSUME NEW req \in Request, NEW colMin \in Int
  PROVE  LET grid == DecideTileGrid(req, colMin)
         IN  /\ grid.rows \in Nat \ {0} /\ grid.cols \in Nat \ {0}
             /\ grid.rows * grid.cols \in 1..TileThreadsMax
             /\ colMin <= 0 => grid.cols = 1
<1> DEFINE budget == GridBudget(req.threads)
           Col(r) == ColsFor(r, req, colMin)
           Size(r) == r * Col(r)
<1>1. /\ req.threads \in Int /\ req.stripeMin \in Int
      /\ {req.srcW, req.srcH, req.dstW, req.dstH} \subseteq Nat \ {0}
  BY DEF Request
<1>2. budget \in 1..TileThreadsMax /\ TileThreadsMax \in Nat \ {0} /\ budget \in Nat \ {0}
  BY <1>1, BudgetBounds, GridAssumption
<1> HIDE DEF budget
<1>3. RowLimit(req) \in 1..budget
  <2>1. AxisLimit(req.dstH, req.stripeMin, budget, budget) \in 1..budget
    BY <1>1, <1>2, LimitBounds
  <2>2. QED
    BY <1>2, <2>1, SplitBounds DEF RowLimit, budget
<1>4. ColLimit(req, colMin) \in Nat \ {0} /\ (colMin <= 0 => ColLimit(req, colMin) = 1)
  <2> DEFINE limit == AxisLimit(req.dstW, colMin, 1, budget)
  <2>1. limit \in 1..budget /\ (colMin <= 0 => limit = 1)
    BY <1>1, <1>2, LimitBounds
  <2> HIDE DEF limit
  <2>2. limit \in Int
    BY <1>2, <2>1
  <2>3. LargestValidSplit(limit, req.srcW, req.dstW) \in Nat \ {0}
        /\ (LargestValidSplit(limit, req.srcW, req.dstW) = 1
            \/ LargestValidSplit(limit, req.srcW, req.dstW) <= limit)
    BY <2>2, SplitBounds
  <2>4. QED
    BY <1>2, <2>1, <2>3 DEF ColLimit, limit, budget
<1>5. ASSUME NEW r \in 1..budget
      PROVE  Col(r) \in Nat \ {0} /\ Size(r) \in 1..budget /\ (colMin <= 0 => Col(r) = 1)
  <2> DEFINE q == budget \div r
             c == ColLimit(req, colMin)
             start == Min({q, c})
  <2>1. q \in Nat /\ r * q <= budget
    BY <1>2, Division
  <2> HIDE DEF q
  <2>2. c \in Int /\ q \in Int
    BY <1>4, <2>1
  <2> HIDE DEF c
  <2>3. start \in {q, c} /\ start <= q /\ start <= c
    BY <2>2, MinOfTwo, Zenon
  <2>4. start \in Int
    BY <2>2, <2>3
  <2> HIDE DEF start
  <2>5. /\ LargestValidSplit(start, req.srcW, req.dstW) \in Nat \ {0}
        /\ \/ LargestValidSplit(start, req.srcW, req.dstW) = 1
           \/ LargestValidSplit(start, req.srcW, req.dstW) <= start
    BY <2>4, SplitBounds
  <2>6. Col(r) = LargestValidSplit(start, req.srcW, req.dstW)
    BY DEF ColsFor, start, q, c, budget
  <2>7. Col(r) \in Nat \ {0} /\ (Col(r) = 1 \/ Col(r) <= start)
    BY <2>5, <2>6
  <2> HIDE DEF Col
  <2>8. r * Col(r) \in 1..budget
    <3>1. CASE Col(r) = 1
      BY <1>2, <3>1
    <3>2. CASE Col(r) <= start
      <4>1. Col(r) <= q
        BY <2>2, <2>3, <2>4, <2>7, <3>2
      <4>2. r * Col(r) <= r * q
        BY <1>2, <2>1, <2>7, <4>1
      <4>3. r * Col(r) \in Nat \ {0} /\ r * q \in Nat
        BY <1>2, <2>1, <2>7
      <4>4. QED
        BY <1>2, <2>1, <4>2, <4>3
    <3>3. QED
      BY <2>7, <3>1, <3>2
  <2>9. colMin <= 0 => Col(r) = 1
    BY <1>4, <2>2, <2>3, <2>4, <2>7 DEF c
  <2>10. QED
    BY <2>7, <2>8, <2>9
<1> DEFINE R == RowCandidates(req)
           Best == {r \in R : \A q \in R : Size(q) <= Size(r)}
<1>6. R \subseteq 1..budget /\ 1 \in R
  <2>1. AxisPartitionOk(1, req.srcH, req.dstH)
    BY <1>1 DEF AxisPartitionOk, NotDegenerate, Stripe, SrcAt, DstAt
  <2>2. QED
    BY <1>2, <1>3, <2>1 DEF RowCandidates
<1> HIDE DEF R, Size, Col
<1>7. Best # {}
  <2> DEFINE V == {Size(r) : r \in R}
  <2>1. V \in SUBSET Nat /\ V # {} /\ \A v \in V : v <= budget
    BY <1>2, <1>5, <1>6
  <2>2. Max(V) \in V /\ \A v \in V : v <= Max(V)
    BY <1>2, <2>1, MaxInSet
  <2>3. PICK r \in R : Max(V) = Size(r)
    BY <2>2
  <2>4. \A q \in R : Size(q) <= Size(r)
    BY <2>2, <2>3
  <2>5. QED
    BY <2>4
<1>8. Max(Best) \in Best
  <2>1. Best \subseteq R
    OBVIOUS
  <2> HIDE DEF Best
  <2>2. Best \in SUBSET Nat /\ \A r \in Best : r <= budget
    BY <1>2, <1>6, <2>1
  <2>3. QED
    BY <1>2, <1>7, <2>2, MaxInSet
<1> DEFINE rows == Max(Best)
<1>9. rows \in 1..budget
  BY <1>6, <1>8
<1> HIDE DEF rows, Best
<1>10. /\ DecideTileGrid(req, colMin).rows = rows
       /\ DecideTileGrid(req, colMin).cols = Col(rows)
  BY DEF DecideTileGrid, rows, Best, Size, Col, R
<1>11. Col(rows) \in Nat \ {0} /\ rows * Col(rows) \in 1..budget /\ (colMin <= 0 => Col(rows) = 1)
  BY <1>5, <1>9 DEF Size
<1>12. QED
  BY <1>2, <1>9, <1>10, <1>11

Plans == [rows : Nat \ {0}, cols : Nat \ {0}, srcZerocopy : BOOLEAN, dstZerocopy : BOOLEAN]

\* A plan that the graphs can be built for: at least one cell, and a worker for
\* each; tiles read VLC's picture and never write it.
Sound(p) ==
  /\ p \in Plans
  /\ NThreads(p) \in 1..TileThreadsMax
  /\ ColTiled(p) => p.srcZerocopy /\ ~p.dstZerocopy

\* up_zimg_resolve_io_plan answers such a plan.
LEMMA ResolvedSound ==
  ASSUME NEW req \in Request
  PROVE  /\ Sound(ResolveIoPlan(req))
         /\ ResolveIoPlan(req).srcZerocopy = req.srcZerocopy
         /\ ResolveIoPlan(req).dstZerocopy => req.dstZerocopy
<1> DEFINE colMin == IF req.srcZerocopy THEN req.colMin ELSE 0
           grid == DecideTileGrid(req, colMin)
<1>1. /\ colMin \in Int /\ req.srcZerocopy \in BOOLEAN /\ req.dstZerocopy \in BOOLEAN
      /\ ~req.srcZerocopy => colMin <= 0
  BY DEF Request
<1> HIDE DEF colMin
<1>2. /\ grid.rows \in Nat \ {0} /\ grid.cols \in Nat \ {0}
      /\ grid.rows * grid.cols \in 1..TileThreadsMax
      /\ colMin <= 0 => grid.cols = 1
  BY <1>1, GridBounds
<1> HIDE DEF grid
<1>3. ResolveIoPlan(req) = [rows |-> grid.rows, cols |-> grid.cols,
                            srcZerocopy |-> req.srcZerocopy,
                            dstZerocopy |-> req.dstZerocopy /\ grid.cols <= 1]
  BY DEF ResolveIoPlan, grid, colMin
<1> DEFINE p == ResolveIoPlan(req)
<1>4. /\ p.rows = grid.rows /\ p.cols = grid.cols /\ p.srcZerocopy = req.srcZerocopy
      /\ p.dstZerocopy = (req.dstZerocopy /\ grid.cols <= 1) /\ p \in Plans
  BY <1>1, <1>2, <1>3 DEF Plans
<1> HIDE DEF p
<1>5. grid.cols > 1 => req.srcZerocopy
  BY <1>1, <1>2
<1>6. Sound(p)
  <2>1. NThreads(p) \in 1..TileThreadsMax
    <3>1. NThreads(p) = grid.rows * grid.cols
      BY <1>4 DEF NThreads
    <3>2. QED
      BY <1>2, <3>1
  <2>2. p.cols > 1 => p.srcZerocopy /\ ~p.dstZerocopy
    <3>1. SUFFICES ASSUME grid.cols > 1
                   PROVE  p.srcZerocopy /\ ~p.dstZerocopy
      BY <1>4
    <3>2. ~(grid.cols <= 1)
      BY <1>2, <3>1
    <3>3. QED
      BY <1>4, <1>5, <3>1, <3>2
  <2>3. QED
    BY <1>4, <2>1, <2>2 DEF Sound, ColTiled
<1>7. QED
  BY <1>4, <1>6 DEF p

\* So does the instance for its size, whatever it was opened with.
LEMMA PlanForSound ==
  ASSUME ctx \in Contexts, NEW a \in BOOLEAN, NEW b \in BOOLEAN
  PROVE  /\ Sound(PlanFor(a, b))
         /\ PlanFor(a, b).srcZerocopy => a
         /\ PlanFor(a, b).dstZerocopy => b
<1> DEFINE g == ctx.geom
           src == ctx.srcZerocopy /\ a
           dst == ctx.dstZerocopy /\ b
           req == [threads |-> g.threads,
                   srcW |-> g.srcW, srcH |-> g.srcH, dstW |-> g.dstW, dstH |-> g.dstH,
                   stripeMin |-> StripeMin, colMin |-> ColMin,
                   srcZerocopy |-> src, dstZerocopy |-> dst]
<1>1. g \in Geometries /\ src \in BOOLEAN /\ dst \in BOOLEAN /\ (src => a) /\ (dst => b)
  BY DEF Contexts
<1>2. g \in [threads : Int, srcW : Nat \ {0}, srcH : Nat \ {0},
              dstW : Nat \ {0}, dstH : Nat \ {0}]
  BY <1>1, BackendAssumption
<1>3. PlanFor(a, b) = IoPlan[g][src][dst]
  BY DEF PlanFor
<1> HIDE DEF g, src, dst
<1>4. req \in Request
  BY <1>1, <1>2, BackendAssumption DEF Request
<1>5. IoPlan[g][src][dst] = ResolveIoPlan(req)
  BY <1>1, Zenon DEF IoPlan
<1>6. req.srcZerocopy = src /\ req.dstZerocopy = dst
  OBVIOUS
<1> HIDE DEF req
<1>7. /\ Sound(ResolveIoPlan(req))
      /\ ResolveIoPlan(req).srcZerocopy = req.srcZerocopy
      /\ ResolveIoPlan(req).dstZerocopy => req.dstZerocopy
  BY <1>4, ResolvedSound
<1>8. QED
  BY <1>1, <1>3, <1>5, <1>6, <1>7

-----------------------------------------------------------------------------
(* The inductive invariant.                                                *)

Contents == {"this", "old", "null", "junk", "narrow", "half"}
Shown == {"this", "old", "null"}
Steps == {"parked", "armed", "graph", "emit", "finished", "gone"}
Dispatched == pc \in {"wait", "join"}

\* What the four views of a cell can show: of each side either the graph's or
\* the copy's is a picture of VLC's, as the plan has it.
ViewOf(p, x, y) ==
  [src    |-> IF p.srcZerocopy THEN x ELSE "scratch",
   dst    |-> IF p.dstZerocopy THEN y ELSE "scratch",
   vlcSrc |-> IF p.srcZerocopy THEN "null" ELSE x,
   vlcDst |-> IF p.dstZerocopy THEN "null" ELSE y]

CellOf(p) ==
  [copyIn |-> ~p.srcZerocopy, copyOut |-> ~p.dstZerocopy, tiled |-> ColTiled(p)]

\* The instance: its plan is sound, and nothing is written before a dispatch.
InstanceInv ==
  /\ ctx \in Contexts
  /\ Sound(plan)
  /\ frame \in Pictures
  /\ pool \in [lazy : {"fresh", "failed", "started"}, broken : BOOLEAN]
  /\ pc \in {"new", "idle", "process", "wait", "join", "closed"}
  /\ pc = "new" => pool = [lazy |-> "fresh", broken |-> FALSE] /\ status = "none"
  /\ out \in [Cells -> Contents \cup {"untouched"}]
  /\ pc \in {"new", "process"} => \A c \in Cells : out[c] = "untouched"

\* The workers: there is one for each cell of the frozen plan.
WorkersInv ==
  /\ Workers = IF pool.lazy = "started" THEN 1..NThreads(plan) ELSE {}
  /\ cell = Everywhere(CellOf(plan))
  /\ DOMAIN view = Workers
  /\ \A w \in Workers : \E x, y \in Shown : view[w] = ViewOf(plan, x, y)
  /\ buf \in [Workers -> [src : Contents, dst : Contents]]
  /\ step \in [Workers -> Steps]
  /\ result \in [Workers -> BOOLEAN]

\* How far the frame has come in the cell of worker w.
Flow(w) ==
  /\ view[w] = ViewOf(plan, "this", "this")
  /\ step[w] # "parked"
  /\ step[w] = "graph" /\ ~plan.srcZerocopy => buf[w].src = "this"
  /\ step[w] = "emit" /\ result[w] =>
       IF plan.dstZerocopy THEN out[w] = "this" ELSE buf[w].dst = "this"
  /\ step[w] = "finished" /\ result[w] => out[w] = "this"

FrameInv ==
  /\ Dispatched =>
       /\ pool.lazy = "started"
       /\ pool.broken <=> pc = "join"
       /\ FrameIoSafe(plan)
       /\ \A w \in Workers : Flow(w)
  /\ ~Dispatched => \A w \in Workers : step[w] \in {"parked", "gone"}

IInv == InstanceInv /\ WorkersInv /\ FrameInv

LEMMA Initially == Init => IInv
<1> SUFFICES ASSUME Init PROVE IInv
  OBVIOUS
<1>1. Sound(plan)
  BY GridAssumption DEF Init, Sound, Plans, NThreads, ColTiled
<1>2. DOMAIN cell = {} /\ DOMAIN view = {} /\ DOMAIN buf = {} /\ DOMAIN step = {} /\ DOMAIN result = {}
  BY DEF Init
<1>3. InstanceInv
  BY <1>1 DEF Init, InstanceInv, Pictures, Cells
<1>4. WorkersInv
  BY <1>2 DEF Init, WorkersInv, Workers, Everywhere
<1>5. FrameInv
  BY <1>2 DEF Init, FrameInv, Dispatched, Workers
<1>6. QED
  BY <1>3, <1>4, <1>5 DEF IInv

\* The first frame may choose another plan, which is as sound; the plan of the
\* workers stays.
LEMMA Prepared ==
  ASSUME IInv, PrepareFirstFrameIo
  PROVE  Sound(plan') /\ (pool.lazy # "fresh" => plan' = plan)
<1>1. ctx \in Contexts /\ frame.srcAligned \in BOOLEAN /\ frame.dstAligned \in BOOLEAN /\ Sound(plan)
  BY DEF IInv, InstanceInv, Pictures
<1>2. Sound(PlanFor(frame.srcAligned, frame.dstAligned))
  BY <1>1, PlanForSound
<1>3. QED
  BY <1>1, <1>2 DEF PrepareFirstFrameIo

\* Without workers the plan does not matter to them.
LEMMA WorkersStay ==
  ASSUME WorkersInv, UNCHANGED workers, pool' \in [lazy : {"fresh", "failed", "started"}, broken : BOOLEAN],
         pool.lazy = "started" <=> pool'.lazy = "started",
         pool.lazy = "started" => plan' = plan
  PROVE  WorkersInv'
<1>1. Workers' = Workers
  BY DEF workers, Workers
<1>2. CASE pool.lazy = "started"
  BY <1>1, <1>2 DEF WorkersInv, workers, Everywhere
<1>3. CASE pool.lazy # "started"
  <2>1. Workers = {} /\ Workers' = {}
    BY <1>1, <1>3 DEF WorkersInv
  <2>2. cell' = Everywhere(CellOf(plan))'
    BY <2>1 DEF WorkersInv, workers, Everywhere
  <2>3. QED
    BY <1>3, <2>1, <2>2 DEF WorkersInv, workers
<1>4. QED
  BY <1>2, <1>3

\* VLC's thread outside a dispatch, without a word to the workers.
LEMMA CallerKeeps ==
  ASSUME IInv,
         \/ Open \/ OpenFails \/ BrokenPool \/ BadGeometry \/ LazyFailed \/ LazyInitFails
  PROVE  IInv'
<1>1. /\ UNCHANGED <<ctx, misses, workers, frame, out>>
      /\ pc \in {"new", "process"} /\ pc' \in {"idle", "closed"}
      /\ pool.lazy = "started" <=> pool'.lazy = "started"
      /\ pool' \in [lazy : {"fresh", "failed", "started"}, broken : BOOLEAN]
  BY DEF IInv, InstanceInv, config, Open, OpenFails, BrokenPool, BadGeometry, LazyFailed,
         LazyInitFails, Viewed, Return
<1>2. Sound(plan') /\ (pool.lazy = "started" => plan' = plan)
  <2>1. CASE Open
    <3>1. pc = "new" /\ plan' = PlanFor(TRUE, TRUE) /\ ctx \in Contexts /\ pool.lazy = "fresh"
      BY <2>1 DEF IInv, InstanceInv, Open
    <3>2. QED
      BY <3>1, PlanForSound
  <2>2. CASE LazyFailed \/ LazyInitFails
    BY <2>2, Prepared DEF LazyFailed, LazyInitFails
  <2>3. CASE OpenFails \/ BrokenPool \/ BadGeometry
    BY <2>3 DEF IInv, InstanceInv, OpenFails, BrokenPool, BadGeometry, config
  <2>4. QED
    BY <2>1, <2>2, <2>3
<1>3. InstanceInv'
  BY <1>1, <1>2 DEF IInv, InstanceInv
<1>4. WorkersInv'
  BY <1>1, <1>2, WorkersStay DEF IInv
<1>5. FrameInv'
  BY <1>1 DEF IInv, FrameInv, Dispatched, workers, Workers
<1>6. QED
  BY <1>3, <1>4, <1>5 DEF IInv

\* Workers that stop, or stay parked, once no frame is on its way.
LEMMA RestKeeps ==
  ASSUME WorkersInv, UNCHANGED <<cell, view, buf, result, plan>>, pool'.lazy = pool.lazy,
         step' = Everywhere("gone") \/ step' = Everywhere("parked"), ~Dispatched'
  PROVE  WorkersInv' /\ FrameInv'
<1>1. Workers' = Workers
  BY DEF Workers
<1>2. step' \in [Workers -> Steps] /\ \A w \in Workers : step'[w] \in {"parked", "gone"}
  BY DEF Everywhere, Steps
<1>3. WorkersInv'
  BY <1>1, <1>2 DEF WorkersInv, Everywhere
<1>4. QED
  BY <1>1, <1>2, <1>3 DEF FrameInv

\* A new frame: what the workers show and hold is of an earlier one.
LEMMA ProcessKeeps ==
  ASSUME IInv, NEW pictures \in Pictures, Process(pictures)
  PROVE  IInv'
<1>1. Workers' = Workers
  BY DEF Process, Workers
<1>2. InstanceInv'
  BY DEF IInv, InstanceInv, Process, config, Contents
<1>3. ASSUME NEW w \in Workers
      PROVE  \E x, y \in Shown : view'[w] = ViewOf(plan, x, y)
  <2>1. PICK x \in Shown, y \in Shown : view[w] = ViewOf(plan, x, y)
    BY DEF IInv, WorkersInv
  <2>2. view'[w] = [side \in DOMAIN view[w] |-> Age(view[w][side])]
    BY DEF Process
  <2>3. view'[w] = ViewOf(plan, Age(x), Age(y))
    BY <2>1, <2>2 DEF ViewOf, Age, Shown
  <2>4. Age(x) \in Shown /\ Age(y) \in Shown
    BY DEF Age, Shown
  <2>5. QED
    BY <2>3, <2>4
<1>4. buf' \in [Workers -> [src : Contents, dst : Contents]]
  <2>1. ASSUME NEW w \in Workers
        PROVE  [side \in DOMAIN buf[w] |-> Age(buf[w][side])] \in [src : Contents, dst : Contents]
    <3>1. buf[w] \in [src : Contents, dst : Contents]
      BY DEF IInv, WorkersInv
    <3>2. QED
      BY <3>1 DEF Age, Contents
  <2>2. QED
    BY <2>1 DEF Process
<1>5. WorkersInv'
  BY <1>1, <1>3, <1>4 DEF IInv, WorkersInv, Process, config, Everywhere
<1>6. FrameInv'
  BY <1>1 DEF IInv, FrameInv, Process, Dispatched
<1>7. QED
  BY <1>2, <1>5, <1>6 DEF IInv

\* A frame that the plan does not suit leaves the workers, or sends them home.
LEMMA DriftKeeps ==
  ASSUME IInv, NoteAlignmentDrift
  PROVE  IInv'
<1>1. /\ Sound(plan') /\ (pool.lazy = "started" => plan' = plan)
      /\ pc = "process" /\ pc' = "idle" /\ UNCHANGED <<ctx, cell, view, buf, result, frame, out>>
      /\ pool.lazy' = pool.lazy /\ pool' \in [lazy : {"fresh", "failed", "started"}, broken : BOOLEAN]
  BY Prepared DEF IInv, InstanceInv, NoteAlignmentDrift, Viewed, Poison, Return
<1>2. Workers' = Workers
  BY <1>1 DEF Workers
<1>3. /\ step' \in [Workers -> Steps]
      /\ \A w \in Workers : step'[w] \in {"parked", "gone"}
  <2>1. step' = step \/ step' = Everywhere("gone")
    BY DEF NoteAlignmentDrift, Poison
  <2>2. step \in [Workers -> Steps] /\ \A w \in Workers : step[w] \in {"parked", "gone"}
    BY <1>1 DEF IInv, WorkersInv, FrameInv, Dispatched
  <2>3. QED
    BY <2>1, <2>2 DEF Everywhere, Steps
<1>4. InstanceInv'
  BY <1>1 DEF IInv, InstanceInv
<1>5. WorkersInv'
  <2>1. CASE pool.lazy = "started"
    BY <1>1, <1>2, <1>3, <2>1 DEF IInv, WorkersInv, Everywhere
  <2>2. CASE pool.lazy # "started"
    <3>1. Workers = {}
      BY <2>2 DEF IInv, WorkersInv
    <3>2. cell' = Everywhere(CellOf(plan))'
      BY <1>1, <1>2, <3>1 DEF IInv, WorkersInv, Everywhere
    <3>3. QED
      BY <1>1, <1>2, <1>3, <2>2, <3>1, <3>2 DEF IInv, WorkersInv
  <2>3. QED
    BY <2>1, <2>2
<1>6. FrameInv'
  BY <1>1, <1>2, <1>3 DEF FrameInv, Dispatched
<1>7. QED
  BY <1>4, <1>5, <1>6 DEF IInv

\* The workers are created with the modes of the plan.
LEMMA LazyInitKeeps ==
  ASSUME IInv, LazyInit
  PROVE  IInv'
<1> DEFINE ids == 1..NThreads(plan')
           Scratch(zerocopy) == IF zerocopy THEN "null" ELSE "scratch"
<1>1. Sound(plan') /\ UNCHANGED <<ctx, pc, frame, out, status>> /\ pc = "process"
      /\ pool.lazy = "fresh"
  BY Prepared DEF LazyInit, Viewed
<1>2. /\ pool' \in [lazy : {"fresh", "failed", "started"}, broken : BOOLEAN]
      /\ pool'.lazy = "started"
  BY DEF IInv, InstanceInv, LazyInit
<1>3. cell' = [w \in ids |-> CellOf(plan')] /\ Workers' = ids
  BY DEF LazyInit, CellOf, Workers
<1>4. DOMAIN view' = ids /\ \A w \in ids : \E x, y \in Shown : view'[w] = ViewOf(plan', x, y)
  <2>1. view' = [w \in ids |->
                   [src |-> Scratch(plan'.srcZerocopy),
                    dst |-> Scratch(plan'.dstZerocopy /\ ~ColTiled(plan')),
                    vlcSrc |-> "null", vlcDst |-> "null"]]
    BY DEF LazyInit
  <2>2. plan'.dstZerocopy /\ ~ColTiled(plan') <=> plan'.dstZerocopy
    BY <1>1 DEF Sound
  <2>3. \A w \in ids : view'[w] = ViewOf(plan', "null", "null")
    BY <2>1, <2>2 DEF ViewOf
  <2>4. QED
    BY <2>1, <2>3 DEF Shown
<1>5. /\ buf' \in [ids -> [src : Contents, dst : Contents]]
      /\ step' \in [ids -> Steps] /\ \A w \in ids : step'[w] = "parked"
      /\ result' \in [ids -> BOOLEAN]
  BY DEF LazyInit, Contents, Steps
<1>6. InstanceInv'
  BY <1>1, <1>2 DEF IInv, InstanceInv
<1>7. WorkersInv'
  BY <1>2, <1>3, <1>4, <1>5 DEF WorkersInv, Everywhere
<1>8. FrameInv'
  BY <1>1, <1>3, <1>5 DEF FrameInv, Dispatched
<1>9. QED
  BY <1>6, <1>7, <1>8 DEF IInv

\* The dispatch shows every worker this frame's pictures, which suit the plan.
LEMMA DispatchKeeps ==
  ASSUME IInv, Dispatch
  PROVE  IInv'
<1>1. /\ plan' = plan /\ pool.lazy = "started" /\ ~pool.broken /\ pc = "process" /\ pc' = "wait"
      /\ UNCHANGED <<ctx, cell, buf, result, frame, pool, out, status>>
      /\ FrameIoSafe(plan)
  BY Prepared DEF Dispatch, Viewed
<1>2. Workers' = Workers
  BY <1>1 DEF Workers
<1>3. DOMAIN view' = Workers /\ \A w \in Workers : view'[w] = ViewOf(plan, "this", "this")
  <2>1. view' = [w \in Workers |-> PointWorkersPlanes(view[w])]
    BY DEF Dispatch
  <2>2. ASSUME NEW w \in Workers
        PROVE  PointWorkersPlanes(view[w]) = ViewOf(plan, "this", "this")
    <3>1. PICK x \in Shown, y \in Shown : view[w] = ViewOf(plan, x, y)
      BY DEF IInv, WorkersInv
    <3>2. QED
      BY <3>1 DEF ViewOf, PointWorkersPlanes
  <2>3. QED
    BY <2>1, <2>2
<1>4. step' \in [Workers -> Steps] /\ \A w \in Workers : step'[w] = "armed"
  BY DEF Dispatch, Everywhere, Steps
<1>5. InstanceInv'
  BY <1>1 DEF IInv, InstanceInv
<1>6. WorkersInv'
  BY <1>1, <1>2, <1>3, <1>4 DEF IInv, WorkersInv, Everywhere, Shown
<1>7. FrameInv'
  BY <1>1, <1>2, <1>3, <1>4 DEF FrameInv, Dispatched, Flow, FrameIoSafe
<1>8. QED
  BY <1>5, <1>6, <1>7 DEF IInv

\* A worker steps only between the dispatch and its end.
LEMMA BusyWorker ==
  ASSUME IInv, NEW w \in Workers, step[w] \notin {"parked", "gone"}
  PROVE  /\ Dispatched /\ pool.lazy = "started" /\ w \in Cells
         /\ view[w] = ViewOf(plan, "this", "this") /\ cell[w] = CellOf(plan)
         /\ Flow(w) /\ FrameIoSafe(plan)
<1>1. Dispatched /\ pool.lazy = "started" /\ Flow(w) /\ FrameIoSafe(plan)
  BY DEF IInv, FrameInv
<1>2. Workers = 1..NThreads(plan) /\ NThreads(plan) \in 1..TileThreadsMax /\ TileThreadsMax \in Nat
  BY <1>1, GridAssumption DEF IInv, WorkersInv, InstanceInv, Sound
<1>3. w \in Cells
  BY <1>2 DEF Cells
<1>4. cell[w] = CellOf(plan)
  BY DEF IInv, WorkersInv, Everywhere
<1>5. QED
  BY <1>1, <1>3, <1>4 DEF Flow

\* Steps of a worker: what it must be shown to keep.
LEMMA WorkerKeeps ==
  ASSUME IInv, NEW w \in Workers, Dispatched, pool.lazy = "started",
         UNCHANGED <<config, cell, view, pc, frame, pool>>,
         \E s \in Steps : step' = [step EXCEPT ![w] = s],
         buf' \in [Workers -> [src : Contents, dst : Contents]],
         \A v \in Workers \ {w} : buf'[v] = buf[v] /\ out'[v] = out[v] /\ result'[v] = result[v],
         out' \in [Cells -> Contents \cup {"untouched"}],
         result' \in [Workers -> BOOLEAN],
         Flow(w)'
  PROVE  IInv'
<1>1. Workers' = Workers
  BY DEF Workers
<1>2. InstanceInv'
  BY DEF IInv, InstanceInv, config, Dispatched
<1>3. WorkersInv'
  BY <1>1 DEF IInv, WorkersInv, config, Everywhere
<1>4. \A v \in Workers : Flow(v)'
  <2> SUFFICES ASSUME NEW v \in Workers \ {w} PROVE Flow(v)'
    OBVIOUS
  <2>1. Flow(v)
    BY DEF IInv, FrameInv
  <2>2. step'[v] = step[v]
    BY DEF IInv, WorkersInv
  <2>3. QED
    BY <2>1, <2>2 DEF Flow, config
<1>5. FrameInv'
  BY <1>1, <1>4 DEF IInv, FrameInv, Dispatched, config, FrameIoSafe
<1>6. QED
  BY <1>2, <1>3, <1>5 DEF IInv

LEMMA WorkerStepKeeps ==
  ASSUME IInv, NEW w \in Workers, WorkerStep(w)
  PROVE  IInv'
<1>1. step[w] \notin {"parked", "gone"}
  BY DEF WorkerStep, CopyIn, Graph, EmitOutput, Leave
<1>2. /\ Dispatched /\ pool.lazy = "started" /\ w \in Cells
      /\ view[w] = ViewOf(plan, "this", "this") /\ cell[w] = CellOf(plan)
      /\ Flow(w)
  BY <1>1, BusyWorker
<1>3. /\ buf \in [Workers -> [src : Contents, dst : Contents]]
      /\ step \in [Workers -> Steps] /\ result \in [Workers -> BOOLEAN]
      /\ out \in [Cells -> Contents \cup {"untouched"}]
      /\ ColTiled(plan) => plan.srcZerocopy /\ ~plan.dstZerocopy
      /\ plan.srcZerocopy \in BOOLEAN /\ plan.dstZerocopy \in BOOLEAN
  BY DEF IInv, WorkersInv, InstanceInv, Sound, Plans
<1>4. /\ buf[w].src \in Contents /\ buf[w].dst \in Contents /\ result[w] \in BOOLEAN
      /\ cell[w].copyIn = ~plan.srcZerocopy /\ cell[w].copyOut = ~plan.dstZerocopy
      /\ cell[w].tiled = ColTiled(plan)
  <2>1. /\ CellOf(plan).copyIn = ~plan.srcZerocopy /\ CellOf(plan).copyOut = ~plan.dstZerocopy
        /\ CellOf(plan).tiled = ColTiled(plan)
    BY DEF CellOf
  <2>2. buf[w].src \in Contents /\ buf[w].dst \in Contents /\ result[w] \in BOOLEAN
    BY <1>3
  <2>3. QED
    BY <1>2, <2>1, <2>2, Zenon
<1>5. CASE CopyIn(w)
  <2>1. /\ UNCHANGED <<config, cell, view, pc, frame, pool>> /\ result' = result /\ out' = out
        /\ step[w] = "armed" /\ step' = [step EXCEPT ![w] = "graph"]
    BY <1>5 DEF CopyIn
  <2>2. CASE plan.srcZerocopy
    <3>1. buf' = buf
      BY <1>4, <1>5, <2>2, Zenon DEF CopyIn
    <3>2. Flow(w)'
      BY <1>2, <1>3, <2>1, <2>2, <3>1 DEF Flow, config
    <3>3. QED
      BY <1>2, <1>3, <2>1, <3>1, <3>2, WorkerKeeps DEF Steps
  <2>3. CASE ~plan.srcZerocopy
    <3>1. cell[w].copyIn /\ ~cell[w].tiled /\ view[w].vlcSrc = "this"
      <4>1. cell[w].copyIn /\ ~cell[w].tiled
        BY <1>3, <1>4, <2>3, Zenon
      <4>2. QED
        BY <1>2, <2>3, <4>1 DEF ViewOf
    <3>2. buf' = [buf EXCEPT ![w].src = "this"]
      BY <1>5, <3>1 DEF CopyIn
    <3>3. /\ buf' \in [Workers -> [src : Contents, dst : Contents]]
          /\ buf'[w].src = "this" /\ \A v \in Workers \ {w} : buf'[v] = buf[v]
      BY <1>3, <3>2 DEF Contents
    <3>4. Flow(w)'
      BY <1>2, <1>3, <2>1, <3>3 DEF Flow, config
    <3>5. QED
      BY <1>2, <1>3, <2>1, <3>3, <3>4, WorkerKeeps DEF Steps
  <2>4. QED
    BY <1>3, <2>2, <2>3
<1>6. ASSUME NEW ok \in BOOLEAN, Graph(w, ok)
      PROVE  IInv'
  <2> DEFINE read == IF view[w].src = "scratch" THEN buf[w].src ELSE view[w].src
             made == IF ok THEN read ELSE "half"
  <2>1. /\ UNCHANGED <<config, cell, view, pc, frame, pool>>
        /\ step[w] = "graph" /\ step' = [step EXCEPT ![w] = "emit"]
        /\ result' = [result EXCEPT ![w] = ok]
        /\ buf' = [buf EXCEPT ![w].dst = Through(view[w].dst, "scratch", @, made)]
        /\ out' = [out EXCEPT ![w] = Through(view[w].dst, "this", @, made)]
    BY <1>6 DEF Graph
  <2>2. made \in Contents /\ (ok => made = "this")
    BY <1>2, <1>3, <1>4, <2>1 DEF Flow, ViewOf, Contents
  <2> HIDE DEF made
  <2>3. /\ result' \in [Workers -> BOOLEAN] /\ result'[w] = ok
        /\ \A v \in Workers \ {w} : result'[v] = result[v]
    BY <1>3, <2>1
  <2>4. CASE plan.dstZerocopy
    <3>1. view[w].dst = "this"
      BY <1>2, <2>4 DEF ViewOf
    <3>2. buf' = [buf EXCEPT ![w].dst = buf[w].dst] /\ out' = [out EXCEPT ![w] = made]
      BY <1>3, <2>1, <3>1 DEF Through
    <3>3. /\ buf' \in [Workers -> [src : Contents, dst : Contents]]
          /\ out' \in [Cells -> Contents \cup {"untouched"}] /\ out'[w] = made
          /\ \A v \in Workers \ {w} : buf'[v] = buf[v] /\ out'[v] = out[v]
      BY <1>2, <1>3, <1>4, <2>2, <3>2
    <3>4. Flow(w)'
      BY <1>2, <1>3, <2>1, <2>2, <2>3, <2>4, <3>3 DEF Flow, config
    <3>5. QED
      BY <1>2, <2>1, <2>3, <3>3, <3>4, WorkerKeeps DEF Steps
  <2>5. CASE ~plan.dstZerocopy
    <3>1. view[w].dst = "scratch"
      BY <1>2, <2>5 DEF ViewOf
    <3>2. buf' = [buf EXCEPT ![w].dst = made] /\ out' = [out EXCEPT ![w] = out[w]]
      BY <1>3, <2>1, <3>1 DEF Through
    <3>3. /\ buf' \in [Workers -> [src : Contents, dst : Contents]] /\ buf'[w].dst = made
          /\ out' \in [Cells -> Contents \cup {"untouched"}]
          /\ \A v \in Workers \ {w} : buf'[v] = buf[v] /\ out'[v] = out[v]
      BY <1>2, <1>3, <1>4, <2>2, <3>2
    <3>4. Flow(w)'
      BY <1>2, <1>3, <2>1, <2>2, <2>3, <2>5, <3>3 DEF Flow, config
    <3>5. QED
      BY <1>2, <2>1, <2>3, <3>3, <3>4, WorkerKeeps DEF Steps
  <2>6. QED
    BY <1>3, <2>4, <2>5
<1>7. CASE EmitOutput(w)
  <2>1. /\ UNCHANGED <<config, cell, view, pc, frame, pool>> /\ buf' = buf /\ result' = result
        /\ step[w] = "emit" /\ step' = [step EXCEPT ![w] = "finished"]
    BY <1>7 DEF EmitOutput
  <2>2. CASE result[w] /\ ~plan.dstZerocopy
    <3>1. /\ cell[w].copyOut /\ view[w].vlcDst = "this" /\ buf[w].dst = "this"
      <4>1. cell[w].copyOut
        BY <1>4, <2>2, Zenon
      <4>2. QED
        BY <1>2, <2>1, <2>2, <4>1 DEF ViewOf, Flow
    <3>2. out' = [out EXCEPT ![w] = "this"]
      BY <1>7, <2>2, <3>1 DEF EmitOutput, Through
    <3>3. /\ out' \in [Cells -> Contents \cup {"untouched"}] /\ out'[w] = "this"
          /\ \A v \in Workers \ {w} : out'[v] = out[v]
      BY <1>2, <1>3, <3>2 DEF Contents
    <3>4. Flow(w)'
      BY <1>2, <1>3, <2>1, <3>3 DEF Flow, config
    <3>5. QED
      BY <1>2, <1>3, <2>1, <3>3, <3>4, WorkerKeeps DEF Steps
  <2>3. CASE ~(result[w] /\ ~plan.dstZerocopy)
    <3>1. out' = out
      BY <1>3, <1>4, <1>7, <2>3, Zenon DEF EmitOutput
    <3>2. Flow(w)'
      BY <1>2, <1>3, <2>1, <2>3, <3>1 DEF Flow, config
    <3>3. QED
      BY <1>2, <1>3, <2>1, <3>1, <3>2, WorkerKeeps DEF Steps
  <2>4. QED
    BY <2>2, <2>3
<1>8. CASE Leave(w)
  <2>1. /\ UNCHANGED <<config, cell, view, pc, frame, pool>> /\ buf' = buf /\ result' = result /\ out' = out
        /\ step' = [step EXCEPT ![w] = "gone"]
    BY <1>8 DEF Leave
  <2>2. Flow(w)'
    BY <1>2, <1>3, <2>1 DEF Flow, config
  <2>3. QED
    BY <1>2, <1>3, <2>1, <2>2, WorkerKeeps DEF Steps
<1>9. QED
  BY <1>5, <1>6, <1>7, <1>8 DEF WorkerStep

\* The end of a dispatch.
LEMMA EndKeeps ==
  ASSUME IInv, CheckWorkerResults \/ Joined \/ Close
  PROVE  IInv'
<1>1. /\ UNCHANGED <<config, cell, view, buf, result, frame, out>> /\ pool'.lazy = pool.lazy
      /\ pool' \in [lazy : {"fresh", "failed", "started"}, broken : BOOLEAN]
      /\ pc' \in {"idle", "closed"}
      /\ step' = Everywhere("gone") \/ step' = Everywhere("parked")
  BY DEF IInv, InstanceInv, CheckWorkerResults, Joined, Close, Poison, Return
<1>2. InstanceInv'
  BY <1>1 DEF IInv, InstanceInv, config
<1>3. WorkersInv' /\ FrameInv'
  BY <1>1, RestKeeps DEF IInv, config, Dispatched
<1>4. QED
  BY <1>2, <1>3 DEF IInv

LEMMA BarrierFailsKeeps ==
  ASSUME IInv, BarrierFails
  PROVE  IInv'
<1>1. /\ UNCHANGED <<config, workers, frame, out, status>> /\ pc = "wait" /\ pc' = "join"
      /\ pool'.lazy = pool.lazy /\ pool'.broken = TRUE
      /\ pool' \in [lazy : {"fresh", "failed", "started"}, broken : BOOLEAN]
  BY DEF IInv, InstanceInv, BarrierFails
<1>2. InstanceInv'
  BY <1>1 DEF IInv, InstanceInv, config
<1>3. WorkersInv'
  BY <1>1, WorkersStay DEF IInv, config
<1>4. FrameInv'
  BY <1>1 DEF IInv, FrameInv, Dispatched, Workers, Flow, FrameIoSafe, workers, config
<1>5. QED
  BY <1>2, <1>3, <1>4 DEF IInv

LEMMA Preserved == IInv /\ [Next]_vars => IInv'
<1> SUFFICES ASSUME IInv, [Next]_vars PROVE IInv'
  OBVIOUS
<1>1. CASE UNCHANGED vars
  BY <1>1 DEF IInv, InstanceInv, WorkersInv, FrameInv, Dispatched, Workers, Flow, FrameIoSafe,
              Everywhere, vars, workers, config
<1>2. CASE Next
  <2>1. CASE \/ Open \/ OpenFails \/ BrokenPool \/ BadGeometry \/ LazyFailed \/ LazyInitFails
    BY <2>1, CallerKeeps
  <2>2. CASE \E pictures \in Pictures : Process(pictures)
    BY <2>2, ProcessKeeps
  <2>3. CASE NoteAlignmentDrift
    BY <2>3, DriftKeeps
  <2>4. CASE LazyInit
    BY <2>4, LazyInitKeeps
  <2>5. CASE Dispatch
    BY <2>5, DispatchKeeps
  <2>6. CASE \E w \in Workers : WorkerStep(w)
    BY <2>6, WorkerStepKeeps
  <2>7. CASE CheckWorkerResults \/ Joined \/ Close
    BY <2>7, EndKeeps
  <2>8. CASE BarrierFails
    BY <2>8, BarrierFailsKeeps
  <2>9. CASE Closed
    BY <1>1, <2>9 DEF Closed
  <2>10. QED
    BY <1>2, <2>1, <2>2, <2>3, <2>4, <2>5, <2>6, <2>7, <2>8, <2>9 DEF Next, ProcessStep
<1>3. QED
  BY <1>1, <1>2

\* Whatever the first frame's storage, the plan and the failures, the workers of
\* a dispatch show this frame, and their modes suit it.
THEOREM BackendInvariant == Spec => []IInv
BY Initially, Preserved, PTL DEF Spec

\* No graph touches a picture that is not aligned, and no callback sees one of
\* an earlier frame (zimg_process, the comments on drift).
THEOREM DirectIo == Spec => []DirectIoSafe
<1>1. IInv => DirectIoSafe
  <2> SUFFICES ASSUME IInv, NEW w \in Workers
               PROVE  /\ ~AtRest(w) => \A side \in DOMAIN view[w] : view[w][side] # "old"
                      /\ step[w] = "graph" =>
                           /\ view[w].src # "scratch" => frame.srcAligned
                           /\ view[w].dst # "scratch" => frame.dstAligned
    BY DEF DirectIoSafe
  <2>1. CASE step[w] \in {"parked", "gone"}
    BY <2>1 DEF AtRest
  <2>2. CASE step[w] \notin {"parked", "gone"}
    BY <2>2, BusyWorker DEF ViewOf, FrameIoSafe
  <2>3. QED
    BY <2>1, <2>2
<1>2. QED
  BY <1>1, BackendInvariant, PTL

-----------------------------------------------------------------------------
(* The refinement.                                                         *)

Untouched(picture) == \A c \in Cells : picture[c] = "untouched"
Whole(picture, n) == \A c \in 1..n : picture[c] = "this"
OutputFor(picture, n) ==
  CASE Untouched(picture) -> "untouched" [] Whole(picture, n) -> "whole" [] OTHER -> "partial"

LEMMA OutputCases ==
  ASSUME NEW picture, NEW n \in 1..TileThreadsMax
  PROVE  /\ Untouched(picture) => OutputFor(picture, n) = "untouched"
         /\ ~Untouched(picture) => OutputFor(picture, n) \in {"whole", "partial"}
         /\ Whole(picture, n) => OutputFor(picture, n) = "whole"
<1>1. ~(Untouched(picture) /\ Whole(picture, n))
  <2>1. 1 \in Cells /\ 1 \in 1..n
    BY GridAssumption DEF Cells
  <2>2. QED
    BY <2>1 DEF Untouched, Whole
<1>2. QED
  BY <1>1 DEF OutputFor

LEMMA OutputNow ==
  /\ OutputIs = OutputFor(out, NThreads(plan))
  /\ OutputIs' = OutputFor(out', NThreads(plan'))
BY DEF OutputIs, OutputFor, Untouched, Whole, NThreads

\* The abstract state in the terms of the concrete one.
LEMMA AbstractVars ==
  ASSUME InstanceInv, InstanceInv'
  PROVE  /\ Untouched(out) => OutputIs = "untouched"
         /\ Untouched(out') => OutputIs' = "untouched"
         /\ ~Untouched(out') => OutputIs' \in {"whole", "partial"}
         /\ Whole(out, NThreads(plan)) => OutputIs = "whole"
         /\ out' = out /\ plan' = plan => OutputIs' = OutputIs
         /\ pc \in {"new", "process"} => Untouched(out)
<1>1. NThreads(plan) \in 1..TileThreadsMax /\ NThreads(plan') \in 1..TileThreadsMax
  BY DEF InstanceInv, Sound, NThreads
<1>2. pc \in {"new", "process"} => Untouched(out)
  BY DEF InstanceInv, Untouched
<1>3. QED
  BY <1>1, <1>2, OutputCases, OutputNow

\* What a worker writes into VLC's picture is never nothing.
LEMMA Written ==
  ASSUME IInv, NEW w \in Workers, WorkerStep(w), w \in Cells, out' # out
  PROVE  out'[w] # "untouched"
<1>1. /\ buf[w].src \in Contents /\ buf[w].dst \in Contents /\ out \in [Cells -> Contents \cup {"untouched"}]
      /\ step[w] \notin {"parked", "gone"} => view[w] = ViewOf(plan, "this", "this")
  BY BusyWorker DEF IInv, WorkersInv, InstanceInv
<1>2. ASSUME NEW ok \in BOOLEAN, Graph(w, ok)
      PROVE  out'[w] # "untouched"
  <2> DEFINE read == IF view[w].src = "scratch" THEN buf[w].src ELSE view[w].src
             made == IF ok THEN read ELSE "half"
  <2>1. out' = [out EXCEPT ![w] = Through(view[w].dst, "this", @, made)] /\ step[w] = "graph"
    BY <1>2 DEF Graph
  <2>2. made # "untouched"
    BY <1>1, <2>1 DEF ViewOf, Contents
  <2> HIDE DEF made
  <2>3. QED
    BY <1>1, <2>1, <2>2 DEF Through
<1>3. CASE EmitOutput(w)
  BY <1>1, <1>3 DEF EmitOutput, Through, Contents
<1>4. QED
  BY <1>2, <1>3 DEF WorkerStep, CopyIn, Leave

\* The mapped variables, one name each.
Phase == IF pc \in {"process", "wait", "join"} THEN "busy" ELSE pc
Usable == ~pool.broken /\ pool.lazy # "failed"

LEMMA Simulation == IInv /\ IInv' /\ [Next]_vars => [Abstract!Next]_(Abstract!vars)
<1> SUFFICES ASSUME IInv, IInv', [Next]_vars
             PROVE  \/ Abstract!Next
                    \/ UNCHANGED <<Phase, OutputIs, status, Usable>>
  BY DEF Abstract!vars, Phase, Usable
<1>0. /\ Untouched(out) => OutputIs = "untouched"
      /\ Untouched(out') => OutputIs' = "untouched"
      /\ ~Untouched(out') => OutputIs' \in {"whole", "partial"}
      /\ Whole(out, NThreads(plan)) => OutputIs = "whole"
      /\ out' = out /\ plan' = plan => OutputIs' = OutputIs
      /\ pc \in {"new", "process"} => Untouched(out)
  BY AbstractVars DEF IInv
<1> DEFINE
  AOpen == Phase = "new" /\ Phase' = "idle" /\ UNCHANGED <<OutputIs, status, Usable>>
  ABegin == Phase = "idle" /\ Phase' = "busy" /\ OutputIs' = "untouched" /\ status' = "none"
            /\ UNCHANGED Usable
  AWrite == Phase = "busy" /\ OutputIs' \in {"partial", "whole"} /\ UNCHANGED <<Phase, status, Usable>>
  ABreak == Phase = "busy" /\ Usable' = FALSE /\ UNCHANGED <<Phase, OutputIs, status>>
  AReturn == /\ Phase = "busy" /\ Phase' = "idle"
             /\ \/ status' = "ok" /\ Usable /\ Usable' /\ OutputIs = "whole"
                \/ status' = "transient" /\ Usable' = Usable
                \/ status' = "fatal" /\ ~Usable'
             /\ Usable' \in BOOLEAN
             /\ UNCHANGED OutputIs
  AClose == Phase \in {"new", "idle"} /\ Phase' = "closed" /\ UNCHANGED <<OutputIs, status, Usable>>
<1>1. AOpen \/ ABegin \/ AWrite \/ ABreak \/ AReturn \/ AClose => Abstract!Next
  BY DEF Abstract!Next, Abstract!Open, Abstract!Begin, Abstract!Write, Abstract!Break,
         Abstract!Return, Abstract!Close, Phase, Usable
<1> HIDE DEF AOpen, ABegin, AWrite, ABreak, AReturn, AClose
<1>2. CASE Open \/ OpenFails
  <2>1. /\ pc = "new" /\ Untouched(out) /\ UNCHANGED <<out, status, pool>>
        /\ pc' = (IF Open THEN "idle" ELSE "closed")
    BY <1>0, <1>2 DEF Open, OpenFails
  <2>2. UNCHANGED <<OutputIs, status, Usable>>
    BY <1>0, <2>1 DEF Usable
  <2>3. AOpen \/ AClose
    BY <2>1, <2>2 DEF AOpen, AClose, Phase
  <2>4. QED
    BY <1>1, <2>3
<1>3. CASE Close
  <2>1. UNCHANGED <<OutputIs, status, Usable>>
    BY <1>0, <1>3 DEF Close, config, Usable
  <2>2. AClose
    BY <1>3, <2>1 DEF AClose, Close, Phase
  <2>3. QED
    BY <1>1, <2>2
<1>4. ASSUME NEW pictures \in Pictures, Process(pictures)
      PROVE  Abstract!Next
  <2>1. Untouched(out') /\ UNCHANGED Usable
    BY <1>4 DEF Process, Untouched, Usable
  <2>2. ABegin
    BY <1>0, <1>4, <2>1 DEF ABegin, Process, Phase
  <2>3. QED
    BY <1>1, <2>2
<1>5. CASE BrokenPool \/ BadGeometry \/ NoteAlignmentDrift \/ LazyFailed \/ LazyInitFails
  <2>1. /\ pc = "process" /\ pc' = "idle" /\ out' = out
        /\ \/ status' = "fatal" /\ (pool'.broken \/ pool'.lazy = "failed")
           \/ status' = "transient" /\ pool' = pool
    BY <1>5 DEF IInv, InstanceInv, BrokenPool, BadGeometry, NoteAlignmentDrift, LazyFailed,
                LazyInitFails, Viewed, Return, Poison
  <2>2. UNCHANGED OutputIs
    BY <1>0, <2>1
  <2>3. /\ \/ status' = "transient" /\ Usable' = Usable
           \/ status' = "fatal" /\ ~Usable'
        /\ Usable' \in BOOLEAN
    BY <2>1 DEF Usable
  <2>4. AReturn
    BY <2>1, <2>2, <2>3 DEF AReturn, Phase
  <2>5. QED
    BY <1>1, <2>4
<1>6. CASE LazyInit \/ Dispatch
  <2>1. /\ pc = "process" /\ pc' \in {"process", "wait"} /\ out' = out /\ status' = status
        /\ pool'.broken = pool.broken /\ pool.lazy # "failed" /\ pool'.lazy # "failed"
    BY <1>6 DEF IInv, InstanceInv, LazyInit, Dispatch, Viewed
  <2>2. UNCHANGED <<OutputIs, Usable, Phase>>
    BY <1>0, <2>1 DEF Usable, Phase
  <2>3. QED
    BY <2>1, <2>2
<1>7. ASSUME NEW w \in Workers, WorkerStep(w)
      PROVE  Abstract!Next \/ UNCHANGED <<Phase, OutputIs, status, Usable>>
  <2>1. /\ step[w] \notin {"parked", "gone"}
        /\ UNCHANGED <<config, cell, view, pc, frame, pool, status>>
    BY <1>7 DEF WorkerStep, CopyIn, Graph, EmitOutput, Leave
  <2>2. pc \in {"wait", "join"} /\ w \in Cells
    BY <2>1, BusyWorker DEF Dispatched
  <2>3. UNCHANGED <<Phase, status, Usable>> /\ Phase = "busy"
    BY <2>1, <2>2 DEF Phase, Usable
  <2>4. CASE out' = out
    <3>1. UNCHANGED OutputIs
      BY <1>0, <2>1, <2>4 DEF config
    <3>2. QED
      BY <2>3, <3>1
  <2>5. CASE out' # out
    <3>1. out'[w] # "untouched"
      BY <1>7, <2>2, <2>5, Written
    <3>2. ~Untouched(out')
      BY <2>2, <3>1 DEF Untouched
    <3>3. AWrite
      BY <1>0, <2>3, <3>2 DEF AWrite
    <3>4. QED
      BY <1>1, <3>3
  <2>6. QED
    BY <2>4, <2>5
<1>8. CASE CheckWorkerResults \/ Joined
  <2>1. /\ pc \in {"wait", "join"} /\ pc' = "idle" /\ UNCHANGED <<config, out>>
    BY <1>8 DEF CheckWorkerResults, Joined, Return
  <2>2. UNCHANGED OutputIs
    BY <1>0, <2>1 DEF config
  <2>3. /\ pool.lazy = "started" /\ (pool.broken <=> pc = "join")
        /\ Workers = 1..NThreads(plan)
        /\ \A w \in Workers : Flow(w)
    BY <2>1 DEF IInv, FrameInv, WorkersInv, Dispatched
  <2>4. CASE Joined \/ \E w \in Workers : ~result[w]
    <3>1. status' = "fatal" /\ pool'.broken
      BY <1>8, <2>1, <2>3, <2>4 DEF CheckWorkerResults, Joined, Return, Poison, IInv, InstanceInv
    <3>2. AReturn
      BY <2>1, <2>2, <3>1 DEF AReturn, Phase, Usable
    <3>3. QED
      BY <1>1, <3>2
  <2>5. CASE CheckWorkerResults /\ \A w \in Workers : result[w]
    <3>1. /\ status' = "ok" /\ pool' = pool /\ pc = "wait"
          /\ \A w \in Workers : step[w] = "finished"
      BY <2>5 DEF CheckWorkerResults, Return
    <3>2. Whole(out, NThreads(plan))
      BY <2>3, <2>5, <3>1 DEF Whole, Flow
    <3>3. Usable /\ Usable'
      BY <2>3, <3>1 DEF Usable
    <3>4. AReturn
      BY <1>0, <2>1, <2>2, <3>1, <3>2, <3>3 DEF AReturn, Phase
    <3>5. QED
      BY <1>1, <3>4
  <2>6. QED
    BY <1>8, <2>4, <2>5
<1>9. CASE BarrierFails
  <2>1. ABreak
    BY <1>0, <1>9 DEF ABreak, BarrierFails, config, Phase, Usable, IInv, InstanceInv
  <2>2. QED
    BY <1>1, <2>1
<1>10. CASE Closed \/ UNCHANGED vars
  BY <1>0, <1>10 DEF Closed, vars, config, Phase, Usable
<1>11. QED
  BY <1>2, <1>3, <1>4, <1>5, <1>6, <1>7, <1>8, <1>9, <1>10 DEF Next, ProcessStep

\* The zimg backend is a scaler backend: OK only with the whole picture written
\* from this frame, FATAL for good, and no write outside a call.
THEOREM Refinement == Spec => ImplementsBackend
<1>1. Init => Abstract!Init
  <2> SUFFICES ASSUME Init PROVE Abstract!Init
    OBVIOUS
  <2>1. InstanceInv /\ Untouched(out)
    BY Initially DEF IInv, Init, Untouched
  <2>2. OutputIs = "untouched"
    <3>1. NThreads(plan) \in 1..TileThreadsMax
      BY <2>1 DEF InstanceInv, Sound
    <3>2. QED
      BY <2>1, <3>1, OutputCases, OutputNow
  <2>3. QED
    BY <2>2 DEF Init, Abstract!Init
<1>2. QED
  BY <1>1, Simulation, BackendInvariant, PTL DEF Spec, ImplementsBackend, Abstract!Spec
=============================================================================
