----------------------------- MODULE UsmStripes ------------------------------
(***************************************************************************)
(* usm_pool.c: the rows of a luma plane during up_usm_pool_apply.  Each    *)
(* worker sweeps its stripe from the top and keeps three blurred rows; a   *)
(* sharpened row needs its two neighbours as they were before the frame.   *)
(* In place, the rows next to a stripe are overwritten by other workers    *)
(* meanwhile, so copies of them, the halo, are taken before the dispatch.  *)
(***************************************************************************)
EXTENDS Integers, FiniteSetsExt, ThreadPolicy

CONSTANTS
  StripeMinRows, \* USM_STRIPE_MIN_ROWS
  Heights,       \* bound: heights of the plane
  Tiers,         \* the counts of up_usm_threads_decide: <<[pixels, threads], ...>>
  LargeThreads,  \* its count for larger pictures
  Widths,        \* bound: widths of the plane
  Prefs, Cores,  \* bound: values of the option threads; CPUs of the process
  MinRows        \* bound: values of the option for the least stripe; 0 is unset

ASSUME UsmAssumption ==
  /\ {StripeMinRows, LargeThreads} \subseteq Nat \ {0}
  /\ Heights \subseteq Nat \ {0} /\ Widths \subseteq Nat \ {0}
  /\ Tiers \in Seq([pixels : Nat, threads : Nat \ {0}])
  /\ MinRows \subseteq Nat /\ Prefs \subseteq Int /\ Cores \subseteq Int

VARIABLES
  height,  \* p->height
  minRows, \* stripe_min_rows of up_usm_pool_create
  pref,    \* p->n_threads_pref
  n,       \* p->n_threads: the workers that came up
  lazy,    \* the pool's lazy state: "fresh", "started" or "failed"
  broken,  \* the pool's poison flag
  pc,      \* the caller: "idle", or in "wait" or "join" of a dispatch
  inPlace, \* dst == src
  plane,   \* what each row of the destination holds
  wpc,     \* per worker: its place in usm_worker_sweep
  y,       \* per worker: the row it is at
  rows,    \* per worker: the source rows blurred in up, mid and dn
  halo,    \* per worker: the source rows in halo_top and halo_bot
  result   \* of the last up_usm_pool_apply

pool == <<height, minRows, pref>>
sweep == <<wpc, y, rows, plane>>
vars == <<pool, sweep, n, lazy, broken, pc, inPlace, halo, result>>

Null == -2     \* a halo that is not used
Spoiled == -1  \* a row that was read after it had been overwritten

Rows == 0..height - 1
Workers == 0..n - 1

\* up_usm_threads_decide: AUTO goes by the size of the picture.
UsmThreadsDecide(user, cores, w, h) ==
  LET fitting == {i \in DOMAIN Tiers : w * h <= Tiers[i].pixels}
  IN  ThreadsDecide(IF user > 0 THEN user
                    ELSE IF fitting = {} THEN LargeThreads
                    ELSE Tiers[Min(fitting)].threads, cores)

ResolveThreadsRoundedUp(threads, h, min) ==  \* MUTANT of ResolveThreads: rounds the other way
  LET least == IF min <= 0 THEN StripeMinRows ELSE min
  IN  Min({threads, ThreadsMax, Max({(h + least - 1) \div least, 1})})

\* usm_pool_resolve_threads
ResolveThreads(threads, h, min) ==
  LET least == IF min <= 0 THEN StripeMinRows ELSE min
  IN  Min({threads, ThreadsMax, Max({h \div least, 1})})

\* usm_pool_repartition_stripes, over the workers there are.
YStart(w) == (w * height) \div n
YEnd(w) == IF w = n - 1 THEN height ELSE ((w + 1) * height) \div n

Untouched == [r \in Rows |-> "before"]

\* InitUsmPool and up_usm_pool_create
Init ==
  /\ height \in Heights
  /\ minRows \in MinRows
  /\ \E user \in Prefs, cores \in Cores, width \in Widths :
       pref = ResolveThreads(UsmThreadsDecide(user, cores, width, height), height, minRows)
  /\ n = 0
  /\ lazy = "fresh" /\ broken = FALSE
  /\ pc = "idle"
  /\ inPlace = FALSE
  /\ plane = Untouched
  /\ wpc = <<>> /\ y = <<>> /\ rows = <<>> /\ halo = <<>>
  /\ result = "none"

\* Bad arguments, a broken pool, or a pool that could not start.
ApplyRefused ==
  /\ pc = "idle"
  /\ plane' = Untouched
  /\ result' = "unchanged"
  /\ UNCHANGED <<pool, wpc, y, rows, n, lazy, broken, pc, inPlace, halo>>

\* The identity fast path, amount 0; it starts no thread.
ApplyIdentity(same) ==
  /\ pc = "idle"
  /\ ~broken
  /\ inPlace' = same
  /\ plane' = [r \in Rows |-> "copied"]
  /\ result' = "ok"
  /\ UNCHANGED <<pool, wpc, y, rows, n, lazy, broken, pc, halo>>

\* up_worker_pool_ensure_started: as many workers as the system could start,
\* and usm_pool_finalize cuts the plane for exactly those.
StartFails ==
  /\ pc = "idle"
  /\ ~broken /\ lazy = "fresh"
  /\ lazy' = "failed"
  /\ plane' = Untouched
  /\ result' = "unchanged"
  /\ UNCHANGED <<pool, wpc, y, rows, n, broken, pc, inPlace, halo>>

Start(created) ==
  /\ pc = "idle"
  /\ ~broken /\ lazy = "fresh"
  /\ lazy' = "started"
  /\ n' = created
  /\ wpc' = [w \in 0..created - 1 |-> "parked"]
  /\ y' = [w \in 0..created - 1 |-> 0]
  /\ rows' = [w \in 0..created - 1 |-> [up |-> Null, mid |-> Null, dn |-> Null]]
  /\ halo' = [w \in 0..created - 1 |-> [top |-> Null, bot |-> Null]]
  /\ UNCHANGED <<pool, plane, broken, pc, inPlace, result>>

SnapshotHaloTop(w) ==  \* MUTANT of SnapshotHalo: the row below the stripe is not kept
  [top |-> IF YStart(w) > 0 THEN YStart(w) - 1 ELSE Null, bot |-> Null]

\* usm_worker_snapshot_halo, while the workers are parked.
SnapshotHalo(w) ==
  [top |-> IF YStart(w) > 0 THEN YStart(w) - 1 ELSE Null,
   bot |-> IF YEnd(w) < height THEN YEnd(w) ELSE Null]

\* usm_pool_set_per_frame, then the dispatch.
Apply(same) ==
  /\ pc = "idle"
  /\ ~broken /\ lazy = "started"
  /\ inPlace' = same
  /\ plane' = Untouched
  /\ halo' = [w \in Workers |-> IF same THEN SnapshotHalo(w)
                                ELSE [top |-> Null, bot |-> Null]]
  /\ wpc' = [w \in Workers |-> "armed"]
  /\ pc' = "wait"
  /\ result' = "none"
  /\ UNCHANGED <<pool, y, rows, n, lazy, broken>>

-----------------------------------------------------------------------------
(* usm_worker_sweep                                                        *)

\* A row of the source plane, read now.
PlaneRow(r) == IF inPlace /\ plane[r] # "before" THEN Spoiled ELSE r

\* usm_worker_src_row
SrcRow(w, r) ==
  IF halo[w].top # Null /\ r = YStart(w) - 1 THEN halo[w].top
  ELSE IF halo[w].bot # Null /\ r = YEnd(w) THEN halo[w].bot
  ELSE PlaneRow(r)

\* The neighbours of a row, at the borders the row itself.
Above(r) == IF r > 0 THEN r - 1 ELSE 0
Below(r) == IF r < height - 1 THEN r + 1 ELSE height - 1

BlurFirst(w) ==
  /\ wpc[w] = "armed"
  /\ wpc' = [wpc EXCEPT ![w] = "blur"]
  /\ y' = [y EXCEPT ![w] = YStart(w)]
  /\ rows' = [rows EXCEPT ![w].up = SrcRow(w, Above(YStart(w))),
                          ![w].mid = SrcRow(w, YStart(w))]
  /\ UNCHANGED <<pool, plane, n, lazy, broken, pc, inPlace, halo, result>>

BlurBelow(w) ==
  /\ wpc[w] = "blur"
  /\ y[w] < YEnd(w)
  /\ wpc' = [wpc EXCEPT ![w] = "combine"]
  /\ rows' = [rows EXCEPT ![w].dn = SrcRow(w, Below(y[w]))]
  /\ UNCHANGED <<pool, plane, y, n, lazy, broken, pc, inPlace, halo, result>>

\* up_usm__combine_row: the row and its blurred neighbours, all of the frame
\* as it was, give the sharpened row; anything else is not that.  The three
\* buffers move up by one row.
Combine(w) ==
  /\ wpc[w] = "combine"
  /\ plane' = [plane EXCEPT ![y[w]] =
                 IF /\ PlaneRow(y[w]) = y[w]
                    /\ rows[w] = [up |-> Above(y[w]), mid |-> y[w], dn |-> Below(y[w])]
                 THEN "sharp" ELSE "spoiled"]
  /\ rows' = [rows EXCEPT ![w] = [up |-> @.mid, mid |-> @.dn, dn |-> @.up]]
  /\ y' = [y EXCEPT ![w] = @ + 1]
  /\ wpc' = [wpc EXCEPT ![w] = "blur"]
  /\ UNCHANGED <<pool, n, lazy, broken, pc, inPlace, halo, result>>

Finish(w) ==
  /\ wpc[w] = "blur"
  /\ y[w] = YEnd(w)
  /\ wpc' = [wpc EXCEPT ![w] = "finished"]
  /\ UNCHANGED <<pool, plane, y, rows, n, lazy, broken, pc, inPlace, halo, result>>

\* The gate fails, or a stop cancels the thread, before it sees the frame.
Leave(w) ==
  /\ wpc[w] = "armed"
  /\ n > 1
  /\ wpc' = [wpc EXCEPT ![w] = "gone"]
  /\ UNCHANGED <<pool, plane, y, rows, n, lazy, broken, pc, inPlace, halo, result>>

-----------------------------------------------------------------------------

Delivered ==
  /\ pc = "wait"
  /\ \A w \in Workers : wpc[w] = "finished"
  /\ pc' = "idle"
  /\ result' = "ok"
  /\ UNCHANGED <<pool, sweep, n, lazy, broken, inPlace, halo>>

\* The barrier fails; the pool is poisoned and its threads are joined.  A
\* single worker runs on the caller's thread, without a barrier.
BarrierFails ==
  /\ pc = "wait"
  /\ n > 1
  /\ broken' = TRUE
  /\ pc' = "join"
  /\ UNCHANGED <<pool, sweep, n, lazy, inPlace, halo, result>>

Joined ==
  /\ pc = "join"
  /\ \A w \in Workers : wpc[w] \in {"finished", "gone"}
  /\ pc' = "idle"
  /\ result' = "uncertain"
  /\ UNCHANGED <<pool, sweep, n, lazy, broken, inPlace, halo>>

WorkerStep(w) ==
  BlurFirst(w) \/ BlurBelow(w) \/ Combine(w) \/ Finish(w) \/ Leave(w)

Next ==
  \/ ApplyRefused \/ StartFails
  \/ \E same \in BOOLEAN : ApplyIdentity(same) \/ Apply(same)
  \/ \E created \in 1..pref : Start(created)
  \/ \E w \in Workers : WorkerStep(w)
  \/ Delivered \/ BarrierFails \/ Joined

Spec == Init /\ [][Next]_vars

-----------------------------------------------------------------------------
(* Properties.                                                             *)

\* However the workers interleave, in place or not and with fewer workers than
\* asked for, a pass that reports success has left every row either sharpened
\* from the three rows of the original frame, or, for amount 0, copied; and
\* one that reports the frame unchanged has not touched a row (usm_pool.c,
\* "the output stays byte-identical"; up_usm_apply_result_t).
FrameSharpened ==
  /\ result = "ok" => \/ \A r \in Rows : plane[r] = "sharp"
                      \/ \A r \in Rows : plane[r] = "copied"
  /\ result = "unchanged" => plane = Untouched

\* No stripe, also of a pool that came up in part, is lower than the least
\* height asked for, unless the plane is: rounding never leaves a worker with
\* a sliver, or with nothing.
StripesHighEnough ==
  LET least == IF minRows <= 0 THEN StripeMinRows ELSE minRows
  IN  \A w \in Workers : YEnd(w) - YStart(w) >= Min({least, height})
=============================================================================
