---------------------------- MODULE ThreadPolicy -----------------------------
(***************************************************************************)
(* thread_policy.h: how many workers a pool may have, from the user's      *)
(* preference and the CPUs that the process may run on.  Operators only.   *)
(***************************************************************************)
EXTENDS Integers, Sequences, FiniteSetsExt

CONSTANTS
  ThreadsMax,     \* UP_THREADS_MAX
  ThreadsAutoMax  \* UP_THREADS_AUTO_MAX

ASSUME ThreadsAssumption == {ThreadsMax, ThreadsAutoMax} \subseteq Nat \ {0}

CpuCountMax == 4 * ThreadsMax

\* up__clamp_core_count
ClampCoreCount(count) == Min({Max({count, 1}), CpuCountMax})

\* up__topology_from_sysconf: a count alone.
TopologyFromSysconf(online) == [allowed |-> ClampCoreCount(online), pins |-> <<>>]

\* The CPUs of a mask from the lowest.
Ascending(cpus) ==
  [k \in 1..Cardinality(cpus) |->
     CHOOSE c \in cpus : Cardinality({d \in cpus : d <= c}) = k]

\* up_cpu_topology_from_set
TopologyFromSet(cpus) ==
  [allowed |-> Min({Cardinality(cpus), CpuCountMax}),
   pins |-> SubSeq(Ascending(cpus), 1, Min({Cardinality(cpus), ThreadsMax}))]

\* up_detect_cpu_topology_with: an affinity mask that cannot be read is taken
\* for an empty one here.
DetectTopology(cpus, online) ==
  IF cpus = {} THEN TopologyFromSysconf(online) ELSE TopologyFromSet(cpus)

ThreadsDecideUnclamped(pref, cores) ==  \* MUTANT of ThreadsDecide: trusts an explicit count
  LET wanted == IF pref <= 0 THEN Min({Max({cores \div 2 - 2, 1}), ThreadsAutoMax}) ELSE pref
  IN  Max({Min({wanted, ThreadsMax}), 1})

\* up_threads_decide; a preference of 0 is AUTO.
ThreadsDecide(pref, cores) ==
  LET known  == Max({cores, 1})
      wanted == IF pref <= 0 THEN Min({Max({known \div 2 - 2, 1}), ThreadsAutoMax}) ELSE pref
  IN  Max({Min({wanted, known, ThreadsMax}), 1})

\* The CPU that zimg_pool_on_spawn pins worker i to.
PinnedTo(topology, i) == topology.pins[(i % Len(topology.pins)) + 1]
=============================================================================
