----------------------- MODULE ClusterRolloutProofs -----------------------
(***************************************************************************)
(* What a rollout promises, for every cluster, wave size and number of     *)
(* requests, faults and changes of the cluster:                            *)
(*   IInv: waves begin in order, and an abort that nothing crosses stays;  *)
(*   Alone: there is one chain, or one request that will begin one;        *)
(*   OneRuns: without a fault only the current wave runs;                  *)
(*   Windows: who stands before the window of a wave that may begin has    *)
(*     been rolled, for a member nobody before it leaves never moves up.   *)
(* Each is inductive with the ones before it.                              *)
(***************************************************************************)
EXTENDS ClusterRollout, FiniteSetTheorems, WellFoundedInduction, TLAPS

\* A job past its first step has members, so the wave after it is still a wave.
InRange ==
    \A c \in Chains : chain[c].at \notin {"free", "advance", "finish"} =>
        chain[c].wave < Cardinality(Slots)

\* Every number of a wave that anybody holds was reached over gates that passed.
Reached(n) == 0 .. n - 1 \subseteq passed

Order ==
    /\ \A n \in Waves : wave[n] # "none" => Reached(n)
    /\ Reached(current)
    /\ \A c \in Chains : Reached(chain[c].wave)
    /\ \A c \in Chains : chain[c].at \in {"pass", "point"} => chain[c].wave \in passed
    /\ \A r \in Requests : Reached(request[r].wave)

\* After a quiet abort nobody is left who has not yet seen it.
Unseen ==
    still => /\ state = "aborted"
             /\ \A c \in Chains : chain[c].at \in Queued \cup {"free"}
             /\ \A r \in Requests : request[r].at \in {"new", "idle", "sweep", "strike"}

IInv == TypeOK /\ InRange /\ Order /\ Unseen

-----------------------------------------------------------------------------
\* Wave numbers are natural numbers, 0 among them.
LEMMA WavesType ==
    /\ Cardinality(Slots) \in Nat
    /\ Waves \subseteq Nat /\ 0 \in Waves
    /\ \A n \in Waves : n < Cardinality(Slots) => n + 1 \in Waves
<1>1. Cardinality(Slots) \in Nat
  BY FS_CardinalityType, ClusterRolloutAssumption
<1> QED
  BY <1>1 DEF Waves

\* A wave has members only if it is not the last of Waves: before each of its members
\* stand n full windows of others.
LEMMA WindowInRange ==
    ASSUME TypeOK, NEW n \in Waves
    PROVE  /\ Window(n) \subseteq Slots
           /\ Window(n) # {} => n < Cardinality(Slots)
<1>1. Window(n) \subseteq Slots
  BY DEF Window, TypeOK
<1>2. ASSUME NEW m \in Window(n)
      PROVE  n < Cardinality(Slots)
  <2> DEFINE before == {k \in members : k < m}
  <2>0. m \in Slots /\ members \subseteq Slots /\ Slots \subseteq Nat
    BY <1>2, ClusterRolloutAssumption DEF Window, TypeOK
  <2>1. before \subseteq Slots \ {m}
    <3>1. \A k \in before : k \in Slots /\ k # m
      BY <2>0
    <3> QED
      BY <3>1
  <2>a. IsFiniteSet(Slots)
    BY ClusterRolloutAssumption
  <2>2. IsFiniteSet(Slots \ {m}) /\ Cardinality(Slots \ {m}) = Cardinality(Slots) - 1
    BY <2>0, <2>a, FS_RemoveElement
  <2>3. Cardinality(before) <= Cardinality(Slots \ {m}) /\ IsFiniteSet(before)
    BY <2>1, <2>2, FS_Subset
  <2>4. Cardinality(before) \in Nat /\ Cardinality(Slots) \in Nat
    BY <2>3, FS_CardinalityType, WavesType
  <2>5. n * WaveSize <= Cardinality(before)
    BY <1>2 DEF Window, Place
  <2>6. n \in Nat /\ WaveSize \in Nat /\ WaveSize >= 1
    BY WavesType, ClusterRolloutAssumption
  <2>7. n <= n * WaveSize
    BY <2>6
  <2> HIDE DEF before
  <2> QED
    BY <2>2, <2>3, <2>4, <2>5, <2>6, <2>7
<1> QED
  BY <1>1, <1>2

\* A set of natural numbers has a least one.
LEMMA Least ==
    ASSUME NEW T, T \subseteq Nat, T # {}
    PROVE  \E x \in T : \A y \in T : x <= y
<1> DEFINE less == OpToRel(<, Nat)
<1>1. \A x, y \in T : <<y, x>> \in less <=> y < x
  BY DEF OpToRel
<1>2. IsWellFoundedOn(less, Nat)
  BY NatLessThanWellFounded
<1> HIDE DEF less
<1>3. PICK x \in T : \A y \in T : <<y, x>> \notin less
  BY <1>2, WFMin
<1>4. \A y \in T : ~(y < x)
  BY <1>1, <1>3
<1>5. \A y \in T : x <= y
  BY <1>4
<1> QED
  BY <1>5

\* A window is empty only past the last member: of the first member at or behind its
\* place, the member just before it would stand there too.
LEMMA EmptyWindow ==
    ASSUME TypeOK, NEW n \in Waves, Window(n) = {}, NEW m \in members
    PROVE  Place(m) < n * WaveSize
<1>0. /\ members \subseteq Slots /\ Slots \subseteq Nat /\ IsFiniteSet(Slots)
      /\ n \in Nat /\ WaveSize \in Nat \ {0}
  BY ClusterRolloutAssumption, FS_CardinalityType DEF TypeOK, Waves
<1> DEFINE Before(k) == {j \in members : j < k}
           end == n * WaveSize
<1>1. end \in Nat /\ end < (n + 1) * WaveSize
  BY <1>0
<1>2. \A k \in members : /\ IsFiniteSet(Before(k)) /\ Cardinality(Before(k)) \in Nat
                         /\ Place(k) = Cardinality(Before(k))
  <2> TAKE k \in members
  <2>1. Before(k) \subseteq Slots
    BY <1>0
  <2> QED
    BY <2>1, <1>0, FS_Subset, FS_CardinalityType DEF Place
<1>3. \A k \in members : Place(k) # end
  BY <1>1, <1>2 DEF Window
<1>15. \A k \in members : k \in Nat /\ Place(k) \in Nat
  BY <1>0, <1>2
<1> HIDE DEF end
<1> SUFFICES ASSUME ~(Place(m) < end) PROVE FALSE
  BY DEF end
<1> DEFINE late == {k \in members : end <= Place(k)}
<1>4. late \subseteq Nat /\ late # {}
  <2>1. m \in late
    BY <1>15, <1>1
  <2> QED
    BY <2>1, <1>15
<1>5. PICK k \in late : \A j \in late : k <= j
  BY <1>4, Least
<1>6. k \in members /\ k \in Nat /\ end < Cardinality(Before(k)) /\ IsFiniteSet(Before(k))
  <2>1. k \in members /\ end <= Place(k)
    OBVIOUS
  <2> QED
    BY <2>1, <1>15, <1>1, <1>2, <1>3
<1>7. Before(k) # {}
  BY <1>1, <1>6, FS_EmptySet
<1> DEFINE steps == {k - j : j \in Before(k)}
<1>8. steps \subseteq Nat /\ steps # {}
  <2>1. \A j \in Before(k) : j \in Nat /\ j < k
    BY <1>15
  <2>2. \A j \in Before(k) : k - j \in Nat
    BY <2>1, <1>6
  <2> QED
    BY <2>2, <1>7
<1>9. PICK d \in steps : \A e \in steps : d <= e
  BY <1>8, Least
<1>10. PICK j \in Before(k) : d = k - j
  OBVIOUS
<1>11. j \in members /\ j < k /\ j \in Nat
  BY <1>0
<1>12. Before(j) = Before(k) \ {j}
  <2>1. ASSUME NEW i \in Before(k), i # j
        PROVE  i < j
    <3>1. k - j <= k - i
      BY <1>9, <1>10
    <3> QED
      BY <3>1, <1>0, <1>6, <1>11, <2>1
  <2>2. ASSUME NEW i \in Before(j)
        PROVE  i \in Before(k) /\ i # j
    BY <1>0, <1>6, <1>11
  <2> QED
    BY <2>1, <2>2
<1> HIDE DEF Before
<1>13. Cardinality(Before(j)) = Cardinality(Before(k)) - 1
  BY <1>6, <1>10, <1>12, FS_RemoveElement
<1>14. j \in late
  BY <1>1, <1>2, <1>6, <1>11, <1>13
<1> QED
  BY <1>5, <1>6, <1>11, <1>14

\* One gate more.
LEMMA ReachNext ==
    ASSUME NEW n \in Nat, n \in passed, Reached(n)
    PROVE  Reached(n + 1)
<1>1. \A k \in 0 .. n + 1 - 1 : k = n \/ k \in 0 .. n - 1
  OBVIOUS
<1> QED
  BY <1>1 DEF Reached

\* A rollout begins with nothing.
LEMMA InitIInv == Init => IInv
<1> SUFFICES ASSUME Init PROVE IInv
  OBVIOUS
<1> USE WavesType, ClusterRolloutAssumption DEF Init, Free, Idle
<1>1. TypeOK
  <2>1. /\ 0 \in 0 .. MaxFaults /\ 0 \in 0 .. MaxScales
        /\ members \subseteq Slots /\ gone \subseteq Slots \ members
    OBVIOUS
  <2>2. \A r \in Requests : request[r] = [at |-> "new", wave |-> 0, to |-> "running"]
    OBVIOUS
  <2> QED
    BY <2>1, <2>2 DEF TypeOK, WaveStates, Queued, Ended
<1>2. InRange /\ Order /\ Unseen
  BY DEF InRange, Order, Unseen, Reached
<1> QED
  BY <1>1, <1>2 DEF IInv

\* A job that stops or goes on to another step of its own reaches no further wave.
LEMMA OrderStays ==
    ASSUME Order, UNCHANGED <<wave, current, request, passed>>,
           \A d \in Chains : /\ chain'[d].wave \in {0, chain[d].wave}
                             /\ chain'[d].at \in {"pass", "point"} => chain'[d] = chain[d]
    PROVE  Order'
<1>1. ASSUME NEW d \in Chains
      PROVE  Reached(chain'[d].wave)
  BY <1>1 DEF Order, Reached
<1> QED
  BY <1>1 DEF Order, Reached

\* The advance job.
LEMMA AdvanceKeeps ==
    ASSUME IInv, NEW c \in Chains,
           \/ AdvanceReads(c) \/ AdvanceFinishes(c) \/ AdvanceFlips(c) \/ AdvanceSeeks(c)
           \/ AdvanceResets(c) \/ AdvanceCreates(c) \/ AdvanceApplies(c)
    PROVE  IInv'
<1> USE WavesType, ClusterRolloutAssumption
    DEF IInv, TypeOK, InRange, Order, Unseen, Reached, Free, Idle, Go, Stop, Ask, Enqueue,
        Fails, Logged, Queued, Ended, WaveStates, rolloutVars, waveVars, nodeVars, memberVars,
        history
<1>0. chain[c].wave \in Waves
  OBVIOUS
<1>1. CASE AdvanceReads(c)
  <2>0. /\ Window(chain[c].wave) \subseteq Slots
        /\ Window(chain[c].wave) # {} => chain[c].wave < Cardinality(Slots)
    BY <1>0, WindowInRange
  <2>1. TypeOK'
    BY <1>1, <1>0, <2>0 DEF AdvanceReads
  <2>2. InRange' /\ Unseen'
    BY <1>1, <1>0, <2>0 DEF AdvanceReads
  <2>3. Order'
    <3>1. \A d \in Chains : /\ chain'[d].wave \in {0, chain[d].wave}
                            /\ chain'[d].at \in {"pass", "point"} => chain'[d] = chain[d]
      BY <1>1, <1>0, <2>0 DEF AdvanceReads
    <3>2. UNCHANGED <<wave, current, request, passed>>
      BY <1>1 DEF AdvanceReads
    <3>3. Order
      OBVIOUS
    <3> HIDE DEF IInv, TypeOK, InRange, Order, Unseen
    <3> QED
      BY <3>1, <3>2, <3>3, OrderStays
  <2> QED
    BY <2>1, <2>2, <2>3
<1>2. CASE AdvanceFinishes(c)
  <2>1. TypeOK'
    BY <1>2, <1>0 DEF AdvanceFinishes
  <2>2. InRange' /\ Unseen'
    BY <1>2, <1>0 DEF AdvanceFinishes
  <2>3. Order'
    BY <1>2, <1>0 DEF AdvanceFinishes
  <2> QED
    BY <2>1, <2>2, <2>3
<1>3. CASE AdvanceFlips(c)
  <2>1. TypeOK'
    BY <1>3, <1>0 DEF AdvanceFlips
  <2>2. InRange' /\ Unseen'
    BY <1>3, <1>0 DEF AdvanceFlips
  <2>3. Order'
    BY <1>3, <1>0 DEF AdvanceFlips
  <2> QED
    BY <2>1, <2>2, <2>3
<1>4. CASE AdvanceSeeks(c)
  <2>1. TypeOK'
    BY <1>4, <1>0 DEF AdvanceSeeks
  <2>2. InRange' /\ Unseen'
    BY <1>4, <1>0 DEF AdvanceSeeks
  <2>3. Order'
    BY <1>4, <1>0 DEF AdvanceSeeks
  <2> QED
    BY <2>1, <2>2, <2>3
<1>5. CASE AdvanceResets(c)
  <2>1. TypeOK'
    BY <1>5, <1>0 DEF AdvanceResets
  <2>2. InRange' /\ Unseen'
    BY <1>5, <1>0 DEF AdvanceResets
  <2>3. Order'
    BY <1>5, <1>0 DEF AdvanceResets
  <2> QED
    BY <2>1, <2>2, <2>3
<1>6. CASE AdvanceCreates(c)
  <2>1. TypeOK'
    <3>1. CASE wave[chain[c].wave] = "none"
      <4>1. /\ wave' = [wave EXCEPT ![chain[c].wave] = "running"]
            /\ checked' = [checked EXCEPT ![chain[c].wave] = chain[c].batch]
            /\ chain' = [chain EXCEPT ![c].at = "apply"]
            /\ UNCHANGED <<rolloutVars, overdue, request, passed, nodeVars, memberVars, history,
                            faults>>
        BY <1>6, <3>1 DEF AdvanceCreates
      <4>2. /\ wave' \in [Waves -> WaveStates \cup {"none"}]
            /\ checked' \in [Waves -> SUBSET Slots]
            /\ \A k \in Waves : wave'[k] = "none" => checked'[k] = {} /\ k \notin overdue
        BY <4>1, <1>0
      <4> QED
        BY <4>1, <4>2, <1>0
    <3>2. CASE wave[chain[c].wave] # "none"
      <4>1. /\ chain' = [chain EXCEPT ![c] = Free]
            /\ UNCHANGED <<rolloutVars, waveVars, request, passed, nodeVars, memberVars, history,
                            faults>>
        BY <1>6, <3>2 DEF AdvanceCreates
      <4> QED
        BY <4>1
    <3> QED
      BY <3>1, <3>2
  <2>2. InRange' /\ Unseen'
    BY <1>6, <1>0 DEF AdvanceCreates
  <2>3. Order'
    BY <1>6, <1>0 DEF AdvanceCreates
  <2> QED
    BY <2>1, <2>2, <2>3
<1>7. CASE AdvanceApplies(c)
  <2>1. TypeOK'
    BY <1>7, <1>0 DEF AdvanceApplies
  <2>2. InRange' /\ Unseen'
    BY <1>7, <1>0 DEF AdvanceApplies
  <2>3. Order'
    BY <1>7, <1>0 DEF AdvanceApplies
  <2> QED
    BY <2>1, <2>2, <2>3
<1> QED
  BY <1>1, <1>2, <1>3, <1>4, <1>5, <1>6, <1>7

\* The gate_check job.
LEMMA GateKeeps ==
    ASSUME IInv, NEW c \in Chains,
           \/ GateReads(c) \/ GateChecks(c) \/ GateMarksHealthy(c) \/ GatePoints(c)
           \/ GateMarksUnhealthy(c) \/ GateHalts(c)
    PROVE  IInv'
<1> USE WavesType, ClusterRolloutAssumption
    DEF IInv, TypeOK, InRange, Order, Unseen, Reached, Free, Idle, Go, Stop, Ask, Enqueue,
        Fails, Logged, Queued, Ended, WaveStates, rolloutVars, waveVars, nodeVars, memberVars,
        history
<1>0. chain[c].wave \in Waves
  OBVIOUS
<1>1. CASE GateReads(c)
  <2>1. TypeOK'
    BY <1>1, <1>0 DEF GateReads
  <2>2. InRange' /\ Unseen'
    BY <1>1, <1>0 DEF GateReads
  <2>3. Order'
    <3>1. \A d \in Chains : /\ chain'[d].wave \in {0, chain[d].wave}
                            /\ chain'[d].at \in {"pass", "point"} => chain'[d] = chain[d]
      BY <1>1, <1>0 DEF GateReads
    <3>2. UNCHANGED <<wave, current, request, passed>>
      BY <1>1 DEF GateReads
    <3>3. Order
      OBVIOUS
    <3> HIDE DEF IInv, TypeOK, InRange, Order, Unseen
    <3> QED
      BY <3>1, <3>2, <3>3, OrderStays
  <2> QED
    BY <2>1, <2>2, <2>3
<1>2. CASE GateChecks(c)
  <2> DEFINE n == chain[c].wave
  <2>0. n < Cardinality(Slots) /\ chain[c].at = "check"
    BY <1>2 DEF GateChecks
  <2>1. CASE Stop(c) /\ UNCHANGED <<passed, vouched>>
    BY <1>2, <1>0, <2>1 DEF GateChecks
  <2>2. CASE Go(c, "pass") /\ passed' = passed \cup {n} /\ vouched' = vouched \cup checked[n]
    <3>1. TypeOK'
      BY <1>2, <1>0, <2>2 DEF GateChecks
    <3>2. InRange' /\ Unseen'
      BY <1>2, <1>0, <2>0, <2>2 DEF GateChecks
    <3>3. Order'
      BY <1>2, <1>0, <2>2 DEF GateChecks
    <3> QED
      BY <3>1, <3>2, <3>3
  <2>3. CASE (Go(c, "fail") \/ Enqueue(c, "gate", n)) /\ UNCHANGED <<passed, vouched>>
    <3>1. TypeOK'
      BY <1>2, <1>0, <2>3 DEF GateChecks
    <3>2. InRange' /\ Unseen'
      BY <1>2, <1>0, <2>0, <2>3 DEF GateChecks
    <3>3. Order'
      BY <1>2, <1>0, <2>3 DEF GateChecks
    <3> QED
      BY <3>1, <3>2, <3>3
  <2> QED
    BY <1>2, <2>1, <2>2, <2>3 DEF GateChecks
<1>3. CASE GateMarksHealthy(c)
  <2>1. TypeOK'
    <3>1. /\ wave' \in [Waves -> WaveStates \cup {"none"}] /\ faults' \in 0 .. MaxFaults
          /\ \A n \in Waves : wave'[n] = "none" => wave[n] = "none"
      <4>1. /\ faults' \in 0 .. MaxFaults
            /\ \/ wave' = [wave EXCEPT ![chain[c].wave] = "healthy"]
               \/ wave' = wave
        BY <1>3 DEF GateMarksHealthy
      <4> QED
        BY <4>1, <1>0
    <3>2. chain' \in [Chains -> [at : {"free", "finish", "flip", "seek", "reset", "create",
                                     "apply", "check", "pass", "point", "fail", "halt"}
                                     \cup Queued,
                                wave : Waves, batch : SUBSET Slots]]
      BY <1>3, <1>0 DEF GateMarksHealthy
    <3> QED
      BY <1>3, <3>1, <3>2 DEF GateMarksHealthy
  <2>2. InRange' /\ Unseen'
    BY <1>3, <1>0 DEF GateMarksHealthy
  <2>3. Order'
    BY <1>3, <1>0 DEF GateMarksHealthy
  <2> QED
    BY <2>1, <2>2, <2>3
<1>4. CASE GatePoints(c)
  <2> DEFINE next == chain[c].wave + 1
  <2>a. /\ chain[c].wave < Cardinality(Slots) /\ chain[c].wave \in passed
        /\ 0 .. chain[c].wave - 1 \subseteq passed
    BY <1>4 DEF GatePoints
  <2>b. chain[c].wave \in Nat
    BY <1>0
  <2>0. next \in Waves /\ Reached(next)
    <3>1. next \in Waves
      BY <1>0, <2>a
    <3>2. Reached(next)
      BY <2>a, <2>b, ReachNext
    <3> QED
      BY <3>1, <3>2
  <2>1. /\ chain' = [chain EXCEPT ![c] = [at |-> "advance", wave |-> next, batch |-> {}]]
        /\ current' \in {current, next} /\ faults' \in 0 .. MaxFaults
        /\ UNCHANGED <<state, waveVars, request, passed, nodeVars, memberVars, history>>
    BY <1>4 DEF GatePoints
  <2> HIDE DEF next
  <2>2. TypeOK'
    BY <2>0, <2>1
  <2>3. InRange' /\ Unseen'
    BY <1>4, <2>1 DEF GatePoints
  <2>4. Order'
    BY <2>0, <2>1
  <2> QED
    BY <2>2, <2>3, <2>4
<1>5. CASE GateMarksUnhealthy(c)
  <2>1. TypeOK'
    <3>1. /\ wave' \in [Waves -> WaveStates \cup {"none"}] /\ faults' \in 0 .. MaxFaults
          /\ \A n \in Waves : wave'[n] = "none" => wave[n] = "none"
      <4>1. /\ faults' \in 0 .. MaxFaults
            /\ \/ wave' = [wave EXCEPT ![chain[c].wave] = "unhealthy"]
               \/ wave' = wave
        BY <1>5 DEF GateMarksUnhealthy
      <4> QED
        BY <4>1, <1>0
    <3>2. chain' \in [Chains -> [at : {"free", "finish", "flip", "seek", "reset", "create",
                                     "apply", "check", "pass", "point", "fail", "halt"}
                                     \cup Queued,
                                wave : Waves, batch : SUBSET Slots]]
      BY <1>5, <1>0 DEF GateMarksUnhealthy
    <3> QED
      BY <1>5, <3>1, <3>2 DEF GateMarksUnhealthy
  <2>2. InRange' /\ Unseen'
    BY <1>5, <1>0 DEF GateMarksUnhealthy
  <2>3. Order'
    BY <1>5, <1>0 DEF GateMarksUnhealthy
  <2> QED
    BY <2>1, <2>2, <2>3
<1>6. CASE GateHalts(c)
  <2>1. TypeOK'
    BY <1>6, <1>0 DEF GateHalts
  <2>2. InRange' /\ Unseen'
    BY <1>6, <1>0 DEF GateHalts
  <2>3. Order'
    BY <1>6, <1>0 DEF GateHalts
  <2> QED
    BY <2>1, <2>2, <2>3
<1> QED
  BY <1>1, <1>2, <1>3, <1>4, <1>5, <1>6

\* A request.
LEMMA RequestKeeps ==
    ASSUME IInv, NEW r \in Requests, Arrive(r) \/ RequestStep(r) \/ RequestFails(r)
    PROVE  IInv'
<1> USE WavesType, ClusterRolloutAssumption
    DEF IInv, Comes, Others, Live, TypeOK, InRange, Order, Unseen, Reached, Free, Idle, Go,
        Stop, Ask, Enqueue, Fails, Logged, Queued, Ended, WaveStates, rolloutVars, waveVars,
        nodeVars, memberVars, history
<1>0. request[r].wave \in Waves
  OBVIOUS
<1>1. CASE Create(r)
  <2>1. TypeOK'
    <3>1. request' = [request EXCEPT ![r].at = "launch"]
      BY <1>1 DEF Create
    <3>2. request' \in [Requests -> [at : {"new", "idle", "launch", "abort", "sweep", "strike",
                                             "resume", "edit", "mirror"},
                                       wave : Waves, to : WaveStates \ {"healthy"}]]
      BY <3>1
    <3>3. state' = "pending" /\ current' = 0
      BY <1>1 DEF Create
    <3> QED
      BY <1>1, <3>2, <3>3 DEF Create
  <2>2. InRange' /\ Unseen'
    BY <1>1, <1>0 DEF Create
  <2>3. Order'
    BY <1>1, <1>0 DEF Create
  <2> QED
    BY <2>1, <2>2, <2>3
<1>2. CASE Launch(r)
  <2>1. TypeOK'
    BY <1>2, <1>0 DEF Launch
  <2>2. InRange' /\ Unseen'
    BY <1>2, <1>0 DEF Launch
  <2>3. Order'
    BY <1>2, <1>0 DEF Launch
  <2> QED
    BY <2>1, <2>2, <2>3
<1>3. CASE AbortReads(r)
  <2>1. TypeOK'
    BY <1>3, <1>0 DEF AbortReads
  <2>2. InRange' /\ Unseen'
    BY <1>3, <1>0 DEF AbortReads
  <2>3. Order'
    BY <1>3, <1>0 DEF AbortReads
  <2> QED
    BY <2>1, <2>2, <2>3
<1>4. CASE AbortWrites(r)
  <2>1. TypeOK'
    BY <1>4, <1>0 DEF AbortWrites
  <2>2. InRange'
    BY <1>4 DEF AbortWrites
  <2>4. Unseen'
    <3>1. request' = [request EXCEPT ![r].at = "sweep"] /\ state' = "aborted" /\ chain' = chain
      BY <1>4 DEF AbortWrites
    <3>2. still' => /\ \A q \in Requests \ {r} : request[q].at \in {"new", "idle"}
                    /\ \A d \in Chains : chain[d].at \in Queued \cup {"free"}
      BY <1>4 DEF AbortWrites
    <3> QED
      BY <3>1, <3>2
  <2>3. Order'
    BY <1>4, <1>0 DEF AbortWrites
  <2> QED
    BY <2>1, <2>2, <2>3, <2>4
<1>5. CASE AbortSweeps(r)
  <2>1. TypeOK'
    BY <1>5, <1>0 DEF AbortSweeps
  <2>2. InRange' /\ Unseen'
    BY <1>5, <1>0 DEF AbortSweeps
  <2>3. Order'
    BY <1>5, <1>0 DEF AbortSweeps
  <2> QED
    BY <2>1, <2>2, <2>3
<1>6. CASE AbortStrikes(r)
  <2>1. TypeOK'
    BY <1>6, <1>0 DEF AbortStrikes
  <2>2. InRange' /\ Unseen'
    BY <1>6, <1>0 DEF AbortStrikes
  <2>3. Order'
    BY <1>6, <1>0 DEF AbortStrikes
  <2> QED
    BY <2>1, <2>2, <2>3
<1>7. CASE ResumeReads(r)
  <2>1. TypeOK'
    BY <1>7, <1>0 DEF ResumeReads
  <2>2. InRange' /\ Unseen'
    BY <1>7, <1>0 DEF ResumeReads
  <2>3. Order'
    BY <1>7, <1>0 DEF ResumeReads
  <2> QED
    BY <2>1, <2>2, <2>3
<1>8. CASE ResumeWrites(r)
  <2>1. TypeOK'
    BY <1>8, <1>0 DEF ResumeWrites
  <2>2. InRange' /\ Unseen'
    BY <1>8, <1>0 DEF ResumeWrites
  <2>3. Order'
    BY <1>8, <1>0 DEF ResumeWrites
  <2> QED
    BY <2>1, <2>2, <2>3
<1>9. CASE EditWave(r)
  <2>1. PICK n \in Waves, to \in {"running", "unhealthy", "aborted"} :
          /\ wave[n] # "none"
          /\ wave' = [wave EXCEPT ![n] = to]
          /\ request' = [request EXCEPT ![r] = [at |-> "mirror", wave |-> n, to |-> to]]
    BY <1>9 DEF EditWave
  <2>2. TypeOK'
    <3>1. wave' \in [Waves -> WaveStates \cup {"none"}]
          /\ \A k \in Waves : wave'[k] = "none" => wave[k] = "none"
      BY <2>1
    <3>2. request' \in [Requests -> [at : {"new", "idle", "launch", "abort", "sweep", "strike",
                                          "resume", "edit", "mirror"},
                                    wave : Waves, to : WaveStates \ {"healthy"}]]
      BY <2>1
    <3> QED
      BY <1>9, <3>1, <3>2 DEF EditWave
  <2>3. InRange' /\ Order' /\ Unseen'
    BY <1>9, <2>1 DEF EditWave
  <2> QED
    BY <2>2, <2>3
<1>10. CASE EditRollout(r)
  <2>1. TypeOK'
    <3>1. state' \in {"running", "halted", "aborted"}
      BY <1>10 DEF EditRollout
    <3> QED
      BY <1>10, <1>0, <3>1 DEF EditRollout
  <2>2. InRange' /\ Unseen'
    BY <1>10, <1>0 DEF EditRollout
  <2>3. Order'
    BY <1>10, <1>0 DEF EditRollout
  <2> QED
    BY <2>1, <2>2, <2>3
<1>11. CASE RequestFails(r)
  <2>1. TypeOK'
    BY <1>11, <1>0 DEF RequestFails
  <2>2. InRange' /\ Unseen'
    BY <1>11, <1>0 DEF RequestFails
  <2>3. Order'
    BY <1>11, <1>0 DEF RequestFails
  <2> QED
    BY <2>1, <2>2, <2>3
<1> QED
  BY <1>1, <1>2, <1>3, <1>4, <1>5, <1>6, <1>7, <1>8, <1>9, <1>10, <1>11 DEF Arrive, RequestStep

\* Failures, time and changes of the cluster.
LEMMA WorldKeeps ==
    ASSUME IInv,
           \/ \E c \in Chains : JobEnds(c)
           \/ Restart
           \/ \E n \in Waves : TimePasses(n)
           \/ \E m \in Slots : MemberJoins(m) \/ MemberLeaves(m)
    PROVE  IInv'
<1> USE WavesType, ClusterRolloutAssumption
    DEF IInv, Live, TypeOK, InRange, Order, Unseen, Reached, Free, Idle, Go, Stop, Ask,
        Enqueue, Fails, Logged, Queued, Ended, WaveStates, rolloutVars, waveVars, nodeVars,
        memberVars, history
<1>1. CASE \E c \in Chains : JobEnds(c)
  BY <1>1 DEF JobEnds
<1>2. CASE Restart
  BY <1>2 DEF Restart
<1>3. CASE \E n \in Waves : TimePasses(n)
  BY <1>3 DEF TimePasses
<1>4. CASE \E m \in Slots : MemberJoins(m) \/ MemberLeaves(m)
  <2>1. /\ members' \subseteq Slots /\ gone' \subseteq Slots \ members'
        /\ scales' \in 0 .. MaxScales
        /\ UNCHANGED <<rolloutVars, waveVars, chain, request, passed, nodeVars, history, faults>>
    <3>1. CASE \E m \in Slots : MemberJoins(m)
      BY <3>1 DEF MemberJoins
    <3>2. CASE \E m \in Slots : MemberLeaves(m)
      BY <3>2 DEF MemberLeaves
    <3> QED
      BY <1>4, <3>1, <3>2
  <2> QED
    BY <2>1
<1> QED
  BY <1>1, <1>2, <1>3, <1>4

\* What IInv says is a matter of the variables alone.
LEMMA StutterKeeps == IInv /\ UNCHANGED vars => IInv'
BY DEF IInv, vars, TypeOK, InRange, Order, Unseen, Reached, Free, Idle, Go, Stop, Ask, Enqueue,
   Fails, Logged, Queued, Ended, WaveStates, rolloutVars, waveVars, nodeVars, memberVars,
   history

LEMMA StepKeeps == IInv /\ [Next]_vars => IInv'
BY AdvanceKeeps, GateKeeps, RequestKeeps, WorldKeeps, StutterKeeps DEF Next, JobStep

LEMMA Invariance == Spec => []IInv
<1>1. Init => IInv
  BY InitIInv
<1>2. IInv /\ [Next]_vars => IInv'
  BY StepKeeps
<1> QED
  BY <1>1, <1>2, PTL DEF Spec

-----------------------------------------------------------------------------
\* The rows, jobs and requests are what the code can make them: no wave number ever
\* leaves the cluster, however members come and go.
THEOREM TypeCorrect == Spec => []TypeOK
BY Invariance, PTL DEF IInv

\* No wave begins before the gate of every earlier one has passed.
THEOREM WavesAreOrdered == Spec => []WavesInOrder
<1>1. IInv => WavesInOrder
  BY DEF IInv, Order, Reached, WavesInOrder
<1> QED
  BY <1>1, Invariance, PTL

\* An abort that no job and no request crosses is never undone, and the template
\* reaches no further member.
THEOREM QuietAbortIsFinal == Spec => QuietAbortHolds
<1> DEFINE Final == still /\ still' => state' = "aborted" /\ applied' = applied
<1>1. IInv /\ IInv' /\ [Next]_vars => Final
  <2> SUFFICES ASSUME IInv, IInv', [Next]_vars, still, still'
               PROVE  state' = "aborted" /\ applied' = applied
    OBVIOUS
  <2>1. state' = "aborted"
    BY DEF IInv, Unseen
  <2>2. \A c \in Chains : ~AdvanceApplies(c)
    BY DEF IInv, Unseen, Queued, AdvanceApplies
  <2>3. applied' = applied
    BY <2>2 DEF Next, vars, JobStep, Arrive, RequestStep, nodeVars,
       AdvanceReads, AdvanceFinishes, AdvanceFlips, AdvanceSeeks, AdvanceResets,
       AdvanceCreates, GateReads, GateChecks, GateMarksHealthy, GatePoints,
       GateMarksUnhealthy, GateHalts, Create, Launch, AbortReads, AbortWrites, AbortSweeps,
       AbortStrikes, ResumeReads, ResumeWrites, EditWave, EditRollout, RequestFails, JobEnds,
       Restart, TimePasses, MemberJoins, MemberLeaves
  <2> QED
    BY <2>1, <2>3
<1>2. Spec => [][Final]_vars
  BY <1>1, Invariance, PTL DEF Spec
<1> QED
  BY <1>2 DEF QuietAbortHolds

-----------------------------------------------------------------------------
\* Neither of the two ways to have two jobs was taken.
Clear == ~crossed /\ ~edited

\* Requests that will begin a chain.
Drivers == {r \in Requests : request[r].at \in {"launch", "resume"}}

\* A chain, or one request that will begin one: a rollout that is halted has no chain,
\* and only then does a resume come.
Alone ==
    /\ \A r \in Requests : request[r].at = "mirror" => edited
    /\ state = "none" => /\ Live = {} /\ \A n \in Waves : wave[n] = "none"
                         /\ \A r \in Requests : request[r].at = "new"
    /\ Clear =>
        /\ \A c, d \in Live : c = d
        /\ \A q, r \in Drivers : q = r
        /\ Live = {} \/ Drivers = {}
        /\ state = "halted" => Live = {} /\ \A r \in Requests : request[r].at # "launch"

Chain == [at : {"free", "finish", "flip", "seek", "reset", "create", "apply", "check", "pass",
                "point", "fail", "halt"} \cup Queued,
          wave : Waves, batch : SUBSET Slots]
Request == [at : {"new", "idle", "launch", "abort", "sweep", "strike", "resume", "edit",
                  "mirror"},
            wave : Waves, to : WaveStates \ {"healthy"}]

\* A job is a step of a chain that is there; only the one that ends with it halts.
LEMMA JobMoves ==
    ASSUME TypeOK, NEW c \in Chains, JobStep(c) \/ JobEnds(c)
    PROVE  /\ c \in Live /\ Live' \subseteq Live
           /\ UNCHANGED <<request, crossed, edited, still, memberVars>>
           /\ \A d \in Chains \ {c} : chain'[d] = chain[d]
           /\ \/ state' \in {state, "completed", "running"}
              \/ state' = "halted" /\ c \notin Live'
<1>1. chain \in [Chains -> Chain]
  BY DEF TypeOK, Chain
<1> USE <1>1 DEF Live, Go, Stop, Enqueue, Logged, Fails, Free, rolloutVars, waveVars, nodeVars,
                 memberVars, history
<1>2. CASE AdvanceReads(c)
  BY <1>2 DEF AdvanceReads
<1>3. CASE AdvanceFinishes(c)
  BY <1>3 DEF AdvanceFinishes
<1>4. CASE AdvanceFlips(c) \/ AdvanceSeeks(c) \/ AdvanceResets(c)
  BY <1>4 DEF AdvanceFlips, AdvanceSeeks, AdvanceResets
<1>5. CASE AdvanceCreates(c) \/ AdvanceApplies(c)
  BY <1>5 DEF AdvanceCreates, AdvanceApplies
<1>6. CASE GateReads(c) \/ GateChecks(c)
  BY <1>6 DEF GateReads, GateChecks
<1>7. CASE GateMarksHealthy(c) \/ GatePoints(c) \/ GateMarksUnhealthy(c)
  BY <1>7 DEF GateMarksHealthy, GatePoints, GateMarksUnhealthy
<1>8. CASE GateHalts(c) \/ JobEnds(c)
  BY <1>8 DEF GateHalts, JobEnds
<1> QED
  BY <1>2, <1>3, <1>4, <1>5, <1>6, <1>7, <1>8 DEF JobStep

\* A request changes itself alone, and a chain only by the one it begins.
LEMMA RequestMoves ==
    ASSUME TypeOK, NEW r \in Requests, Arrive(r) \/ RequestStep(r) \/ RequestFails(r)
    PROVE  /\ request[r].at # "idle"
           /\ \A q \in Requests \ {r} : request'[q] = request[q]
           /\ UNCHANGED <<checked, overdue, passed, nodeVars, memberVars>>
<1>1. request \in [Requests -> Request]
  BY DEF TypeOK, Request
<1> USE <1>1 DEF Ask, Comes, waveVars, nodeVars, memberVars
<1>2. CASE Arrive(r)
  BY <1>2 DEF Arrive, Create, AbortReads, ResumeReads, EditWave
<1>3. CASE RequestStep(r)
  BY <1>3 DEF RequestStep, Launch, AbortWrites, AbortSweeps, AbortStrikes, ResumeWrites,
              EditRollout
<1>4. CASE RequestFails(r)
  BY <1>4 DEF RequestFails
<1> QED
  BY <1>2, <1>3, <1>4

\* A step of the one chain leaves it alone.
LEMMA JobAlone ==
    ASSUME IInv, Alone, NEW c \in Chains, JobStep(c) \/ JobEnds(c)
    PROVE  Alone'
<1>1. TypeOK
  BY DEF IInv
<1>2. /\ c \in Live /\ Live' \subseteq Live
      /\ UNCHANGED <<request, crossed, edited>>
      /\ \/ state' \in {state, "completed", "running"}
         \/ state' = "halted" /\ c \notin Live'
  BY <1>1, JobMoves
<1>3. Drivers' = Drivers /\ Clear' = Clear
  BY <1>2 DEF Drivers, Clear
<1>4. Clear => \A d \in Live : d = c
  BY <1>2 DEF Alone
<1>5. state' # "none" /\ (state' = "halted" => Live' = {} \/ ~Clear)
  BY <1>2, <1>4 DEF Alone
<1>6. \A r \in Requests : (request[r].at = "mirror" => edited)'
  BY <1>2 DEF Alone
<1>7. ASSUME Clear
      PROVE  /\ \A d, e \in Live' : d = e
             /\ \A q, r \in Drivers' : q = r
             /\ Drivers' = {} /\ \A r \in Requests : request'[r].at # "launch"
  BY <1>2, <1>3, <1>4, <1>7 DEF Alone, Drivers
<1> QED
  BY <1>2, <1>3, <1>5, <1>6, <1>7 DEF Alone

\* A request begins a chain only where there is none.
LEMMA RequestAlone ==
    ASSUME IInv, Alone, NEW r \in Requests, Arrive(r) \/ RequestStep(r) \/ RequestFails(r)
    PROVE  Alone'
<1>1. TypeOK /\ chain \in [Chains -> Chain] /\ request \in [Requests -> Request]
  BY DEF IInv, TypeOK, Chain, Request
<1>2. \A q \in Requests \ {r} : request'[q] = request[q]
  BY <1>1, RequestMoves
<1>3. CASE Create(r)
  <2>1. /\ state = "none" /\ state' = "pending" /\ request'[r].at = "launch" 
        /\ UNCHANGED <<chain, crossed, edited>>
    BY <1>3, <1>1 DEF Create, Ask, history
  <2>2. Live' = {} /\ Drivers' = {r}
    BY <2>1, <1>2 DEF Alone, Live, Drivers
  <2> QED
    BY <2>1, <2>2, <1>2 DEF Alone, Clear
<1>4. CASE AbortReads(r) \/ AbortWrites(r) \/ AbortSweeps(r) \/ AbortStrikes(r) \/ RequestFails(r)
  <2>1. /\ state' \in {state, "aborted"} /\ UNCHANGED <<chain, crossed, edited>>
        /\ request'[r].at \in {"idle", "abort", "sweep", "strike"} /\ state # "none"
    <3>1. CASE AbortReads(r)
      BY <3>1, <1>1 DEF AbortReads, Idle, Ended, rolloutVars, history
    <3>2. CASE AbortWrites(r)
      BY <3>2, <1>1 DEF AbortWrites, Ask, Alone
    <3>3. CASE AbortSweeps(r)
      <4>1. \/ request' = [request EXCEPT ![r].at = "strike"]
            \/ request' = [request EXCEPT ![r] = Idle]
        BY <3>3 DEF AbortSweeps, Ask
      <4>3. request[r].at = "sweep" /\ UNCHANGED <<state, chain, crossed, edited>>
        BY <3>3 DEF AbortSweeps, rolloutVars, history
      <4>2. CASE request' = [request EXCEPT ![r].at = "strike"]
        <5>1. request'[r].at = "strike"
          BY <4>2, <1>1 DEF Request
        <5> QED
          BY <4>3, <5>1 DEF Alone
      <4>4. CASE request' = [request EXCEPT ![r] = Idle]
        BY <4>3, <4>4, <1>1 DEF Idle, Alone
      <4> QED
        BY <4>1, <4>2, <4>4
    <3>5. CASE AbortStrikes(r)
      BY <3>5, <1>1 DEF AbortStrikes, Idle, rolloutVars, history, Alone
    <3>4. CASE RequestFails(r)
      BY <3>4, <1>1 DEF RequestFails, Idle, rolloutVars, history, Alone
    <3> QED
      BY <1>4, <3>1, <3>2, <3>3, <3>4, <3>5
  <2>2. Live' = Live /\ Drivers' \subseteq Drivers
    BY <2>1, <1>2 DEF Live, Drivers
  <2> QED
    BY <2>1, <2>2, <1>2 DEF Alone, Clear
<1>5. CASE Launch(r)
  <2>1. PICK c \in Chains : /\ chain[c].at = "free"
                            /\ chain' = [chain EXCEPT ![c] = [at |-> "advance",
                                                 wave |-> request[r].wave, batch |-> {}]]
    BY <1>5 DEF Launch, Enqueue
  <2>2. /\ r \in Drivers /\ request'[r].at = "idle" /\ UNCHANGED <<state, crossed, edited>>
        /\ request[r].at = "launch"
    BY <1>5, <1>1 DEF Launch, Idle, Drivers, rolloutVars, history
  <2>3. Live' \subseteq Live \cup {c} /\ Drivers' = Drivers \ {r}
    BY <2>1, <2>2, <1>1, <1>2 DEF Live, Drivers
  <2>4. state # "none" /\ (Clear => state # "halted")
    BY <2>2 DEF Alone
  <2> QED
    BY <2>2, <2>3, <2>4, <1>2 DEF Alone, Clear
<1>6. CASE ResumeReads(r)
  <2>1. /\ state = "halted" /\ request'[r].at = "resume"
        /\ crossed' = (crossed \/ "resume" \in Others(r)) /\ UNCHANGED <<state, chain, edited>>
    BY <1>6, <1>1 DEF ResumeReads, Idle, rolloutVars
  <2>2. ~crossed' => \A q \in Requests \ {r} : request[q].at # "resume"
    BY <2>1 DEF Others
  <2>3. Live' = Live
    BY <2>1 DEF Live
  <2>4. Clear' => Clear /\ Drivers' = {r}
    <3> SUFFICES ASSUME Clear'
                 PROVE  Clear /\ Drivers' = {r}
      OBVIOUS
    <3>1. Clear
      BY <2>1 DEF Clear
    <3>2. \A q \in Requests \ {r} : request'[q].at \notin {"launch", "resume"}
      BY <3>1, <2>1, <2>2, <1>2 DEF Alone, Clear
    <3> QED
      BY <3>1, <3>2, <2>1 DEF Drivers
  <2> QED
    BY <2>1, <2>3, <2>4, <1>2 DEF Alone, Clear
<1>7. CASE ResumeWrites(r)
  <2>1. /\ request[r].at = "resume" /\ request'[r].at = "launch" /\ state' = "running"
        /\ UNCHANGED <<chain, crossed, edited>>
    BY <1>7, <1>1 DEF ResumeWrites, Ask, history
  <2>2. Live' = Live /\ Drivers' = Drivers
    BY <2>1, <1>2 DEF Live, Drivers
  <2> QED
    BY <2>1, <2>2, <1>2 DEF Alone, Clear
<1>8. CASE EditWave(r) \/ EditRollout(r)
  <2>1. edited' /\ state # "none" /\ state' # "none" /\ request'[r].at \in {"mirror", "idle"}
    <3>1. CASE EditWave(r)
      <4>1. \E n \in Waves : wave[n] # "none"
        BY <3>1 DEF EditWave
      <4>2. state # "none"
        BY <4>1 DEF Alone
      <4> QED
        BY <3>1, <1>1, <4>2 DEF EditWave, rolloutVars
    <3>2. CASE EditRollout(r)
      BY <3>2, <1>1 DEF EditRollout, Alone, Idle, history, Request, WaveStates
    <3> QED
      BY <1>8, <3>1, <3>2
  <2> QED
    BY <2>1, <1>2 DEF Alone, Clear
<1> QED
  BY <1>3, <1>4, <1>5, <1>6, <1>7, <1>8 DEF Arrive, RequestStep
\* What fails, joins or leaves begins nothing.
LEMMA WorldAlone ==
    ASSUME Alone,
           \/ Restart
           \/ \E n \in Waves : TimePasses(n)
           \/ \E m \in Slots : MemberJoins(m) \/ MemberLeaves(m)
           \/ UNCHANGED vars
    PROVE  Alone'
<1>1. CASE Restart
  <2>1. /\ UNCHANGED <<state, wave, crossed, edited>> /\ Live' = {}
        /\ \A r \in Requests : \/ request'[r].at = "idle" /\ request[r].at # "new"
                               \/ request'[r].at = "new" /\ request[r].at = "new"
    BY <1>1 DEF Restart, Live, Free, Idle, rolloutVars, waveVars, history
  <2>2. Drivers' = {}
    BY <2>1 DEF Drivers
  <2> QED
    BY <2>1, <2>2 DEF Alone, Clear
<1>2. ASSUME UNCHANGED <<state, wave, chain, request, crossed, edited>>
      PROVE  Alone'
  BY <1>2 DEF Alone, Clear, Live, Drivers
<1> QED
  BY <1>1, <1>2 DEF TimePasses, MemberJoins, MemberLeaves, vars, rolloutVars, waveVars, history

\* So it is from the start.
LEMMA AloneHolds == Spec => []Alone
<1>1. Init => Alone
  BY DEF Init, Alone, Clear, Live, Drivers, Free, Idle
<1>2. IInv /\ Alone /\ [Next]_vars => Alone'
  <2> SUFFICES ASSUME IInv, Alone, [Next]_vars
               PROVE  Alone'
    OBVIOUS
  <2> QED
    BY JobAlone, RequestAlone, WorldAlone DEF Next
<1> QED
  BY <1>1, <1>2, Invariance, PTL DEF Spec

-----------------------------------------------------------------------------
\* The waves that say they run.
Running == {n \in Waves : wave[n] = "running"}

\* Of a rollout that nothing fails in: only the current wave runs, and only while a job
\* looks after it or an abort is about to strike it.
OneRuns ==
    Clear /\ faults = 0 =>
        /\ Running \subseteq {current}
        /\ \A c \in Live : chain[c].at \notin {"advance", "finish", "flip"} =>
              current = chain[c].wave
        /\ \A c \in Live : chain[c].at \notin {"apply", "gate", "check", "pass", "fail"} =>
              Running = {}
        /\ Drivers # {} \/ state \in {"none", "halted"} => Running = {}
        /\ still => \/ Running = {}
                    \/ \E r \in Requests : /\ request[r].at \in {"sweep", "strike"}
                                           /\ request[r].wave = current

\* What a statement that does not fail does.
LEMMA NoFault ==
    ASSUME faults \in Nat, faults' = 0
    PROVE  ~Fails
BY DEF Fails

\* The chain that is there has the rollout to itself.
LEMMA JobOneRuns ==
    ASSUME IInv, Alone, OneRuns, NEW c \in Chains, JobStep(c), Clear, faults' = 0
    PROVE  OneRuns'
<1> DEFINE n == chain[c].wave
           wave1(s) == [wave EXCEPT ![n] = s]
<1>1. /\ chain \in [Chains -> Chain] /\ wave \in [Waves -> WaveStates \cup {"none"}]
      /\ n \in Waves /\ TypeOK /\ faults \in Nat /\ c \in Chains
  BY ClusterRolloutAssumption DEF IInv, TypeOK, Chain
<1>2. /\ c \in Live /\ Live' \subseteq Live /\ UNCHANGED <<request, crossed, edited, still>>
  BY <1>1, JobMoves
<1>3. ~Fails /\ faults = 0
  <2>1. ~Fails
    BY <1>1, NoFault
  <2>2. faults' = faults
    BY <2>1 DEF JobStep, AdvanceReads, AdvanceFinishes, AdvanceFlips, AdvanceSeeks,
       AdvanceResets, AdvanceCreates, AdvanceApplies, GateReads, GateChecks, GateMarksHealthy,
       GatePoints, GateMarksUnhealthy, GateHalts, Logged
  <2> QED
    BY <2>1, <2>2
<1>4. Live' \subseteq {c} /\ Drivers = {} /\ Drivers' = {}
  BY <1>2 DEF Alone, Drivers
<1>5. /\ Running \subseteq {current}
      /\ chain[c].at \notin {"advance", "finish", "flip"} => current = n
      /\ chain[c].at \notin {"apply", "gate", "check", "pass", "fail"} => Running = {}
      /\ state \notin {"none", "halted"}
  BY <1>2, <1>3 DEF OneRuns, Alone
<1>6. still => UNCHANGED <<wave, current>>
  <2>1. still => state = "aborted" /\ chain[c].at \in {"advance", "gate"}
    BY <1>2 DEF IInv, Unseen, Queued, Live
  <2> QED
    BY <2>1 DEF JobStep, AdvanceReads, AdvanceFinishes, AdvanceFlips, AdvanceSeeks,
       AdvanceResets, AdvanceCreates, AdvanceApplies, GateReads, GateChecks, GateMarksHealthy,
       GatePoints, GateMarksUnhealthy, GateHalts, rolloutVars, waveVars
<1>7. /\ Running' \subseteq {current'}
      /\ chain'[c].at \notin {"free", "advance", "finish", "flip"} => current' = chain'[c].wave
      /\ chain'[c].at \notin {"free", "apply", "gate", "check", "pass", "fail"} => Running' = {}
      /\ state' = "halted" => Running' = {}
      /\ state' # "none"
  <2> USE <1>1, <1>3, <1>5
      DEF Logged, Free, Go, Stop, Enqueue, rolloutVars, waveVars, Running, Chain
  <2>1. CASE AdvanceReads(c) \/ AdvanceFinishes(c)
    BY <2>1 DEF AdvanceReads, AdvanceFinishes
  <2>2. CASE AdvanceFlips(c) \/ AdvanceSeeks(c)
    BY <2>2 DEF AdvanceFlips, AdvanceSeeks
  <2>3. CASE AdvanceResets(c)
    <3>1. /\ Running = {} /\ wave' = wave1("running") /\ current' = n /\ state' = state
          /\ chain' = [chain EXCEPT ![c].at = "apply"]
      BY <2>3 DEF AdvanceResets
    <3>2. Running' \subseteq {n}
      BY <3>1
    <3>3. chain'[c].at = "apply" /\ chain'[c].wave = n
      BY <3>1
    <3>4. Running' \subseteq {current'} /\ state' \notin {"none", "halted"}
      BY <3>1, <3>2, <1>5
    <3> HIDE DEF Running
    <3> QED
      BY <3>1, <3>2, <3>3, <3>4
  <2>4. CASE AdvanceCreates(c)
    <3>1. /\ Running = {} /\ current' = n /\ state' = state
          /\ \/ wave' = wave1("running") /\ chain' = [chain EXCEPT ![c].at = "apply"]
             \/ wave' = wave /\ chain' = [chain EXCEPT ![c] = Free]
      BY <2>4 DEF AdvanceCreates
    <3>2. Running' \subseteq {n}
      BY <3>1
    <3>3. \/ chain'[c].at = "apply" /\ chain'[c].wave = n
          \/ chain'[c].at = "free" /\ Running' = {}
      BY <3>1
    <3>4. Running' \subseteq {current'} /\ state' \notin {"none", "halted"}
      BY <3>1, <3>2, <1>5
    <3> HIDE DEF Running
    <3> QED
      BY <3>1, <3>2, <3>3, <3>4
  <2>5. CASE AdvanceApplies(c)
    BY <2>5 DEF AdvanceApplies
  <2>6. CASE GateReads(c)
    BY <2>6 DEF GateReads
  <2>7. CASE GateChecks(c)
    <3>1. /\ UNCHANGED <<state, current, wave>> /\ chain[c].at = "check"
          /\ \/ wave[n] # "running" /\ Stop(c)
             \/ Go(c, "pass") \/ Go(c, "fail") \/ Enqueue(c, "gate", n)
      BY <2>7 DEF GateChecks
    <3> QED
      BY <3>1
  <2>8. CASE GateMarksHealthy(c)
    BY <2>8 DEF GateMarksHealthy
  <2>9. CASE GatePoints(c)
    BY <2>9 DEF GatePoints
  <2>10. CASE GateMarksUnhealthy(c)
    BY <2>10 DEF GateMarksUnhealthy
  <2>11. CASE GateHalts(c)
    BY <2>11 DEF GateHalts
  <2> QED
    BY <2>1, <2>2, <2>3, <2>4, <2>5, <2>6, <2>7, <2>8, <2>9, <2>10, <2>11 DEF JobStep
<1>8. still' => \/ Running' = {}
                \/ \E r \in Requests : /\ request'[r].at \in {"sweep", "strike"}
                                       /\ request'[r].wave = current'
  BY <1>2, <1>3, <1>6 DEF OneRuns, Running
<1>9. \A d \in Live' : d = c /\ chain'[d].at # "free"
  BY <1>4 DEF Live
<1> HIDE DEF n
<1> QED
  BY <1>4, <1>7, <1>8, <1>9 DEF OneRuns
\* A request runs no wave; the abort whose sweep finds one strikes it.
LEMMA RequestOneRuns ==
    ASSUME IInv, Alone, OneRuns, NEW r \in Requests,
           Arrive(r) \/ RequestStep(r) \/ RequestFails(r), Clear', faults' = 0
    PROVE  OneRuns'
<1>1. /\ TypeOK /\ chain \in [Chains -> Chain] /\ request \in [Requests -> Request]
      /\ wave \in [Waves -> WaveStates \cup {"none"}] /\ faults \in Nat
  BY ClusterRolloutAssumption DEF IInv, TypeOK, Chain, Request
<1>2. /\ \A q \in Requests \ {r} : request'[q] = request[q]
  BY <1>1, RequestMoves
<1>3. still => /\ state = "aborted"
               /\ \A q \in Requests : request[q].at \in {"new", "idle", "sweep", "strike"}
  BY DEF IInv, Unseen
<1>4. CASE RequestFails(r)
  BY <1>1, <1>4, NoFault DEF RequestFails
<1>5. CASE EditWave(r) \/ EditRollout(r)
  BY <1>5 DEF EditWave, EditRollout, Alone, Clear, history
<1> SUFFICES ASSUME ~RequestFails(r), ~EditWave(r), ~EditRollout(r)
             PROVE  OneRuns'
  BY <1>4, <1>5
<1>6. faults' = faults /\ Clear
  <2>1. CASE ResumeReads(r)
    BY <2>1 DEF ResumeReads, Clear
  <2>2. CASE Create(r) \/ Launch(r) \/ AbortReads(r) \/ AbortSweeps(r) \/ AbortStrikes(r)
             \/ ResumeWrites(r)
    BY <2>2 DEF Create, Launch, AbortReads, AbortSweeps, AbortStrikes, ResumeWrites, Clear,
       history
  <2>3. CASE AbortWrites(r)
    BY <2>3 DEF AbortWrites, Clear
  <2> QED
    BY <2>1, <2>2, <2>3 DEF Arrive, RequestStep
<1>7. /\ Running \subseteq {current}
      /\ \A c \in Live : chain[c].at \notin {"advance", "finish", "flip"} =>
            current = chain[c].wave
      /\ \A c \in Live : chain[c].at \notin {"apply", "gate", "check", "pass", "fail"} =>
            Running = {}
      /\ Drivers # {} \/ state \in {"none", "halted"} => Running = {}
  BY <1>6 DEF OneRuns
<1>8. still => \/ Running = {}
               \/ \E q \in Requests : /\ request[q].at \in {"sweep", "strike"}
                                      /\ request[q].wave = current
  BY <1>6 DEF OneRuns
<1>9. CASE Create(r)
  <2>1. /\ state = "none" /\ UNCHANGED <<wave, chain, still>>
    BY <1>9 DEF Create, waveVars, history
  <2>2. Live' = {} /\ Running' = {} /\ ~still'
    BY <2>1, <1>3, <1>7 DEF Alone, Live, Running
  <2> QED
    BY <2>2 DEF OneRuns
<1>10. CASE Launch(r)
  <2>1. PICK c \in Chains : /\ chain[c].at = "free"
                            /\ chain' = [chain EXCEPT ![c] = [at |-> "advance",
                                                 wave |-> request[r].wave, batch |-> {}]]
    BY <1>10 DEF Launch, Enqueue
  <2>2. /\ r \in Drivers /\ ~still /\ UNCHANGED <<wave, current, still>>
    BY <1>10, <1>3 DEF Launch, Drivers, rolloutVars, waveVars, history
  <2>3. Running' = {} /\ ~still'
    BY <2>2, <1>7 DEF Running
  <2>4. \A d \in Live' : d = c /\ chain'[d].at = "advance"
    BY <2>1, <2>2, <1>1, <1>6 DEF Live, Alone
  <2> QED
    BY <2>3, <2>4 DEF OneRuns
<1>11. CASE ResumeReads(r) \/ ResumeWrites(r)
  <2>1. /\ UNCHANGED <<wave, current, chain, still>> /\ ~still /\ Running = {}
    <3>1. CASE ResumeReads(r)
      BY <3>1, <1>3, <1>7 DEF ResumeReads, rolloutVars, waveVars
    <3>2. CASE ResumeWrites(r)
      BY <3>2, <1>3, <1>7 DEF ResumeWrites, Drivers, waveVars, history
    <3> QED
      BY <1>11, <3>1, <3>2
  <2>2. Running' = {} /\ Live' = Live /\ ~still'
    BY <2>1 DEF Running, Live
  <2> QED
    BY <2>1, <2>2, <1>7 DEF OneRuns
<1>12. CASE AbortReads(r)
  <2>1. /\ UNCHANGED <<wave, state, current, chain, still>> /\ ~still
        /\ request'[r].at = "abort"
    BY <1>12, <1>1, <1>3 DEF AbortReads, Idle, Ended, rolloutVars, waveVars, history
  <2>2. Running' = Running /\ Live' = Live /\ Drivers' \subseteq Drivers
    BY <2>1, <1>2 DEF Running, Live, Drivers
  <2> QED
    BY <2>1, <2>2, <1>7 DEF OneRuns
<1>13. CASE AbortWrites(r)
  <2>1. /\ UNCHANGED <<wave, current, chain>> /\ state' = "aborted"
        /\ still' => request[r].wave = current
        /\ request' = [request EXCEPT ![r].at = "sweep"]
    BY <1>13 DEF AbortWrites, Ask, waveVars
  <2>2. request'[r].at = "sweep" /\ request'[r].wave = request[r].wave
    BY <2>1, <1>1 DEF Request
  <2>3. Running' = Running /\ Live' = Live /\ Drivers' \subseteq Drivers
    BY <2>1, <2>2, <1>2 DEF Running, Live, Drivers
  <2> QED
    BY <2>1, <2>2, <2>3, <1>7 DEF OneRuns
<1>14. CASE AbortSweeps(r)
  <2>1. /\ UNCHANGED <<wave, state, current, chain, still>>
        /\ \/ request' = [request EXCEPT ![r].at = "strike"]
           \/ request' = [request EXCEPT ![r] = Idle] /\ request[r].wave \notin Running
    BY <1>14 DEF AbortSweeps, Ask, Running, rolloutVars, waveVars, history
  <2>2. Running' = Running /\ Live' = Live
    BY <2>1 DEF Running, Live
  <2>3. \/ request'[r].at = "strike" /\ request'[r].wave = request[r].wave
        \/ request'[r].at = "idle" /\ request[r].wave \notin Running
    <3>1. CASE request' = [request EXCEPT ![r].at = "strike"]
      BY <3>1, <1>1 DEF Request
    <3>2. CASE request' = [request EXCEPT ![r] = Idle] /\ request[r].wave \notin Running
      BY <3>2, <1>1 DEF Idle
    <3> QED
      BY <2>1, <3>1, <3>2
  <2>4. Drivers' \subseteq Drivers
    BY <2>3, <1>2 DEF Drivers
  <2>5. still' => \/ Running = {}
                  \/ \E q \in Requests : /\ request'[q].at \in {"sweep", "strike"}
                                         /\ request'[q].wave = current
    <3> SUFFICES ASSUME still', Running # {}
                 PROVE  \E q \in Requests : /\ request'[q].at \in {"sweep", "strike"}
                                            /\ request'[q].wave = current
      OBVIOUS
    <3>1. PICK q \in Requests : /\ request[q].at \in {"sweep", "strike"}
                                /\ request[q].wave = current
      BY <2>1, <1>8
    <3>2. current \in Running
      BY <1>7
    <3> QED
      BY <3>1, <3>2, <2>3, <1>2
  <2> QED
    BY <2>1, <2>2, <2>4, <2>5, <1>7 DEF OneRuns
<1>15. CASE AbortStrikes(r)
  <2>1. /\ UNCHANGED <<state, current, chain, still>> /\ request'[r].at = "idle"
        /\ wave' = [wave EXCEPT ![request[r].wave] = "aborted"]
    BY <1>15, <1>1 DEF AbortStrikes, Idle, rolloutVars, history
  <2>2. Running' = Running \ {request[r].wave}
    BY <2>1, <1>1 DEF Running
  <2>3. Live' = Live /\ Drivers' \subseteq Drivers
    BY <2>1, <1>2 DEF Live, Drivers
  <2>4. still' => \/ Running' = {}
                  \/ \E q \in Requests : /\ request'[q].at \in {"sweep", "strike"}
                                         /\ request'[q].wave = current
    BY <2>1, <2>2, <1>2, <1>7, <1>8
  <2> QED
    BY <2>1, <2>2, <2>3, <2>4, <1>7 DEF OneRuns
<1> QED
  BY <1>9, <1>10, <1>11, <1>12, <1>13, <1>14, <1>15 DEF Arrive, RequestStep

\* Neither does anything else that does not fail.
LEMMA WorldOneRuns ==
    ASSUME IInv, OneRuns, Clear', faults' = 0,
           \/ \E c \in Chains : JobEnds(c)
           \/ Restart
           \/ \E n \in Waves : TimePasses(n)
           \/ \E m \in Slots : MemberJoins(m) \/ MemberLeaves(m)
           \/ UNCHANGED vars
    PROVE  OneRuns'
<1>1. ~Fails
  BY NoFault, ClusterRolloutAssumption DEF IInv, TypeOK
<1>2. UNCHANGED <<rolloutVars, wave, chain, request, history, faults>>
  BY <1>1 DEF JobEnds, Restart, TimePasses, MemberJoins, MemberLeaves, vars, waveVars
<1> QED
  BY <1>2 DEF OneRuns, Clear, Live, Drivers, Running, rolloutVars, history

\* So it is from the start.
LEMMA OneRunsHolds == Spec => []OneRuns
<1>1. Init => OneRuns
  BY DEF Init, OneRuns, Running, Live, Free
<1>2. IInv /\ Alone /\ OneRuns /\ [Next]_vars => OneRuns'
  <2> SUFFICES ASSUME IInv, Alone, OneRuns, [Next]_vars, Clear', faults' = 0
               PROVE  OneRuns'
    BY DEF OneRuns
  <2>1. ASSUME NEW c \in Chains, JobStep(c)
        PROVE  OneRuns'
    <3>1. Clear
      BY <2>1, JobMoves DEF Clear, IInv
    <3> QED
      BY <2>1, <3>1, JobOneRuns
  <2> QED
    BY <2>1, RequestOneRuns, WorldOneRuns DEF Next
<1> QED
  BY <1>1, <1>2, Invariance, AloneHolds, PTL DEF Spec

\* One job at a time works on a rollout and one wave at a time runs, in a rollout of any
\* size: the check that it is halted keeps every resume from starting a second chain.
THEOREM OneChainDrives == Spec => []OneChain
<1>1. Alone /\ OneRuns => OneChain
  <2> SUFFICES ASSUME Alone, OneRuns, Clear
               PROVE  /\ Cardinality(Live) <= 1
                      /\ faults = 0 => Cardinality({n \in Waves : wave[n] = "running"}) <= 1
    BY DEF OneChain, Clear
  <2>1. ASSUME NEW S, NEW x, S \subseteq {x}
        PROVE  Cardinality(S) <= 1
    <3>1. S = {} \/ S = {x}
      BY <2>1
    <3>2. Cardinality(S) \in {0, 1}
      BY <3>1, FS_EmptySet, FS_Singleton
    <3> QED
      BY <3>2
  <2>2. Cardinality(Live) <= 1
    <3>1. CASE Live = {}
      BY <3>1, <2>1
    <3>2. ASSUME NEW c \in Live
          PROVE  Cardinality(Live) <= 1
      <4>1. Live \subseteq {c}
        BY <3>2 DEF Alone
      <4> QED
        BY <4>1, <2>1
    <3> QED
      BY <3>1, <3>2
  <2>3. faults = 0 => Cardinality(Running) <= 1
    BY <2>1 DEF OneRuns
  <2> QED
    BY <2>2, <2>3 DEF Running
<1> QED
  BY <1>1, AloneHolds, OneRunsHolds, PTL

\* An abort that nothing crosses leaves no wave running: the wave it read is the only one
\* that can be, and its sweep finds it.
THEOREM AbortLeavesNoneRunning == Spec => []AbortStopsWave
<1>1. OneRuns => AbortStopsWave
  BY DEF OneRuns, AbortStopsWave, Clear, Running
<1> QED
  BY <1>1, OneRunsHolds, PTL

-----------------------------------------------------------------------------
\* Members of the beginning that nobody before them has left: their place never falls.
Kept == {m \in Original \cap members : \A k \in gone : ~(k < m)}

\* Those of them that stand before the window of a wave.
Behind == [l \in 0 .. Cardinality(Slots) + 1 |-> {m \in Kept : Place(m) < l * WaveSize}]

\* Members the template was applied to and a gate has passed for.
Done == applied \cap vouched

\* What a job has seen of its wave covers all who stand before the next one.
Carried(c) ==
    /\ chain[c].at \in {"flip", "seek", "reset", "create", "apply"} =>
          Behind[chain[c].wave + 1] \subseteq chain[c].batch \cup Done
    /\ chain[c].at \in {"gate", "check"} => Behind[chain[c].wave + 1] \subseteq applied
    /\ chain[c].at = "finish" => Kept \subseteq Done

\* Before a wave that may begin stands nobody who is not done; a row covers its window.
Windows ==
    /\ Original \subseteq members \cup gone
    /\ \A n \in passed : Reached(n)
    /\ \A n \in Waves : Reached(n) => Behind[n] \subseteq Done
    /\ \A n \in Waves : wave[n] # "none" => Behind[n + 1] \subseteq vouched \cup checked[n]
    /\ \A c \in Chains : Carried(c)
    /\ state = "completed" => Kept \subseteq Done

\* Nobody who is kept moves up.
LEMMA BehindShrinks ==
    ASSUME TypeOK, Windows,
           \/ UNCHANGED <<members, gone>>
           \/ \E m \in Slots : MemberJoins(m) \/ MemberLeaves(m)
    PROVE  /\ Original \subseteq members' \cup gone'
           /\ Kept' \subseteq Kept
           /\ \A l \in 0 .. Cardinality(Slots) + 1 : Behind'[l] \subseteq Behind[l]
<1>1. CASE UNCHANGED <<members, gone>>
  BY <1>1 DEF Windows, Kept, Behind, Place
<1>2. ASSUME NEW m \in Slots, MemberJoins(m) \/ MemberLeaves(m)
      PROVE  /\ Original \subseteq members' \cup gone'
             /\ Kept' \subseteq Kept
             /\ \A k \in Kept' : Place(k) <= Place(k)'
             /\ \A k \in Kept' : Place(k) \in Nat /\ Place(k)' \in Nat
  <2>1. /\ members \subseteq Slots /\ members' \subseteq Slots /\ IsFiniteSet(Slots)
        /\ Slots \subseteq Nat
    BY <1>2, ClusterRolloutAssumption DEF TypeOK, MemberJoins, MemberLeaves
  <2>2. \A k : /\ IsFiniteSet({j \in members : j < k}) /\ IsFiniteSet({j \in members' : j < k})
               /\ Place(k) \in Nat /\ Place(k)' \in Nat
    <3> TAKE k
    <3>1. {j \in members : j < k} \subseteq Slots /\ {j \in members' : j < k} \subseteq Slots
      BY <2>1
    <3>2. /\ IsFiniteSet({j \in members : j < k}) /\ IsFiniteSet({j \in members' : j < k})
      BY <3>1, <2>1, FS_Subset
    <3> QED
      BY <3>2, FS_CardinalityType DEF Place
  <2>3. CASE MemberJoins(m)
    <3>1. m \notin Original /\ members' = members \cup {m} /\ gone' = gone
      BY <2>3 DEF MemberJoins, Windows
    <3>2. \A k : Place(k) <= Place(k)'
      <4> TAKE k
      <4>1. {j \in members : j < k} \subseteq {j \in members' : j < k}
        BY <3>1
      <4> QED
        BY <4>1, <2>2, FS_Subset DEF Place
    <3> QED
      BY <3>1, <3>2, <2>2 DEF Kept, Windows
  <2>4. CASE MemberLeaves(m)
    <3>1. members' = members \ {m} /\ gone' = gone \cup {m}
      BY <2>4 DEF MemberLeaves
    <3>2. \A k \in Kept' : Place(k) <= Place(k)'
      <4> TAKE k \in Kept'
      <4>1. ~(m < k)
        BY <3>1 DEF Kept
      <4>2. {j \in members : j < k} = {j \in members' : j < k}
        BY <3>1, <4>1
      <4> QED
        BY <4>2, <2>2 DEF Place
    <3> QED
      BY <3>1, <3>2, <2>2 DEF Kept, Windows
  <2> QED
    BY <1>2, <2>3, <2>4
<1>3. ASSUME NEW m \in Slots, MemberJoins(m) \/ MemberLeaves(m),
             NEW l \in 0 .. Cardinality(Slots) + 1
      PROVE  Behind'[l] \subseteq Behind[l]
  <2>1. l * WaveSize \in Nat
    BY ClusterRolloutAssumption, WavesType
  <2>2. \A k \in Kept' : Place(k)' < l * WaveSize => Place(k) < l * WaveSize
    BY <1>2, <1>3, <2>1
  <2>3. Kept' \subseteq Kept
    BY <1>2, <1>3
  <2>4. Behind'[l] = {k \in Kept' : Place(k)' < l * WaveSize}
    BY DEF Behind
  <2> QED
    BY <2>2, <2>3, <2>4 DEF Behind
<1> QED
  BY <1>1, <1>2, <1>3
\* The wave after any wave has its row of Behind.
LEMMA NextWave ==
    ASSUME NEW n \in Waves
    PROVE  n \in 0 .. Cardinality(Slots) + 1 /\ n + 1 \in 0 .. Cardinality(Slots) + 1
BY WavesType DEF Waves

\* Members behind a wave only leave, and what was done stays done.
Onward ==
    /\ Original \subseteq members' \cup gone' /\ Kept' \subseteq Kept
    /\ \A l \in 0 .. Cardinality(Slots) + 1 : Behind'[l] \subseteq Behind[l]
    /\ applied \subseteq applied' /\ vouched \subseteq vouched'

\* A job that stands still keeps what it has seen.
LEMMA CarriedStays ==
    ASSUME TypeOK, Onward, NEW c \in Chains, Carried(c), chain'[c] = chain[c]
    PROVE  Carried(c)'
<1>1. chain[c].wave \in Waves
  BY DEF TypeOK
<1>2. Behind'[chain[c].wave + 1] \subseteq Behind[chain[c].wave + 1]
  BY <1>1, NextWave DEF Onward
<1> QED
  BY <1>2 DEF Onward, Carried, Done

\* A step that neither passes a gate nor begins a wave.
LEMMA WindowsStay ==
    ASSUME IInv, Windows, Onward, passed' = passed,
           \A n \in Waves : wave'[n] # "none" => /\ wave[n] # "none"
                                                 /\ checked'[n] = checked[n],
           \A c \in Chains : Carried(c)',
           state' = "completed" => state = "completed" \/ Kept \subseteq Done
    PROVE  Windows'
<1>1. \A n \in Waves : Reached(n)' => Behind'[n] \subseteq Done'
  BY NextWave DEF Windows, Onward, Done, Reached
<1>2. \A n \in Waves : wave'[n] # "none" => Behind'[n + 1] \subseteq vouched' \cup checked'[n]
  <2> TAKE n \in Waves
  <2>1. Behind'[n + 1] \subseteq Behind[n + 1]
    BY NextWave DEF Onward
  <2>2. wave[n] # "none" => Behind[n + 1] \subseteq vouched \cup checked[n]
    BY DEF Windows
  <2> QED
    BY <2>1, <2>2 DEF Onward
<1>3. \A n \in passed' : Reached(n)'
  BY DEF Windows, Reached
<1>4. state' = "completed" => Kept' \subseteq Done'
  BY DEF Windows, Onward, Done
<1>5. Original \subseteq members' \cup gone'
  BY DEF Onward
<1> QED
  BY <1>1, <1>2, <1>3, <1>4, <1>5 DEF Windows

\* An abort strikes, and a job resets or marks, a wave that has a row.
Struck ==
    /\ \A r \in Requests : request[r].at = "strike" => wave[request[r].wave] # "none"
    /\ \A c \in Chains : chain[c].at \in {"reset", "pass", "fail"} =>
          wave[chain[c].wave] # "none"

\* A row stays, with its members.
LEMMA RowsStay ==
    ASSUME TypeOK, [Next]_vars, NEW n \in Waves, wave[n] # "none"
    PROVE  wave'[n] # "none" /\ checked'[n] = checked[n]
<1>1. wave \in [Waves -> WaveStates \cup {"none"}] /\ checked \in [Waves -> SUBSET Slots]
  BY DEF TypeOK
<1>2. ASSUME NEW c \in Chains, JobStep(c)
      PROVE  wave'[n] # "none" /\ checked'[n] = checked[n]
  <2> USE <1>1 DEF Logged, waveVars
  <2>1. CASE AdvanceReads(c) \/ AdvanceFinishes(c) \/ AdvanceFlips(c) \/ AdvanceSeeks(c)
             \/ AdvanceApplies(c) \/ GateReads(c) \/ GateChecks(c) \/ GatePoints(c)
             \/ GateHalts(c)
    BY <2>1 DEF AdvanceReads, AdvanceFinishes, AdvanceFlips, AdvanceSeeks, AdvanceApplies,
       GateReads, GateChecks, GatePoints, GateHalts
  <2>2. CASE AdvanceResets(c) \/ AdvanceCreates(c)
    BY <2>2 DEF AdvanceResets, AdvanceCreates
  <2>3. CASE GateMarksHealthy(c) \/ GateMarksUnhealthy(c)
    BY <2>3 DEF GateMarksHealthy, GateMarksUnhealthy
  <2> QED
    BY <1>2, <2>1, <2>2, <2>3 DEF JobStep
<1>3. ASSUME NEW r \in Requests, Arrive(r) \/ RequestStep(r) \/ RequestFails(r)
      PROVE  wave'[n] # "none" /\ checked'[n] = checked[n]
  <2>1. CASE Create(r) \/ AbortReads(r) \/ AbortWrites(r) \/ AbortSweeps(r) \/ ResumeReads(r)
             \/ ResumeWrites(r) \/ RequestFails(r) \/ Launch(r) \/ EditRollout(r)
    BY <2>1 DEF Create, AbortReads, AbortWrites, AbortSweeps, ResumeReads, ResumeWrites,
       RequestFails, Launch, EditRollout, waveVars
  <2>2. CASE AbortStrikes(r)
    BY <2>2, <1>1 DEF AbortStrikes
  <2>3. CASE EditWave(r)
    BY <2>3, <1>1 DEF EditWave
  <2> QED
    BY <1>3, <2>1, <2>2, <2>3 DEF Arrive, RequestStep
<1>4. CASE \/ \E c \in Chains : JobEnds(c)
           \/ Restart
           \/ \E k \in Waves : TimePasses(k)
           \/ \E m \in Slots : MemberJoins(m) \/ MemberLeaves(m)
           \/ UNCHANGED vars
  BY <1>4 DEF JobEnds, Restart, TimePasses, MemberJoins, MemberLeaves, vars, waveVars
<1> QED
  BY <1>2, <1>3, <1>4 DEF Next

\* So it stays.
LEMMA StruckStays ==
    ASSUME TypeOK, Struck, [Next]_vars
    PROVE  Struck'
<1>1. \A n \in Waves : wave[n] # "none" => wave'[n] # "none"
  BY RowsStay
<1>2. /\ request \in [Requests -> Request]
      /\ \A r \in Requests : request[r].wave \in Waves
  BY DEF TypeOK, Request
<1>3. ASSUME NEW r \in Requests, request'[r].at = "strike"
      PROVE  \/ request'[r] = request[r]
             \/ request'[r].wave = request[r].wave /\ wave[request[r].wave] = "running"
  <2>1. ASSUME NEW q \in Requests, Arrive(q) \/ RequestStep(q) \/ RequestFails(q)
        PROVE  \/ request'[r] = request[r]
               \/ request'[r].wave = request[r].wave /\ wave[request[r].wave] = "running"
    <3>1. CASE q # r
      BY <3>1, <2>1, RequestMoves
    <3>2. CASE q = r /\ AbortSweeps(r)
      BY <3>2, <1>2, <1>3 DEF AbortSweeps, Ask, Idle, Request
    <3>3. ~Create(r)
      BY <1>2, <1>3 DEF Create, Ask, Request
    <3>7. ~AbortWrites(r)
      BY <1>2, <1>3 DEF AbortWrites, Ask, Request
    <3>8. ~ResumeWrites(r)
      BY <1>2, <1>3 DEF ResumeWrites, Ask, Request
    <3>4. ~AbortReads(r) /\ ~ResumeReads(r)
      BY <1>2, <1>3 DEF AbortReads, ResumeReads, Idle
    <3>6. ~EditWave(r)
      BY <1>2, <1>3 DEF EditWave
    <3>5. ~Launch(r) /\ ~AbortStrikes(r) /\ ~EditRollout(r) /\ ~RequestFails(r)
      BY <1>2, <1>3 DEF Launch, AbortStrikes, EditRollout, RequestFails, Idle
    <3> QED
      BY <2>1, <3>1, <3>2, <3>3, <3>4, <3>5, <3>6, <3>7, <3>8 DEF Arrive, RequestStep
  <2>2. ASSUME NEW c \in Chains, JobStep(c) \/ JobEnds(c)
        PROVE  request'[r] = request[r]
    BY <2>2, JobMoves
  <2>3. CASE Restart
    BY <2>3, <1>3 DEF Restart, Idle
  <2>4. CASE \/ \E k \in Waves : TimePasses(k)
             \/ \E m \in Slots : MemberJoins(m) \/ MemberLeaves(m)
             \/ UNCHANGED vars
    BY <2>4 DEF TimePasses, MemberJoins, MemberLeaves, vars
  <2> QED
    BY <2>1, <2>2, <2>3, <2>4 DEF Next
<1>4. chain \in [Chains -> Chain] /\ \A c \in Chains : chain[c].wave \in Waves
  BY DEF TypeOK, Chain
<1>5. ASSUME NEW c \in Chains, chain'[c].at \in {"reset", "pass", "fail"}
      PROVE  \/ chain'[c] = chain[c]
             \/ chain'[c].wave = chain[c].wave /\ wave[chain[c].wave] # "none"
  <2>1. ASSUME NEW d \in Chains, JobStep(d) \/ JobEnds(d)
        PROVE  \/ chain'[c] = chain[c]
               \/ chain'[c].wave = chain[c].wave /\ wave[chain[c].wave] # "none"
    <3>1. CASE d # c
      BY <2>1, <3>1, JobMoves
    <3>2. CASE d = c /\ AdvanceSeeks(c)
      BY <3>2, <1>4, <1>5 DEF AdvanceSeeks, Go, Chain
    <3>3. ~AdvanceReads(c) /\ ~AdvanceFinishes(c) /\ ~AdvanceFlips(c)
      BY <1>4, <1>5 DEF AdvanceReads, AdvanceFinishes, AdvanceFlips, Go, Stop, Free, Chain
    <3>4. ~AdvanceResets(c) /\ ~AdvanceCreates(c) /\ ~AdvanceApplies(c)
      BY <1>4, <1>5 DEF AdvanceResets, AdvanceCreates, AdvanceApplies, Go, Stop, Enqueue, Free,
         Chain
    <3>5. ~GateReads(c) /\ ~GateMarksHealthy(c)
      BY <1>4, <1>5 DEF GateReads, GateMarksHealthy, Go, Stop, Free, Chain
    <3>7. CASE d = c /\ GateChecks(c)
      <4>1. \/ Stop(c) \/ Enqueue(c, "gate", chain[c].wave)
            \/ wave[chain[c].wave] = "running" /\ (Go(c, "pass") \/ Go(c, "fail"))
        BY <3>7 DEF GateChecks
      <4> QED
        BY <4>1, <1>4, <1>5 DEF Go, Stop, Enqueue, Free, Chain
    <3>6. ~GatePoints(c) /\ ~GateMarksUnhealthy(c) /\ ~GateHalts(c) /\ ~JobEnds(c)
      BY <1>4, <1>5 DEF GatePoints, GateMarksUnhealthy, GateHalts, JobEnds, Go, Stop, Enqueue,
         Free, Chain
    <3> QED
      BY <2>1, <3>1, <3>2, <3>3, <3>4, <3>5, <3>6, <3>7 DEF JobStep
  <2>2. ASSUME NEW r \in Requests, Arrive(r) \/ RequestStep(r) \/ RequestFails(r)
        PROVE  chain'[c] = chain[c]
    <3>1. CASE Launch(r)
      BY <3>1, <1>4, <1>5 DEF Launch, Enqueue
    <3>2. CASE ~Launch(r)
      BY <2>2, <3>2 DEF Arrive, RequestStep, Create, AbortReads, AbortWrites, AbortSweeps,
         AbortStrikes, ResumeReads, ResumeWrites, EditWave, EditRollout, RequestFails
    <3> QED
      BY <3>1, <3>2
  <2>3. CASE Restart
    BY <2>3, <1>5 DEF Restart, Free
  <2>4. CASE \/ \E k \in Waves : TimePasses(k)
             \/ \E m \in Slots : MemberJoins(m) \/ MemberLeaves(m)
             \/ UNCHANGED vars
    BY <2>4 DEF TimePasses, MemberJoins, MemberLeaves, vars
  <2> QED
    BY <2>1, <2>2, <2>3, <2>4 DEF Next
<1> QED
  BY <1>1, <1>2, <1>3, <1>4, <1>5 DEF Struck

\* No request begins a wave or passes a gate.
LEMMA RequestWindows ==
    ASSUME IInv, Struck, Windows, NEW r \in Requests, Arrive(r) \/ RequestStep(r) \/ RequestFails(r)
    PROVE  Windows'
<1>1. /\ TypeOK /\ chain \in [Chains -> Chain] /\ wave \in [Waves -> WaveStates \cup {"none"}]
  BY DEF IInv, TypeOK, Chain
<1>2. UNCHANGED <<checked, overdue, passed, nodeVars, memberVars>>
  BY <1>1, RequestMoves
<1>3. Onward
  BY <1>1, <1>2, BehindShrinks DEF Onward, memberVars, nodeVars
<1>4. /\ \A n \in Waves : wave'[n] # "none" => wave[n] # "none"
      /\ state' = "completed" => state = "completed"
      /\ \/ UNCHANGED chain
         \/ \E c \in Chains : /\ \A d \in Chains \ {c} : chain'[d] = chain[d]
                              /\ chain'[c].at = "advance"
  <2>1. CASE Create(r) \/ AbortReads(r) \/ AbortWrites(r) \/ AbortSweeps(r) \/ ResumeReads(r)
             \/ ResumeWrites(r) \/ RequestFails(r)
    BY <2>1 DEF Create, AbortReads, AbortWrites, AbortSweeps, ResumeReads, ResumeWrites,
       RequestFails, rolloutVars, waveVars
  <2>2. CASE Launch(r)
    BY <2>2, <1>1 DEF Launch, Enqueue, rolloutVars, waveVars
  <2>3. CASE AbortStrikes(r)
    <3>1. request[r].wave \in Waves /\ wave[request[r].wave] # "none"
      BY <2>3 DEF AbortStrikes, Struck, IInv, TypeOK
    <3> QED
      BY <2>3, <1>1, <3>1 DEF AbortStrikes, rolloutVars
  <2>4. CASE EditWave(r)
    BY <2>4, <1>1 DEF EditWave, rolloutVars
  <2>5. CASE EditRollout(r)
    <3>1. request[r].to \in {"running", "unhealthy", "aborted"}
      BY <2>5, <1>1 DEF EditRollout, Struck, TypeOK, WaveStates
    <3> QED
      BY <2>5, <3>1 DEF EditRollout, waveVars
  <2> QED
    BY <2>1, <2>2, <2>3, <2>4, <2>5 DEF Arrive, RequestStep
<1>5. \A c \in Chains : Carried(c)'
  <2> TAKE c \in Chains
  <2>1. CASE chain'[c] = chain[c]
    BY <2>1, <1>1, <1>3, CarriedStays DEF Windows
  <2>2. CASE chain'[c].at = "advance"
    BY <2>2 DEF Carried
  <2> QED
    BY <1>4, <2>1, <2>2
<1> QED
  BY <1>2, <1>3, <1>4, <1>5, WindowsStay

\* Neither does a failure; a member that joins or leaves moves nobody up who is kept.
LEMMA WorldWindows ==
    ASSUME IInv, Windows,
           \/ \E c \in Chains : JobEnds(c)
           \/ Restart
           \/ \E n \in Waves : TimePasses(n)
           \/ \E m \in Slots : MemberJoins(m) \/ MemberLeaves(m)
           \/ UNCHANGED vars
    PROVE  Windows'
<1>1. TypeOK /\ chain \in [Chains -> Chain]
  BY DEF IInv, TypeOK, Chain
<1>2. /\ UNCHANGED <<state, wave, checked, passed, nodeVars>>
      /\ \/ UNCHANGED <<members, gone>>
         \/ \E m \in Slots : MemberJoins(m) \/ MemberLeaves(m)
      /\ \A c \in Chains : chain'[c] = chain[c] \/ chain'[c].at = "free"
  BY <1>1 DEF JobEnds, Stop, Free, Restart, TimePasses, MemberJoins, MemberLeaves, vars,
     rolloutVars, waveVars, memberVars
<1>3. Onward
  BY <1>1, <1>2, BehindShrinks DEF Onward, nodeVars
<1>4. \A c \in Chains : Carried(c)'
  <2> TAKE c \in Chains
  <2>1. CASE chain'[c] = chain[c]
    BY <2>1, <1>1, <1>3, CarriedStays DEF Windows
  <2>2. CASE chain'[c].at = "free"
    BY <2>2 DEF Carried
  <2> QED
    BY <1>2, <2>1, <2>2
<1> QED
  BY <1>2, <1>3, <1>4, WindowsStay
\* Members are read, a wave is begun or worked on: what the job has seen covers its wave.
LEMMA AdvanceWindows ==
    ASSUME IInv, Struck, Windows, NEW c \in Chains,
           \/ AdvanceReads(c) \/ AdvanceFinishes(c) \/ AdvanceFlips(c) \/ AdvanceSeeks(c)
           \/ AdvanceResets(c) \/ AdvanceCreates(c) \/ AdvanceApplies(c)
    PROVE  Windows'
<1> DEFINE n == chain[c].wave
<1>1. /\ TypeOK /\ chain \in [Chains -> Chain] /\ wave \in [Waves -> WaveStates \cup {"none"}]
      /\ checked \in [Waves -> SUBSET Slots] /\ n \in Waves
  BY DEF IInv, TypeOK, Chain
<1>2. /\ UNCHANGED <<members, gone, passed, vouched>> /\ applied \subseteq applied'
      /\ \A d \in Chains \ {c} : chain'[d] = chain[d]
  <2>1. JobStep(c)
    BY DEF JobStep
  <2>2. UNCHANGED memberVars /\ \A d \in Chains \ {c} : chain'[d] = chain[d]
    BY <1>1, <2>1, JobMoves
  <2> QED
    BY <2>2 DEF memberVars, nodeVars, AdvanceReads, AdvanceFinishes, AdvanceFlips, AdvanceSeeks,
       AdvanceResets, AdvanceCreates, AdvanceApplies
<1>3. Onward /\ Kept' = Kept /\ Behind' = Behind
  <2>1. Kept' = Kept /\ Behind' = Behind
    BY <1>2 DEF Kept, Behind, Place
  <2> QED
    BY <1>1, <1>2, <2>1, BehindShrinks DEF Onward
<1>4. \A d \in Chains \ {c} : Carried(d)'
  BY <1>1, <1>2, <1>3, CarriedStays DEF Windows
<1>5. Carried(c)
  BY DEF Windows
<1>6. Carried(c)'
  <2>1. CASE AdvanceReads(c)
    <3>1. Reached(n) => Behind[n] \subseteq Done
      BY <1>1 DEF Windows
    <3>2. Reached(n)
      BY DEF IInv, Order
    <3>3. Behind[n + 1] \subseteq Behind[n] \cup Window(n)
      <4>1. /\ Behind[n + 1] = {m \in Kept : Place(m) < (n + 1) * WaveSize}
            /\ Behind[n] = {m \in Kept : Place(m) < n * WaveSize}
        BY <1>1, NextWave DEF Behind
      <4>2. \A m \in Kept : m \in members /\ Place(m) \in Nat
        <5> TAKE m \in Kept
        <5>1. {k \in members : k < m} \subseteq Slots
          BY <1>1 DEF TypeOK
        <5>2. IsFiniteSet({k \in members : k < m})
          BY <5>1, FS_Subset, ClusterRolloutAssumption
        <5> QED
          BY <5>2, FS_CardinalityType DEF Place, Kept
      <4>3. n * WaveSize \in Nat /\ (n + 1) * WaveSize \in Nat
        <5>1. n \in Nat /\ WaveSize \in Nat
          BY <1>1, WavesType, ClusterRolloutAssumption
        <5> HIDE DEF n
        <5> QED
          BY <5>1
      <4>4. \A m \in Kept : n * WaveSize <= Place(m) /\ Place(m) < (n + 1) * WaveSize
                            => m \in Window(n)
        BY <4>2 DEF Window
      <4>5. \A m \in Kept : Place(m) < n * WaveSize \/ n * WaveSize <= Place(m)
        BY <4>2, <4>3
      <4> QED
        BY <4>1, <4>4, <4>5
    <3>4. Window(n) = {} => Kept \subseteq Behind[n]
      BY <1>1, EmptyWindow, NextWave DEF Kept, Behind
    <3>5. \/ chain' = [chain EXCEPT ![c] = Free]
          \/ /\ chain' = [chain EXCEPT ![c].at = IF Window(n) = {} THEN "finish" ELSE "flip",
                                       ![c].batch = Window(n)]
      BY <2>1 DEF AdvanceReads, Stop
    <3>6. \/ chain'[c].at = "free"
          \/ chain'[c].at = "finish" /\ Window(n) = {}
          \/ chain'[c].at = "flip" /\ chain'[c].wave = n /\ chain'[c].batch = Window(n)
      BY <1>1, <3>5 DEF Chain, Free
    <3>7. Done' = Done
      BY <2>1 DEF AdvanceReads, nodeVars, Done
    <3> QED
      BY <1>3, <3>1, <3>2, <3>3, <3>4, <3>6, <3>7 DEF Carried
  <2>2. CASE AdvanceFinishes(c)
    BY <1>1, <2>2 DEF AdvanceFinishes, Stop, Free, Carried
  <2>3. CASE AdvanceFlips(c) \/ AdvanceSeeks(c) \/ AdvanceResets(c) \/ AdvanceCreates(c)
    <3>1. \/ chain'[c].at = "free"
          \/ /\ {chain[c].at, chain'[c].at} \subseteq {"flip", "seek", "reset", "create", "apply"}
             /\ chain'[c].wave = n /\ chain'[c].batch = chain[c].batch
      <4>1. CASE AdvanceFlips(c) \/ AdvanceSeeks(c)
        BY <4>1, <1>1 DEF AdvanceFlips, AdvanceSeeks, Go, Chain
      <4>2. CASE AdvanceResets(c) \/ AdvanceCreates(c)
        BY <4>2, <1>1 DEF AdvanceResets, AdvanceCreates, Go, Stop, Free, Chain
      <4> QED
        BY <2>3, <4>1, <4>2
    <3>2. Behind'[n + 1] = Behind[n + 1] /\ Done \subseteq Done'
      BY <1>2, <1>3 DEF Done
    <3> QED
      BY <1>5, <3>1, <3>2 DEF Carried
  <2>4. CASE AdvanceApplies(c)
    <3>1. /\ chain[c].at = "apply" /\ applied' = applied \cup chain[c].batch
          /\ chain'[c].at = "gate" /\ chain'[c].wave = n
      BY <2>4, <1>1 DEF AdvanceApplies, Enqueue
    <3> QED
      BY <1>3, <1>5, <3>1 DEF Carried, Done
  <2> QED
    BY <2>1, <2>2, <2>3, <2>4
<1>7. state' = "completed" => state = "completed" \/ Kept \subseteq Done
  BY <1>5 DEF Carried, AdvanceReads, AdvanceFinishes, AdvanceFlips, AdvanceSeeks, AdvanceResets,
     AdvanceCreates, AdvanceApplies, Logged, rolloutVars
<1>8. \A d \in Chains : Carried(d)'
  BY <1>4, <1>6
<1>9. CASE \A k \in Waves : wave'[k] # "none" => wave[k] # "none" /\ checked'[k] = checked[k]
  BY <1>2, <1>3, <1>7, <1>8, <1>9, WindowsStay
<1>10. CASE AdvanceCreates(c) /\ wave[n] = "none"
  <2>1. /\ chain[c].at = "create" /\ wave' = [wave EXCEPT ![n] = "running"]
        /\ checked' = [checked EXCEPT ![n] = chain[c].batch]
        /\ UNCHANGED <<state, applied>>
    BY <1>10 DEF AdvanceCreates, rolloutVars, nodeVars
  <2>2. Behind[n + 1] \subseteq chain[c].batch \cup Done
    BY <1>5, <2>1 DEF Carried
  <2>3. \A k \in Waves : wave'[k] # "none" => Behind'[k + 1] \subseteq vouched' \cup checked'[k]
    <3> TAKE k \in Waves
    <3>1. CASE k = n
      BY <1>1, <1>2, <1>3, <2>1, <2>2, <3>1 DEF Done
    <3>2. CASE k # n
      BY <1>1, <1>2, <1>3, <2>1, <3>2 DEF Windows
    <3> QED
      BY <3>1, <3>2
  <2>4. /\ \A k \in passed' : Reached(k)' 
        /\ \A k \in Waves : Reached(k)' => Behind'[k] \subseteq Done'
    BY <1>2, <1>3, <2>1 DEF Windows, Reached, Done
  <2>5. state' = "completed" => Kept' \subseteq Done'
    BY <1>2, <1>3, <2>1 DEF Windows, Done
  <2>6. Original \subseteq members' \cup gone'
    BY <1>3 DEF Onward
  <2> QED
    BY <1>8, <2>3, <2>4, <2>5, <2>6 DEF Windows
<1>11. CASE ~(AdvanceCreates(c) /\ wave[n] = "none")
  <2>1. ASSUME NEW k \in Waves, wave'[k] # "none"
        PROVE  wave[k] # "none" /\ checked'[k] = checked[k]
    <3>1. CASE AdvanceResets(c)
      BY <2>1, <3>1, <1>1 DEF AdvanceResets, Struck
    <3>2. CASE ~AdvanceResets(c)
      BY <2>1, <3>2, <1>11 DEF AdvanceReads, AdvanceFinishes, AdvanceFlips, AdvanceSeeks,
         AdvanceCreates, AdvanceApplies, waveVars
    <3> QED
      BY <3>1, <3>2
  <2> QED
    BY <1>9, <2>1
<1> QED
  BY <1>10, <1>11

\* A gate passes for the members of its row, and for those it was applied to.
LEMMA GateWindows ==
    ASSUME IInv, Struck, Windows, NEW c \in Chains,
           \/ GateReads(c) \/ GateChecks(c) \/ GateMarksHealthy(c) \/ GatePoints(c)
           \/ GateMarksUnhealthy(c) \/ GateHalts(c)
    PROVE  Windows'
<1> DEFINE n == chain[c].wave
<1>1. /\ TypeOK /\ chain \in [Chains -> Chain] /\ wave \in [Waves -> WaveStates \cup {"none"}]
      /\ n \in Waves
  BY DEF IInv, TypeOK, Chain
<1>2. /\ UNCHANGED <<members, gone, checked, applied>> /\ vouched \subseteq vouched'
      /\ \A d \in Chains \ {c} : chain'[d] = chain[d]
  <2>1. JobStep(c)
    BY DEF JobStep
  <2>2. UNCHANGED memberVars /\ \A d \in Chains \ {c} : chain'[d] = chain[d]
    BY <1>1, <2>1, JobMoves
  <2> QED
    BY <2>2 DEF memberVars, nodeVars, waveVars, GateReads, GateChecks, GateMarksHealthy,
       GatePoints, GateMarksUnhealthy, GateHalts
<1>3. Onward /\ Kept' = Kept /\ Behind' = Behind
  <2>1. Kept' = Kept /\ Behind' = Behind
    BY <1>2 DEF Kept, Behind, Place
  <2> QED
    BY <1>1, <1>2, <2>1, BehindShrinks DEF Onward
<1>4. \A d \in Chains \ {c} : Carried(d)'
  BY <1>1, <1>2, <1>3, CarriedStays DEF Windows
<1>5. Carried(c)
  BY DEF Windows
<1>6. Carried(c)'
  <2>1. \/ chain'[c].at \in {"free", "pass", "point", "advance", "fail", "halt"}
        \/ /\ chain[c].at \in {"gate", "check"} /\ chain'[c].at \in {"gate", "check"}
           /\ chain'[c].wave = n
    <3>1. CASE GateReads(c)
      BY <3>1, <1>1 DEF GateReads, Go, Stop, Free, Chain
    <3>2. CASE GateChecks(c)
      <4>1. /\ chain[c].at = "check"
            /\ \/ Stop(c) \/ Go(c, "pass") \/ Go(c, "fail")
               \/ Enqueue(c, "gate", n)
        BY <3>2 DEF GateChecks
      <4> QED
        BY <4>1, <1>1 DEF Go, Stop, Enqueue, Free, Chain
    <3>3. CASE GateMarksHealthy(c) \/ GateMarksUnhealthy(c)
      BY <3>3, <1>1 DEF GateMarksHealthy, GateMarksUnhealthy, Go, Chain
    <3>4. CASE GatePoints(c) \/ GateHalts(c)
      BY <3>4, <1>1 DEF GatePoints, GateHalts, Enqueue, Stop, Free, Chain
    <3> QED
      BY <3>1, <3>2, <3>3, <3>4
  <2> QED
    BY <2>1, <1>2, <1>3, <1>5 DEF Carried
<1>7. state' = "completed" => state = "completed"
  BY DEF GateReads, GateChecks, GateMarksHealthy, GatePoints, GateMarksUnhealthy, GateHalts,
     Logged, rolloutVars
<1>8. \A d \in Chains : Carried(d)'
  BY <1>4, <1>6
<1>9. \A k \in Waves : wave'[k] # "none" => wave[k] # "none"
  <2>1. CASE GateMarksHealthy(c) \/ GateMarksUnhealthy(c)
    <3>1. wave[n] # "none"
      BY <2>1 DEF Struck, GateMarksHealthy, GateMarksUnhealthy
    <3> QED
      BY <2>1, <3>1, <1>1 DEF GateMarksHealthy, GateMarksUnhealthy, Logged
  <2>2. CASE GateReads(c) \/ GateChecks(c) \/ GatePoints(c) \/ GateHalts(c)
    BY <2>2 DEF GateReads, GateChecks, GatePoints, GateHalts, waveVars
  <2> QED
    BY <2>1, <2>2
<1>10. CASE passed' = passed
  BY <1>2, <1>3, <1>7, <1>8, <1>9, <1>10, WindowsStay
<1>11. CASE passed' # passed
  <2>1. /\ passed' = passed \cup {n} /\ vouched' = vouched \cup checked[n]
        /\ chain[c].at = "check" /\ wave[n] = "running" /\ UNCHANGED <<state, wave, checked>>
    BY <1>11 DEF GateReads, GateChecks, GateMarksHealthy, GatePoints, GateMarksUnhealthy,
       GateHalts, rolloutVars, waveVars
  <2>2. Behind[n + 1] \subseteq Done'
    <3>1. Behind[n + 1] \subseteq vouched \cup checked[n]
      BY <1>1, <2>1 DEF Windows
    <3>2. Behind[n + 1] \subseteq applied
      BY <1>5, <2>1 DEF Carried
    <3> QED
      BY <3>1, <3>2, <2>1, <1>2 DEF Done
  <2>3. Done \subseteq Done'
    BY <1>2, <2>1 DEF Done
  <2>4. \A k \in passed' : Reached(k)'
    BY <2>1 DEF Windows, IInv, Order, Reached
  <2>5. ASSUME NEW k \in Waves, Reached(k)'
        PROVE  Behind'[k] \subseteq Done'
    <3>1. n \in Nat /\ k \in Nat /\ passed \subseteq Nat
      BY <1>1, WavesType DEF TypeOK
    <3> HIDE DEF n
    <3>2. CASE k = n + 1
      BY <3>2, <2>2, <1>3
    <3>3. CASE k # n + 1
      <4>1. Reached(k)
        <5>1. CASE k <= n
          BY <5>1, <3>1, <2>1, <2>5 DEF Reached
        <5>2. CASE n + 1 < k
          <6>1. n + 1 \in passed
            BY <5>2, <3>1, <2>1, <2>5 DEF Reached
          <6>2. n \in passed
            BY <6>1, <3>1 DEF Windows, Reached
          <6> QED
            BY <6>2, <2>1, <2>5 DEF Reached
        <5> QED
          BY <5>1, <5>2, <3>1, <3>3
      <4> QED
        BY <4>1, <2>3, <1>3 DEF Windows
    <3> QED
      BY <3>2, <3>3
  <2>6. \A k \in Waves : wave'[k] # "none" => Behind'[k + 1] \subseteq vouched' \cup checked'[k]
    BY <1>3, <2>1 DEF Windows
  <2>7. state' = "completed" => Kept' \subseteq Done'
    BY <1>3, <2>1, <2>3 DEF Windows
  <2>8. Original \subseteq members' \cup gone'
    BY <1>3 DEF Onward
  <2> QED
    BY <1>8, <2>4, <2>5, <2>6, <2>7, <2>8 DEF Windows
<1> QED
  BY <1>10, <1>11

\* So it is from the start.
LEMMA WindowsHold == Spec => [](Struck /\ Windows)
<1>1. Init => Struck /\ Windows
  <2> SUFFICES ASSUME Init
               PROVE  Struck /\ Windows
    OBVIOUS
  <2>1. Struck /\ \A c \in Chains : Carried(c)
    BY DEF Init, Struck, Carried, Free, Idle
  <2>2. ASSUME NEW n \in Waves, Reached(n)
        PROVE  Behind[n] = {}
    <3>1. n = 0
      BY <2>2, WavesType DEF Init, Reached
    <3>2. \A m \in Kept : Place(m) \in Nat
      <4> TAKE m \in Kept
      <4>1. {k \in members : k < m} \subseteq Slots
        BY ClusterRolloutAssumption DEF Init
      <4>2. IsFiniteSet({k \in members : k < m})
        BY <4>1, FS_Subset, ClusterRolloutAssumption
      <4> QED
        BY <4>2, FS_CardinalityType DEF Place
    <3>3. 0 * WaveSize = 0
      BY ClusterRolloutAssumption
    <3>4. \A m \in Kept : ~(Place(m) < 0 * WaveSize)
      BY <3>2, <3>3
    <3> QED
      BY <3>1, <3>4, NextWave DEF Behind
  <2> QED
    BY <2>1, <2>2 DEF Init, Windows
<1>2. IInv /\ Struck /\ Windows /\ [Next]_vars => (Struck /\ Windows)'
  <2> SUFFICES ASSUME IInv, Struck, Windows, [Next]_vars
               PROVE  Struck' /\ Windows'
    OBVIOUS
  <2>1. Struck'
    BY StruckStays DEF IInv
  <2>2. ASSUME NEW c \in Chains, JobStep(c)
        PROVE  Windows'
    BY <2>2, AdvanceWindows, GateWindows DEF JobStep
  <2> QED
    BY <2>1, <2>2, RequestWindows, WorldWindows DEF Next
<1> QED
  BY <1>1, <1>2, Invariance, PTL DEF Spec

\* A rollout of any size that completes has applied the template to every member of its
\* beginning that nobody before it has left, and a gate has passed for it.
THEOREM NoneOvertaken == Spec => []NoMemberOvertaken
<1>1. Windows => NoMemberOvertaken
  BY DEF Windows, NoMemberOvertaken, Kept, Done
<1> QED
  BY <1>1, WindowsHold, PTL
=============================================================================
