-------------------------- MODULE LifecycleProofs --------------------------
(***************************************************************************)
(* Proofs about Lifecycle for every finite set of sections.  The point of  *)
(* LifeInv: the devices supervise saw as silent and those that never were  *)
(* silent stay apart, because a device is only ever added to the table     *)
(* once, and by one thread at a time.                                      *)
(***************************************************************************)
EXTENDS Lifecycle, FiniteSetTheorems, TLAPS

(* What a thread still has to register is not registered.                  *)
TodoIsMissing == /\ main.todo \cap devices = {}
                 /\ late.todo \cap devices = {}

(* Late discovery starts when main has finished registering.               *)
OneRegistrar == /\ main.pc \in {"discover", "register", "adding"} => late.pc = "unborn"
                /\ main.pc = "discover" => devices = {}
                /\ main.pc \notin {"register", "adding"} => main.todo = {}
                /\ late.pc \in {"unborn", "wait"} => late.todo = {}

LifeInv == /\ TypeOK
           /\ TodoIsMissing
           /\ OneRegistrar
           /\ snapshot \cap healthy = {}
           /\ main.pc = "stopping" => code # None
           /\ ReturnEndsThreads

(* Which sections a registration step may be about: none that is already   *)
(* in the table.                                                           *)
LEMMA SetUpNew ==
    ASSUME LifeInv, NEW s \in Sections \ Broken, s \notin devices, SetUp(s)
    PROVE  /\ devices' \subseteq Sections \ Broken
           /\ expected' = devices'
           /\ adding' \subseteq Sections
           /\ adding' \cup tasks = devices' /\ adding' \cap tasks = {}
           /\ stale \subseteq expected' /\ snapshot \subseteq expected'
           /\ healthy' \subseteq expected' \ stale
           /\ snapshot \cap healthy' = {}
  BY DEF SetUp, LifeInv, TypeOK

LEMMA InitLifeInv == Init => LifeInv
<1> SUFFICES ASSUME Init PROVE LifeInv
  OBVIOUS
<1>1. main \in [pc : MainPcs, todo : SUBSET Sections, sec : Sections \cup {None}]
  BY DEF Init, At, With, MainPcs
<1>2. late \in [pc : LatePcs, todo : SUBSET Sections, sec : Sections \cup {None}]
  BY DEF Init, At, With, LatePcs
<1>3. signals \in 0 .. MaxSignals
  BY LifecycleAssumption DEF Init
<1>4. TypeOK
  BY <1>1, <1>2, <1>3 DEF Init, TypeOK
<1>5. /\ main.pc = "discover" /\ main.todo = {}
      /\ late.pc = "unborn" /\ late.todo = {}
  BY DEF Init, At, With
<1> QED
  BY <1>4, <1>5 DEF Init, LifeInv, TodoIsMissing, OneRegistrar, ReturnEndsThreads

LEMMA NextLifeInv == LifeInv /\ [Next]_vars => LifeInv'
<1> SUFFICES ASSUME LifeInv, [Next]_vars PROVE LifeInv'
  OBVIOUS
<1> USE LifecycleAssumption DEF LifeInv, TodoIsMissing, OneRegistrar, ReturnEndsThreads, At, With
<1>1. CASE MainDiscovers
  BY <1>1 DEF MainDiscovers, TypeOK, MainPcs, registry
<1>2. CASE MainRegistered
  BY <1>2 DEF MainRegistered, TypeOK, MainPcs, registry
<1>3. CASE GiveUp
  BY <1>3 DEF GiveUp, TypeOK, MainPcs, registry
<1>4. CASE StartThreads
  <2>1. main' \in [pc : MainPcs, todo : SUBSET Sections, sec : Sections \cup {None}]
    BY <1>4 DEF StartThreads, MainPcs
  <2>2. late' \in [pc : LatePcs, todo : SUBSET Sections, sec : Sections \cup {None}]
    BY <1>4 DEF StartThreads, LatePcs
  <2>3. TypeOK'
    BY <1>4, <2>1, <2>2 DEF StartThreads, TypeOK, registry
  <2> QED
    BY <1>4, <2>3 DEF StartThreads, registry
<1>5. CASE SuperviseWakes
  BY <1>5 DEF SuperviseWakes, TypeOK, MainPcs, registry
<1>6. CASE SuperviseChecksLogger
  BY <1>6 DEF SuperviseChecksLogger, TypeOK, MainPcs, registry
<1>7. CASE SuperviseScans
  BY <1>7 DEF SuperviseScans, TypeOK, MainPcs, registry
<1>8. CASE SuperviseCounts
  BY <1>8 DEF SuperviseCounts, TypeOK, MainPcs, registry
<1>9. CASE Stops
  BY <1>9 DEF Stops, TypeOK, MainPcs, registry
<1>10. ASSUME NEW s \in Sections, MainRegisters(s) PROVE LifeInv'
  <2>1. s \notin devices /\ late.pc = "unborn" /\ late.todo = {}
    BY <1>10 DEF MainRegisters
  <2>2. CASE s \notin Broken
    <3>1. SetUp(s) /\ main' = With("adding", main.todo \ {s}, s)
      BY <1>10, <2>2 DEF MainRegisters
    <3>2. main' \in [pc : MainPcs, todo : SUBSET Sections, sec : Sections \cup {None}]
      BY <3>1, <1>10 DEF TypeOK, MainPcs
    <3>3. UNCHANGED <<late, visible, tasks, stale, snapshot, stop_event, logger, loop, code,
                      signals>>
      BY <1>10 DEF MainRegisters
    <3>4. TypeOK' /\ (snapshot \cap healthy = {})'
      <4> HIDE DEF With
      <4> QED  BY <2>1, <2>2, <3>1, <3>2, <3>3, SetUpNew DEF TypeOK
    <3>5. devices' = devices \cup {s} /\ main'.pc = "adding" /\ main'.todo = main.todo \ {s}
      BY <3>1 DEF SetUp
    <3> QED
      BY <2>1, <3>3, <3>4, <3>5
  <2>3. CASE s \in Broken
    <3>1. /\ Skip /\ main' = With("register", main.todo \ {s}, None)
          /\ UNCHANGED <<late, visible, tasks, stale, snapshot, stop_event, logger, loop,
                         code, signals>>
      BY <1>10, <2>3 DEF MainRegisters
    <3>2. main' \in [pc : MainPcs, todo : SUBSET Sections, sec : Sections \cup {None}]
      BY <3>1 DEF TypeOK, MainPcs
    <3>3. TypeOK'
      <4> HIDE DEF With
      <4> QED  BY <3>1, <3>2 DEF Skip, TypeOK
    <3> QED
      BY <2>1, <3>1, <3>3 DEF Skip
  <2> QED
    BY <2>2, <2>3
<1>11. CASE LateWakes
  BY <1>11 DEF LateWakes, Missing, TypeOK, LatePcs, registry
<1>12. CASE LateScanFails
  BY <1>12 DEF LateScanFails, Missing, TypeOK, LatePcs, registry
<1>13. CASE LateScanFinds
  BY <1>13 DEF LateScanFinds, Missing, TypeOK, LatePcs, registry
<1>14. CASE LateRoundEnds
  BY <1>14 DEF LateRoundEnds, Missing, TypeOK, LatePcs, registry
<1>15. CASE LateRegistered
  BY <1>15 DEF LateRegistered, Missing, TypeOK, LatePcs, registry
<1>16. ASSUME NEW s \in Sections, LateRegisters(s) PROVE LifeInv'
  <2>1. /\ s \notin devices /\ s \in Sections
        /\ main.pc \notin {"discover", "register", "adding"}
        /\ main' \in {main, At("overtaken")}
    BY <1>16 DEF LateRegisters
  <2>2. /\ main' \in [pc : MainPcs, todo : SUBSET Sections, sec : Sections \cup {None}]
        /\ main'.todo \in {main.todo, {}} /\ main'.pc \in {main.pc, "overtaken"}
    BY <2>1 DEF TypeOK, MainPcs
  <2>3. UNCHANGED <<visible, tasks, stale, snapshot, stop_event, logger, loop, code, signals>>
    BY <1>16 DEF LateRegisters
  <2>4. main.todo = {}
    BY <2>1
  <2>5. CASE s \notin Broken
    <3>1. SetUp(s) /\ late' = With("adding", late.todo \ {s}, s)
      BY <1>16, <2>5 DEF LateRegisters
    <3>2. late' \in [pc : LatePcs, todo : SUBSET Sections, sec : Sections \cup {None}]
      BY <3>1, <1>16 DEF TypeOK, LatePcs
    <3>3. TypeOK' /\ (snapshot \cap healthy = {})'
      <4> HIDE DEF With, At
      <4> QED  BY <2>1, <2>2, <2>3, <2>5, <3>1, <3>2, SetUpNew DEF TypeOK
    <3>4. devices' = devices \cup {s} /\ late'.pc = "adding" /\ late'.todo = late.todo \ {s}
      BY <3>1 DEF SetUp
    <3> QED
      <4> HIDE DEF With, At
      <4> QED  BY <2>1, <2>2, <2>3, <2>4, <3>3, <3>4
  <2>6. CASE s \in Broken
    <3>1. /\ Skip /\ UNCHANGED main
          /\ late' = With("register", late.todo \ {s}, None)
      BY <1>16, <2>6 DEF LateRegisters
    <3>2. late' \in [pc : LatePcs, todo : SUBSET Sections, sec : Sections \cup {None}]
      BY <3>1 DEF TypeOK, LatePcs
    <3>3. TypeOK'
      <4> HIDE DEF With, At
      <4> QED  BY <2>2, <2>3, <3>1, <3>2 DEF Skip, TypeOK
    <3>4. late'.pc = "register" /\ late'.todo = late.todo \ {s}
      BY <3>1
    <3> QED
      <4> HIDE DEF With, At
      <4> QED  BY <2>1, <2>2, <2>3, <3>1, <3>3, <3>4 DEF Skip
  <2> QED
    BY <2>5, <2>6
<1>17. ASSUME NEW s \in Sections, AddRuns(s) PROVE LifeInv'
  BY <1>17 DEF AddRuns, TypeOK, registry
<1>18. ASSUME NEW s \in Sections, Records(s) PROVE LifeInv'
  BY <1>18 DEF Records, TypeOK, registry
<1>19. ASSUME NEW s \in Sections, GoesStale(s) PROVE LifeInv'
  BY <1>19 DEF GoesStale, TypeOK, registry
<1>20. ASSUME NEW s \in Sections, Appears(s) PROVE LifeInv'
  BY <1>20 DEF Appears, TypeOK, registry
<1>21. CASE LoggerEnds
  BY <1>21 DEF LoggerEnds, TypeOK, MainPcs, registry
<1>22. CASE Signal
  <2>0. signals' \in 0 .. MaxSignals
    BY <1>22 DEF Signal, TypeOK
  <2>1. stop_event' \in BOOLEAN /\ (stop_event => stop_event')
    <3>1. stop_event \in BOOLEAN
      BY DEF TypeOK
    <3>2. stop_event' = TRUE \/ stop_event' = stop_event
      BY <1>22, Zenon DEF Signal
    <3> QED
      BY <3>1, <3>2, Zenon
  <2>2. main' = main \/ main' = At("blocked")
    BY <1>22 DEF Signal
  <2>3. /\ main' \in [pc : MainPcs, todo : SUBSET Sections, sec : Sections \cup {None}]
        /\ main' = main \/ (main'.pc = "blocked" /\ main'.todo = {})
    BY <2>2 DEF TypeOK, MainPcs
  <2>4. UNCHANGED <<late, visible, registry, stale, snapshot, logger, loop, code, healthy>>
    BY <1>22 DEF Signal
  <2> HIDE DEF At
  <2>5. TypeOK'
    BY <2>0, <2>1, <2>3, <2>4 DEF TypeOK, registry
  <2>6. TodoIsMissing' /\ OneRegistrar'
    BY <2>3, <2>4 DEF registry
  <2>7. (snapshot \cap healthy = {})' /\ (main.pc = "stopping" => code # None)'
    BY <2>3, <2>4
  <2>8. ReturnEndsThreads'
    <3>1. main'.pc = "returned" => main.pc = "returned"
      BY <2>3
    <3>2. main'.pc = "returned" => stop_event /\ ~loop /\ code # None
      BY <3>1, Zenon
    <3>3. loop' = loop /\ code' = code
      BY <2>4
    <3> QED
      BY <2>1, <3>2, <3>3, Zenon
  <2> QED
    BY <2>5, <2>6, <2>7, <2>8
<1>23. CASE UNCHANGED vars
  BY <1>23 DEF vars, TypeOK, registry
<1> QED
  BY <1>1, <1>2, <1>3, <1>4, <1>5, <1>6, <1>7, <1>8, <1>9, <1>10, <1>11, <1>12, <1>13, <1>14, <1>15, <1>16, <1>17, <1>18, <1>19, <1>20, <1>21, <1>22, <1>23 DEF Next, Main, Late, Gone

(* Whatever main, late discovery and the loop do, in whatever order: a     *)
(* device is expected exactly if it is registered, and has a task or is    *)
(* about to be given one.                                                  *)
THEOREM LifecycleTypeCorrect == Spec => []TypeOK
<1>1. LifeInv => TypeOK
  BY DEF LifeInv
<1> QED
  BY InitLifeInv, NextLifeInv, <1>1, PTL DEF Spec

(* When main returns, the threads the process would wait for have been     *)
(* told to end.                                                            *)
THEOREM ReturnIsClean == Spec => []ReturnEndsThreads
<1>1. LifeInv => ReturnEndsThreads
  BY DEF LifeInv
<1> QED
  BY InitLifeInv, NextLifeInv, <1>1, PTL DEF Spec

(* supervise compares two numbers taken at different times; when they are  *)
(* equal, the silent devices are all the devices.                          *)
LEMMA CountIsEnough ==
    ASSUME LifeInv, AllStale(snapshot)
    PROVE  snapshot = expected
  BY LifecycleAssumption, FS_Subset, FS_CardinalityType, FS_Subset DEF LifeInv, TypeOK, AllStale

(* No restart because of silence while one device has always been on time. *)
THEOREM NoNeedlessRestart == Spec => NoRestartWhileHealthy
<1>1. ASSUME LifeInv, [Next]_vars, main.pc = "count", main'.pc = "stopping"
      PROVE  healthy = {}
  <2>1. AllStale(snapshot)
    <3> USE <1>1 DEF At, With
    <3>1. CASE Main
      BY <3>1 DEF Main, MainDiscovers, MainRegisters, MainRegistered, GiveUp, StartThreads,
                  SuperviseWakes, SuperviseChecksLogger, SuperviseScans, SuperviseCounts,
                  Stops
    <3>2. CASE Late
      BY <3>2 DEF Late, LateWakes, LateScanFails, LateScanFinds, LateRegisters,
                  LateRoundEnds, LateRegistered
    <3>3. ASSUME NEW s \in Sections, AddRuns(s) \/ Records(s) \/ GoesStale(s) \/ Appears(s)
          PROVE  AllStale(snapshot)
      BY <3>3 DEF AddRuns, Records, GoesStale, Appears
    <3>4. CASE LoggerEnds \/ Signal \/ Gone \/ UNCHANGED vars
      BY <3>4 DEF LoggerEnds, Signal, Gone, vars
    <3> QED
      BY <3>1, <3>2, <3>3, <3>4 DEF Next
  <2>2. snapshot = expected
    BY <1>1, <2>1, CountIsEnough
  <2> QED
    BY <1>1, <2>2 DEF LifeInv, TypeOK
<1>2. LifeInv /\ [Next]_vars
        => [main.pc = "count" /\ main'.pc = "stopping" => healthy = {}]_vars
  BY <1>1
<1> QED
  BY InitLifeInv, NextLifeInv, <1>2, PTL DEF Spec, NoRestartWhileHealthy
=============================================================================
