----------------------------- MODULE LifecycleProofs ----------------------------
(***************************************************************************)
(* Proofs about Lifecycle for any number of signals, errors and requests.   *)
(***************************************************************************)
EXTENDS Lifecycle, TLAPS

(* How far the boot is, and what it has connected and begun by then.        *)
BootOrder ==
  /\ boot \in {"namespace", "encryption", "scanner", "signatures", "createServer", "listen"} =>
       \A l \in Links : link[l] = "on"
  /\ boot = "up" => \A l \in Links : link[l] # "connecting"
  /\ boot # "up" => requests = 0 /\ \A x \in Signals : pc[x] = "idle"
  /\ pc["boot"] # "idle" => boot = "failed"

(* A service that is up loses a database only once it is drained.           *)
DrainedFirst == boot = "up" /\ (\E l \in Links : link[l] # "on") => ~ listening /\ requests = 0

(* An exit by what began it: a signal closes the server, drains it, and only *)
(* then disconnects; no exit but a signal's that found every database gone  *)
(* leaves with zero; and a flush that is not overdue waits for all its exit *)
(* captured and that is not sent.                                          *)
ExitInv(x) ==
  /\ x \in Errors => pc[x] \in {"idle", "flush", "overdue"}
  /\ pc[x] = "drain" => x \in Signals
  /\ x \in Signals /\ pc[x] # "idle" => ~ listening
  /\ pc[x] = "disconnect" => requests = 0
  /\ code[x] = "zero" => x \in Signals /\ pc[x] # "idle"
  /\ code[x] = "zero" /\ pc[x] \in {"flush", "overdue"} =>
       requests = 0 /\ \A l \in Links : link[l] = "off"
  /\ pc[x] = "flush" => \A e \in queue : e.exit = x => e \in awaited[x]

LifecycleInv ==
  /\ TypeOK
  /\ BootOrder
  /\ DrainedFirst
  /\ \A x \in Exits : ExitInv(x)
  /\ ZeroMeansAsked
  /\ NothingUnsent

-------------------------------------------------------------------------------
(* What is captured is an event of its exit.                                *)
LEMMA CaptureType ==
  ASSUME TypeOK, NEW x \in Exits, NEW what \in {"cause", "disconnect", "signatures"}, Capture(x, what)
  PROVE  queue' \subseteq Events
BY DEF TypeOK, Capture, Event, Events

LEMMA FlushType ==
  ASSUME TypeOK, NEW x \in Exits, NEW what \in {"cause", "disconnect"}, Flush(x, what)
  PROVE  /\ queue' \subseteq Events
         /\ awaited' \in [Exits -> SUBSET Events]
         /\ pc' \in [Exits -> Steps]
<1>1. queue' \subseteq Events
  BY CaptureType DEF Flush
<1>2. queue' = queue \cup {Event(x, what)}
  BY DEF Flush, Capture
<1>3. QED
  BY <1>1, <1>2 DEF TypeOK, Flush, Steps

-------------------------------------------------------------------------------
(* The boot.  Until it is up no signal is handled and no request is served:  *)
(* its links stand, as nothing that disconnects them is under way.         *)
LEMMA checkRequiredEnvKeeps ==
  ASSUME LifecycleInv, exit = "running", checkRequiredEnv
  PROVE  LifecycleInv'
<1>1. CASE boot' = "connect" /\ link' = [l \in Links |-> "connecting"] /\ UNCHANGED <<pc, queue, awaited>>
  <2> USE <1>1
  <2>1. TypeOK'
    BY DEF LifecycleInv, TypeOK, BootSteps, checkRequiredEnv
  <2>2. (BootOrder /\ DrainedFirst)'
    BY DEF LifecycleInv, BootOrder, checkRequiredEnv, DrainedFirst
  <2>3. (\A y \in Exits : ExitInv(y))'
    BY DEF LifecycleInv, BootOrder, ExitInv, checkRequiredEnv
  <2>4. (ZeroMeansAsked /\ NothingUnsent)'
    BY DEF checkRequiredEnv, ZeroMeansAsked, NothingUnsent
  <2>5. QED
    BY <2>1, <2>2, <2>3, <2>4 DEF LifecycleInv
<1>2. CASE boot' = "failed" /\ Flush("boot", "cause") /\ UNCHANGED link
  <2> USE <1>2
  <2>1. TypeOK'
    BY FlushType DEF LifecycleInv, TypeOK, BootSteps, Exits, checkRequiredEnv
  <2>2. (BootOrder /\ DrainedFirst)'
    BY LifecycleAssumption DEF LifecycleInv, BootOrder, checkRequiredEnv, Flush, DrainedFirst
  <2>3. (\A y \in Exits : ExitInv(y))'
    BY DEF LifecycleInv, TypeOK, BootOrder, ExitInv, checkRequiredEnv, Flush, Capture, Event
  <2>4. (ZeroMeansAsked /\ NothingUnsent)'
    BY DEF checkRequiredEnv, ZeroMeansAsked, NothingUnsent
  <2>5. QED
    BY <2>1, <2>2, <2>3, <2>4 DEF LifecycleInv
<1>3. QED
  BY <1>1, <1>2 DEF checkRequiredEnv

LEMMA BootStepKeeps ==
  ASSUME LifecycleInv, exit = "running", BootStep
  PROVE  LifecycleInv'
<1>1. TypeOK'
  BY DEF LifecycleInv, TypeOK, BootStep, After, BootSteps
<1>2. BootOrder'
  BY DEF LifecycleInv, BootOrder, BootStep, After
<1>3. DrainedFirst'
  BY DEF LifecycleInv, BootOrder, BootStep, After, DrainedFirst
<1>4. (\A y \in Exits : ExitInv(y))'
  BY DEF LifecycleInv, BootOrder, ExitInv, BootStep
<1>5. (ZeroMeansAsked /\ NothingUnsent)'
  BY DEF BootStep, ZeroMeansAsked, NothingUnsent
<1>6. QED
  BY <1>1, <1>2, <1>3, <1>4, <1>5 DEF LifecycleInv

LEMMA BootFailsKeeps ==
  ASSUME LifecycleInv, exit = "running", BootFails
  PROVE  LifecycleInv'
<1>1. TypeOK'
  BY CaptureType DEF LifecycleInv, TypeOK, BootSteps, Exits, After, BootFails, Steps
<1>2. BootOrder'
  BY LifecycleAssumption DEF LifecycleInv, BootOrder, BootFails, After
<1>3. DrainedFirst'
  BY DEF BootFails, DrainedFirst
<1>4. (\A y \in Exits : ExitInv(y))'
  BY LifecycleAssumption DEF LifecycleInv, BootOrder, ExitInv, BootFails, Capture, Event, After
<1>5. (ZeroMeansAsked /\ NothingUnsent)'
  BY DEF BootFails, ZeroMeansAsked, NothingUnsent
<1>6. QED
  BY <1>1, <1>2, <1>3, <1>4, <1>5 DEF LifecycleInv

LEMMA reportClamSignatureAgeKeeps ==
  ASSUME LifecycleInv, exit = "running", reportClamSignatureAge
  PROVE  LifecycleInv'
<1>1. TypeOK'
  BY CaptureType DEF LifecycleInv, TypeOK, BootSteps, Exits, reportClamSignatureAge
<1>2. BootOrder'
  BY DEF LifecycleInv, BootOrder, reportClamSignatureAge
<1>3. DrainedFirst'
  BY DEF reportClamSignatureAge, DrainedFirst
<1>4. (\A y \in Exits : ExitInv(y))'
  BY DEF LifecycleInv, BootOrder, ExitInv, reportClamSignatureAge, Capture, Event
<1>5. (ZeroMeansAsked /\ NothingUnsent)'
  BY DEF reportClamSignatureAge, ZeroMeansAsked, NothingUnsent
<1>6. QED
  BY <1>1, <1>2, <1>3, <1>4, <1>5 DEF LifecycleInv

LEMMA ListenKeeps ==
  ASSUME LifecycleInv, exit = "running", Listen
  PROVE  LifecycleInv'
<1>1. TypeOK'
  BY DEF LifecycleInv, TypeOK, BootOrder, Listen, BootSteps
<1>2. BootOrder'
  BY DEF LifecycleInv, BootOrder, Listen
<1>3. DrainedFirst'
  BY DEF LifecycleInv, BootOrder, Listen, DrainedFirst
<1>4. (\A y \in Exits : ExitInv(y))'
  BY DEF LifecycleInv, BootOrder, ExitInv, Listen
<1>5. (ZeroMeansAsked /\ NothingUnsent)'
  BY DEF Listen, ZeroMeansAsked, NothingUnsent
<1>6. QED
  BY <1>1, <1>2, <1>3, <1>4, <1>5 DEF LifecycleInv

LEMMA ConnectedKeeps ==
  ASSUME LifecycleInv, exit = "running", NEW l \in Links, Connected(l)
  PROVE  LifecycleInv'
<1>1. TypeOK'
  BY DEF LifecycleInv, TypeOK, Connected
<1>2. BootOrder'
  BY DEF LifecycleInv, BootOrder, Connected
<1>3. DrainedFirst'
  BY DEF LifecycleInv, Connected, DrainedFirst
<1>4. (\A y \in Exits : ExitInv(y))'
  BY DEF LifecycleInv, BootOrder, ExitInv, Connected
<1>5. (ZeroMeansAsked /\ NothingUnsent)'
  BY DEF Connected, ZeroMeansAsked, NothingUnsent
<1>6. QED
  BY <1>1, <1>2, <1>3, <1>4, <1>5 DEF LifecycleInv

-------------------------------------------------------------------------------
(* The requests, which end once nothing listens, and the events.            *)
LEMMA ArriveKeeps ==
  ASSUME LifecycleInv, exit = "running", Arrive
  PROVE  LifecycleInv'
<1>1. TypeOK'
  BY LifecycleAssumption DEF LifecycleInv, TypeOK, Arrive
<1>2. BootOrder'
  BY DEF LifecycleInv, TypeOK, BootOrder, Arrive
<1>3. DrainedFirst'
  BY DEF LifecycleInv, Arrive, DrainedFirst
<1>4. (\A y \in Exits : ExitInv(y))'
  BY DEF LifecycleInv, TypeOK, BootOrder, ExitInv, Exits, Arrive
<1>5. (ZeroMeansAsked /\ NothingUnsent)'
  BY DEF Arrive, ZeroMeansAsked, NothingUnsent
<1>6. QED
  BY <1>1, <1>2, <1>3, <1>4, <1>5 DEF LifecycleInv

LEMMA AnsweredKeeps ==
  ASSUME LifecycleInv, exit = "running", Answered
  PROVE  LifecycleInv'
<1>1. TypeOK'
  BY LifecycleAssumption DEF LifecycleInv, TypeOK, Answered
<1>2. BootOrder'
  BY DEF LifecycleInv, BootOrder, Answered
<1>3. DrainedFirst'
  BY DEF LifecycleInv, Answered, DrainedFirst
<1>4. (\A y \in Exits : ExitInv(y))'
  BY DEF LifecycleInv, ExitInv, Answered
<1>5. (ZeroMeansAsked /\ NothingUnsent)'
  BY DEF Answered, ZeroMeansAsked, NothingUnsent
<1>6. QED
  BY <1>1, <1>2, <1>3, <1>4, <1>5 DEF LifecycleInv

LEMMA SentKeeps ==
  ASSUME LifecycleInv, exit = "running", NEW e \in queue, Sent(e)
  PROVE  LifecycleInv'
<1>1. TypeOK'
  BY DEF LifecycleInv, TypeOK, Sent
<1>2. BootOrder'
  BY DEF LifecycleInv, BootOrder, Sent
<1>3. DrainedFirst'
  BY DEF LifecycleInv, Sent, DrainedFirst
<1>4. (\A y \in Exits : ExitInv(y))'
  BY DEF LifecycleInv, TypeOK, BootOrder, ExitInv, Sent
<1>5. (ZeroMeansAsked /\ NothingUnsent)'
  BY DEF Sent, ZeroMeansAsked, NothingUnsent
<1>6. QED
  BY <1>1, <1>2, <1>3, <1>4, <1>5 DEF LifecycleInv

-------------------------------------------------------------------------------
(* The exits.  A flush waits for all its exit captured, as an exit captures   *)
(* nothing more once it flushes.                                           *)
LEMMA onUncaughtExceptionKeeps ==
  ASSUME LifecycleInv, exit = "running", NEW x \in Exits, onUncaughtException(x)
  PROVE  LifecycleInv'
<1>1. TypeOK'
  BY FlushType DEF LifecycleInv, TypeOK, onUncaughtException
<1>2. BootOrder'
  BY LifecycleAssumption DEF LifecycleInv, BootOrder, onUncaughtException, Flush
<1>3. DrainedFirst'
  BY DEF LifecycleInv, onUncaughtException, DrainedFirst
<1>4. (\A y \in Exits : ExitInv(y))'
  BY LifecycleAssumption DEF LifecycleInv, TypeOK, ExitInv, onUncaughtException, Flush, Capture,
     Event
<1>5. (ZeroMeansAsked /\ NothingUnsent)'
  BY DEF onUncaughtException, ZeroMeansAsked, NothingUnsent
<1>6. QED
  BY <1>1, <1>2, <1>3, <1>4, <1>5 DEF LifecycleInv

LEMMA KilledKeeps ==
  ASSUME LifecycleInv, exit = "running", NEW x \in Exits, Killed(x)
  PROVE  LifecycleInv'
<1>1. TypeOK'
  BY DEF LifecycleInv, TypeOK, Killed
<1>2. BootOrder'
  BY DEF LifecycleInv, BootOrder, Killed
<1>3. DrainedFirst'
  BY DEF Killed, DrainedFirst
<1>4. (\A y \in Exits : ExitInv(y))'
  BY DEF LifecycleInv, TypeOK, ExitInv, Killed
<1>5. (ZeroMeansAsked /\ NothingUnsent)'
  BY DEF Killed, ZeroMeansAsked, NothingUnsent
<1>6. QED
  BY <1>1, <1>2, <1>3, <1>4, <1>5 DEF LifecycleInv

LEMMA gracefulShutdownKeeps ==
  ASSUME LifecycleInv, exit = "running", NEW x \in Exits, gracefulShutdown(x)
  PROVE  LifecycleInv'
<1>1. TypeOK'
  BY CaptureType, LifecycleAssumption DEF LifecycleInv, TypeOK, BootSteps, Exits, After,
     gracefulShutdown, Steps
<1>2. BootOrder'
  BY LifecycleAssumption DEF LifecycleInv, BootOrder, gracefulShutdown
<1>3. DrainedFirst'
  BY DEF LifecycleInv, gracefulShutdown, DrainedFirst
<1>4. (\A y \in Exits : ExitInv(y))'
  BY LifecycleAssumption DEF LifecycleInv, TypeOK, ExitInv, gracefulShutdown, Capture, Event
<1>5. (ZeroMeansAsked /\ NothingUnsent)'
  BY DEF gracefulShutdown, ZeroMeansAsked, NothingUnsent
<1>6. QED
  BY <1>1, <1>2, <1>3, <1>4, <1>5 DEF LifecycleInv

LEMMA DrainedKeeps ==
  ASSUME LifecycleInv, exit = "running", NEW x \in Exits, Drained(x)
  PROVE  LifecycleInv'
<1>1. TypeOK'
  BY DEF LifecycleInv, TypeOK, Drained, Steps
<1>2. BootOrder'
  BY DEF LifecycleInv, BootOrder, Drained
<1>3. DrainedFirst'
  BY DEF LifecycleInv, Drained, DrainedFirst
<1>4. (\A y \in Exits : ExitInv(y))'
  BY DEF LifecycleInv, ExitInv, Drained
<1>5. (ZeroMeansAsked /\ NothingUnsent)'
  BY DEF Drained, ZeroMeansAsked, NothingUnsent
<1>6. QED
  BY <1>1, <1>2, <1>3, <1>4, <1>5 DEF LifecycleInv

(* A signal keeps its zero only when it finds every link off; no link comes  *)
(* back once the boot is up.                                               *)
LEMMA disconnectAllDatabasesKeeps ==
  ASSUME LifecycleInv, exit = "running", NEW x \in Exits, disconnectAllDatabases(x)
  PROVE  LifecycleInv'
<1>1. TypeOK'
  BY FlushType, LifecycleAssumption DEF LifecycleInv, TypeOK, BootSteps, Exits, After,
     disconnectAllDatabases
<1>2. BootOrder'
  BY DEF LifecycleInv, BootOrder, disconnectAllDatabases, Flush
<1>3. DrainedFirst'
  BY DEF LifecycleInv, disconnectAllDatabases, DrainedFirst
<1>4. (\A y \in Exits : ExitInv(y))'
  BY DEF LifecycleInv, TypeOK, ExitInv, disconnectAllDatabases, Flush, Capture, Event
<1>5. (ZeroMeansAsked /\ NothingUnsent)'
  BY DEF disconnectAllDatabases, ZeroMeansAsked, NothingUnsent
<1>6. QED
  BY <1>1, <1>2, <1>3, <1>4, <1>5 DEF LifecycleInv

LEMMA FlushOverdueKeeps ==
  ASSUME LifecycleInv, exit = "running", NEW x \in Exits, FlushOverdue(x)
  PROVE  LifecycleInv'
<1>1. TypeOK'
  BY DEF LifecycleInv, TypeOK, FlushOverdue, Steps
<1>2. BootOrder'
  BY LifecycleAssumption DEF LifecycleInv, TypeOK, BootOrder, Exits, FlushOverdue
<1>3. DrainedFirst'
  BY DEF LifecycleInv, FlushOverdue, DrainedFirst
<1>4. (\A y \in Exits : ExitInv(y))'
  BY DEF LifecycleInv, TypeOK, ExitInv, FlushOverdue
<1>5. (ZeroMeansAsked /\ NothingUnsent)'
  BY DEF FlushOverdue, ZeroMeansAsked, NothingUnsent
<1>6. QED
  BY <1>1, <1>2, <1>3, <1>4, <1>5 DEF LifecycleInv

LEMMA processExitKeeps ==
  ASSUME LifecycleInv, exit = "running", NEW x \in Exits, processExit(x)
  PROVE  LifecycleInv'
<1>1. TypeOK'
  BY DEF LifecycleInv, TypeOK, processExit
<1>2. BootOrder'
  BY DEF LifecycleInv, BootOrder, processExit
<1>3. DrainedFirst'
  BY DEF LifecycleInv, processExit, DrainedFirst
<1>4. (\A y \in Exits : ExitInv(y))'
  BY DEF LifecycleInv, TypeOK, ExitInv, processExit
<1>5. (ZeroMeansAsked /\ NothingUnsent)'
  BY DEF LifecycleInv, BootOrder, ExitInv, processExit, ZeroMeansAsked, NothingUnsent
<1>6. QED
  BY <1>1, <1>2, <1>3, <1>4, <1>5 DEF LifecycleInv

LEMMA StopFailsKeeps ==
  ASSUME LifecycleInv, exit = "running", NEW x \in Exits, StopFails(x)
  PROVE  LifecycleInv'
<1>1. TypeOK'
  BY FlushType DEF LifecycleInv, TypeOK, StopFails
<1>2. BootOrder'
  BY DEF LifecycleInv, BootOrder, StopFails, Flush
<1>3. DrainedFirst'
  BY DEF LifecycleInv, StopFails, DrainedFirst
<1>4. (\A y \in Exits : ExitInv(y))'
  BY DEF LifecycleInv, TypeOK, ExitInv, StopFails, Flush, Capture, Event
<1>5. (ZeroMeansAsked /\ NothingUnsent)'
  BY DEF StopFails, ZeroMeansAsked, NothingUnsent
<1>6. QED
  BY <1>1, <1>2, <1>3, <1>4, <1>5 DEF LifecycleInv

LEMMA DisconnectedKeeps ==
  ASSUME LifecycleInv, exit = "running", NEW x \in Exits, NEW l \in Links, Disconnected(x, l)
  PROVE  LifecycleInv'
<1>1. TypeOK'
  BY DEF LifecycleInv, TypeOK, BootOrder, ExitInv, Exits, Disconnected
<1>2. BootOrder'
  BY DEF LifecycleInv, BootOrder, ExitInv, Exits, Disconnected
<1>3. DrainedFirst'
  BY DEF LifecycleInv, BootOrder, ExitInv, Exits, Disconnected, DrainedFirst
<1>4. (\A y \in Exits : ExitInv(y))'
  BY DEF LifecycleInv, TypeOK, ExitInv, Disconnected
<1>5. (ZeroMeansAsked /\ NothingUnsent)'
  BY DEF Disconnected, ZeroMeansAsked, NothingUnsent
<1>6. QED
  BY <1>1, <1>2, <1>3, <1>4, <1>5 DEF LifecycleInv

-------------------------------------------------------------------------------
LEMMA InitEstablishes ==
  ASSUME Init
  PROVE  LifecycleInv
<1>1. TypeOK
  <2>1. /\ boot \in BootSteps /\ requests \in 0 .. MaxRequests
        /\ link \in [Links -> {"off", "connecting", "on"}] /\ ~ listening
    BY LifecycleAssumption DEF Init, BootSteps
  <2>2. /\ pc \in [Exits -> Steps]
        /\ code \in [Exits -> {"zero", "one"}] /\ awaited \in [Exits -> SUBSET Events]
    BY DEF Init, Steps
  <2>3. QED
    BY <2>1, <2>2 DEF Init, TypeOK
<1>2. BootOrder /\ DrainedFirst /\ (\A x \in Exits : ExitInv(x)) /\ ZeroMeansAsked /\ NothingUnsent
  BY DEF Init, BootOrder, DrainedFirst, ExitInv, Exits, ZeroMeansAsked, NothingUnsent
<1>3. QED
  BY <1>1, <1>2 DEF LifecycleInv

LEMMA StutterKeeps ==
  ASSUME LifecycleInv, UNCHANGED vars
  PROVE  LifecycleInv'
BY DEF vars, LifecycleInv, TypeOK, BootOrder, DrainedFirst, ExitInv, ZeroMeansAsked, NothingUnsent

LEMMA StepKeeps ==
  ASSUME LifecycleInv, [Next]_vars
  PROVE  LifecycleInv'
<1>1. ASSUME exit = "running", Boot
      PROVE  LifecycleInv'
  BY <1>1, checkRequiredEnvKeeps, BootStepKeeps, BootFailsKeeps, reportClamSignatureAgeKeeps,
     ListenKeeps DEF Boot
<1>2. ASSUME exit = "running", NEW x \in Exits, Leave(x)
      PROVE  LifecycleInv'
  BY <1>2, DrainedKeeps, disconnectAllDatabasesKeeps, FlushOverdueKeeps, processExitKeeps DEF Leave
<1>3. QED
  BY <1>1, <1>2, ConnectedKeeps, ArriveKeeps, AnsweredKeeps, SentKeeps, onUncaughtExceptionKeeps,
     KilledKeeps, gracefulShutdownKeeps, StopFailsKeeps, DisconnectedKeeps, StutterKeeps DEF Next

(* The inductive invariant, of every behaviour, fair or not.                *)
THEOREM LifecycleInvariance == Spec => []LifecycleInv
<1>1. Init => LifecycleInv
  BY InitEstablishes
<1>2. LifecycleInv /\ [Next]_vars => LifecycleInv'
  BY StepKeeps
<1>3. QED
  BY <1>1, <1>2, PTL DEF Spec

(* TypeOK: shapes, and a server that listens only when the boot is done and  *)
(* both databases are there.                                               *)
THEOREM LifecycleTypes == Spec => []TypeOK
<1>1. LifecycleInv => TypeOK
  BY DEF LifecycleInv
<1>2. QED
  BY <1>1, LifecycleInvariance, PTL

(* Requests are drained before a database is told to disconnect, however    *)
(* many signals ask for it.                                                *)
THEOREM NoRequestLosesItsDatabase == Spec => []DatabasesOutliveRequests
<1>1. LifecycleInv => DatabasesOutliveRequests
  BY DEF LifecycleInv, BootOrder, DrainedFirst, DatabasesOutliveRequests
<1>2. QED
  BY <1>1, LifecycleInvariance, PTL

(* Success is reported only after a stop that was asked for and let go of    *)
(* everything.                                                             *)
THEOREM SuccessMeansAsked == Spec => []ZeroMeansAsked
<1>1. LifecycleInv => ZeroMeansAsked
  BY DEF LifecycleInv
<1>2. QED
  BY <1>1, LifecycleInvariance, PTL

(* The exit that leaves has sent what it captured unless Sentry took longer   *)
(* than its flush waits, any number of other exits being on their way.      *)
THEOREM LastWordsAreSent == Spec => []NothingUnsent
<1>1. LifecycleInv => NothingUnsent
  BY DEF LifecycleInv
<1>2. QED
  BY <1>1, LifecycleInvariance, PTL
===============================================================================
