------------------------ MODULE ServiceSupervisorProofs ------------------------
(* Theorems of ServiceSupervisor, for every number of calls and instances   *)
(* and every activation and restart policy; the last part shows that it     *)
(* implements InvocationContract.                                           *)
EXTENDS ServiceSupervisor, FiniteSetTheorems, TLAPS

(* 0 is the absence of an instance, the others are instances.               *)
LEMMA InstanceOrNone ==
  /\ \A k \in 0 .. MaxInstances : k # 0 => k \in Instances
  /\ \A k \in Instances : k \in 0 .. MaxInstances /\ k # 0
  /\ \A k \in 0 .. MaxInstances : k < MaxInstances =>
         k + 1 \in Instances /\ k + 1 \in 0 .. MaxInstances
  BY BoundsAssumption DEF Instances

(* Initially every variable has its type.                                   *)
LEMMA TypeInit == Init => TypeOK
  <1> SUFFICES ASSUME Init PROVE TypeOK
    OBVIOUS
  <1> USE DEF Init
  <1>1. /\ state \in {"Stopped", "Starting", "Running", "Failed"}
        /\ outgoing \in 0 .. MaxInstances /\ childPid \in 0 .. MaxInstances
        /\ spInst \in 0 .. MaxInstances
        /\ provides \in {None} \union SUBSET Approved
    BY BoundsAssumption
  <1>2. /\ pendingInit \subseteq Instances /\ pendingResp \subseteq Calls
        /\ pendingInv \in Seq(Calls)
    OBVIOUS
  <1>3. /\ fwdStop \in BOOLEAN
        /\ fwdHandles \subseteq Instances /\ forwarders \subseteq Instances
    OBVIOUS
  <1>4. /\ child \in [Instances -> {"unborn", "alive", "clean", "crashed"}]
        /\ declared \in [Instances -> SUBSET Approved]
        /\ asked \subseteq Instances /\ ready \subseteq Instances
        /\ sent \in [Instances -> SUBSET Calls]
    OBVIOUS
  <1>5. /\ pc \in [Calls -> CallPcs]
        /\ dispatch \in [Calls -> DispatchPcs]
        /\ reply \in [Calls -> Outcomes \union {None}]
        /\ response \in [Calls -> {None, "answered", "service_unavailable"}]
        /\ outcome \in [Calls -> Outcomes \union {None}]
        /\ waiterActive \in Int
    BY DEF CallPcs, DispatchPcs
  <1>6. /\ spawnQ \in Nat /\ spPc \in SpawnerPcs
        /\ initReply \in {None, "accepted", "rejected", "service_unavailable"}
    BY DEF SpawnerPcs
  <1>7. /\ waitPc \in [Instances -> WaitPcs]
        /\ taken \in [Instances -> SUBSET Instances]
        /\ restarting \in [Instances -> BOOLEAN]
        /\ sleepers \in Nat
        /\ shutPc \in ShutPcs /\ shuttingDown \in BOOLEAN /\ txOpen \in BOOLEAN
    BY DEF WaitPcs, ShutPcs
  <1>8. QED
    BY <1>1, <1>2, <1>3, <1>4, <1>5, <1>6, <1>7 DEF TypeOK

(* The steps of a caller in invoke_remote keep the types.                   *)
LEMMA TypeCaller ==
  ASSUME TypeOK, NEW c \in Calls, Caller(c)
  PROVE  TypeOK'
  <1> USE DEF TypeOK, handleVars, pendingVars, fwdVars, childVars, callVars,
              dispatchVars, spawnerVars, waitVars, shutVars,
              CallPcs, Outcomes, Refusals
  <1>1. CASE Snapshot(c)
    BY <1>1 DEF Snapshot, Return
  <1>2. CASE Route(c)
    <2>1. ASSUME NEW next \in {"wait", "spawn"}, Buffer(c, next)
          PROVE  /\ pc' \in [Calls -> CallPcs]
                 /\ outcome' \in [Calls -> Outcomes \union {None}]
                 /\ pendingInv' \in Seq(Calls)
      <3>1. pc' \in [Calls -> CallPcs] /\ outcome' \in [Calls -> Outcomes \union {None}]
        BY <2>1 DEF Buffer, Return
      <3>2. pendingInv' \in Seq(Calls)
        <4>1. Append(pendingInv, c) \in Seq(Calls)
          OBVIOUS
        <4>2. QED
          BY <2>1, <4>1 DEF Buffer
      <3>3. QED
        BY <3>1, <3>2
    <2>2. /\ pc' \in [Calls -> CallPcs]
          /\ outcome' \in [Calls -> Outcomes \union {None}]
          /\ pendingInv' \in Seq(Calls)
      BY <1>2, <2>1, Zenon DEF Route, Return
    <2>3. dispatch' \in [Calls -> DispatchPcs]
      BY <1>2 DEF Route, DispatchPcs
    <2>4. QED
      BY <1>2, <2>2, <2>3 DEF Route
  <1>3. CASE CallerSpawns(c)
    BY <1>3 DEF CallerSpawns, RequestSpawn
  <1>4. CASE CallerReturns(c)
    BY <1>4 DEF CallerReturns, Return
  <1>5. QED
    BY <1>1, <1>2, <1>3, <1>4 DEF Caller

(* So do those of dispatch_invocation, on whichever thread they run ...     *)
LEMMA TypeDispatch ==
  ASSUME TypeOK, NEW c \in Calls, Dispatch(c)
  PROVE  TypeOK'
  <1> USE DEF TypeOK, handleVars, pendingVars, fwdVars, childVars, callVars,
              dispatchVars, spawnerVars, waitVars, shutVars,
              DispatchPcs, Dispatching, Replied, Outcomes, Refusals
  <1>1. CASE Admit(c)
    BY <1>1 DEF Admit
  <1>2. CASE Reject(c)
    BY <1>2 DEF Reject
  <1>3. CASE Register(c)
    BY <1>3 DEF Register
  <1>4. CASE SendInvoke(c)
    <2>1. sent' \in [Instances -> SUBSET Calls]
      <3>1. CASE Alive(outgoing)
        <4>1. outgoing \in Instances
          BY <3>1, InstanceOrNone DEF Alive
        <4>2. QED
          BY <1>4, <4>1 DEF SendInvoke
      <3>2. CASE ~Alive(outgoing)
        BY <1>4, <3>2 DEF SendInvoke
      <3>3. QED
        BY <3>1, <3>2
    <2>2. /\ dispatch' \in [Calls -> DispatchPcs]
          /\ reply' \in [Calls -> Outcomes \union {None}]
          /\ pendingResp' \subseteq Calls
          /\ waiterActive' \in Int
      <3>1. ASSUME NEW o \in {"service_unavailable", "spawn_failed"}, GiveUp(c, o)
            PROVE  /\ dispatch' \in [Calls -> DispatchPcs]
                   /\ reply' \in [Calls -> Outcomes \union {None}]
                   /\ pendingResp' \subseteq Calls
                   /\ waiterActive' \in Int
        BY <3>1 DEF GiveUp
      <3>2. CASE Dispatching(c, "waiting") /\ UNCHANGED <<pendingResp, waiterActive, reply>>
        BY <3>2
      <3>3. QED
        BY <1>4, <3>1, <3>2 DEF SendInvoke
    <2>3. QED
      BY <1>4, <2>1, <2>2 DEF SendInvoke
  <1>5. QED
    BY <1>1, <1>2, <1>3, <1>4 DEF Dispatch

(* ... and those of its waiter thread.                                      *)
LEMMA TypeWaiter ==
  ASSUME TypeOK, NEW c \in Calls, Waiter(c)
  PROVE  TypeOK'
  <1> USE DEF TypeOK, handleVars, pendingVars, fwdVars, childVars, callVars,
              dispatchVars, spawnerVars, waitVars, shutVars,
              DispatchPcs, Dispatching, Replied, Outcomes, Refusals
  <1>1. CASE WaiterReplies(c)
    <2>1. reply' \in [Calls -> Outcomes \union {None}]
      BY <1>1 DEF WaiterReplies
    <2>2. QED
      BY <1>1, <2>1 DEF WaiterReplies
  <1>2. CASE WaiterExits(c)
    BY <1>2 DEF WaiterExits
  <1>3. QED
    BY <1>1, <1>2 DEF Waiter

(* TypeOK is not inductive alone: a start that is past Command::spawn has a *)
(* child, so that what it stores is an instance and not the initial 0.      *)
StartHasChild ==
  spPc \in {"wire", "initialize", "await", "initialized", "commit", "rearm", "forward"}
    => spInst \in Instances
TypeInv == TypeOK /\ StartHasChild

(* The spawner thread, one action at a time.                                *)
LEMMA TypeSpawner ==
  ASSUME TypeInv, Spawner
  PROVE  TypeInv'
  <1> USE DEF TypeInv, StartHasChild, TypeOK, handleVars, pendingVars, fwdVars, childVars, callVars,
              dispatchVars, spawnerVars, waitVars, shutVars,
              SpawnerPcs
  <1> USE InstanceOrNone
  <1>1. CASE SpawnerReceives
    BY <1>1 DEF SpawnerReceives
  <1>2. CASE StartBegins
    BY <1>2 DEF StartBegins
  <1>3. CASE Launch
    <2>1. child' \in [Instances -> {"unborn", "alive", "clean", "crashed"}]
      BY <1>3 DEF Launch
    <2>2. /\ spInst' \in 0 .. MaxInstances /\ childPid' \in 0 .. MaxInstances
          /\ spPc' \in {"fail", "wire"} /\ (spPc' = "wire" => spInst' \in Instances)
          /\ initReply' \in {None, "accepted", "rejected", "service_unavailable"}
      BY <1>3 DEF Launch
    <2>3. QED
      BY <1>3, <2>1, <2>2 DEF Launch
  <1>4. CASE Wire
    BY <1>4 DEF Wire, WaitPcs
  <1>5. CASE SendInitialize
    BY <1>5 DEF SendInitialize, SendOk
  <1>6. CASE AwaitInit
    BY <1>6, ZenonT(40) DEF AwaitInit, Killed
  <1>7. CASE SendInitialized
    BY <1>7 DEF SendInitialized, SendOk
  <1>8. CASE Commit
    BY <1>8 DEF Commit
  <1>9. CASE RearmForwarders
    BY <1>9 DEF RearmForwarders
  <1>10. CASE StartForwarder
    BY <1>10 DEF StartForwarder
  <1>11. CASE DrainBuffer
    <2>1. CASE pendingInv = <<>>
      BY <1>11, <2>1 DEF DrainBuffer
    <2>2. CASE pendingInv # <<>>
      <3>1. Head(pendingInv) \in Calls /\ Tail(pendingInv) \in Seq(Calls)
        BY <2>2
      <3>2. /\ dispatch' \in [Calls -> DispatchPcs]
            /\ reply' \in [Calls -> Outcomes \union {None}]
        BY <1>11, <2>2, <3>1
        DEF DrainBuffer, Dispatching, DispatchPcs, Replied, Outcomes
      <3>3. QED
        BY <1>11, <2>2, <3>1, <3>2, ZenonT(40) DEF DrainBuffer
    <2>3. QED
      BY <2>1, <2>2
  <1>12. CASE StartFails
    BY <1>12 DEF StartFails
  <1>13. CASE FlushBuffer
    <2>1. reply' \in [Calls -> Outcomes \union {None}]
      BY <1>13 DEF FlushBuffer, Outcomes
    <2>2. QED
      BY <1>13, <2>1, BoundsAssumption DEF FlushBuffer
  <1>14. CASE Recheck
    BY <1>14 DEF Recheck, Killed
  <1>15. QED
    BY <1>1, <1>2, <1>3, <1>4, <1>5, <1>6, <1>7, <1>8, <1>9, <1>10, <1>11,
       <1>12, <1>13, <1>14 DEF Spawner

(* The children and what the reader threads make of their replies, the      *)
(* forwarders, and the wait threads.                                        *)
LEMMA TypeInstance ==
  ASSUME TypeInv, NEW k \in Instances, Child(k) \/ ForwarderExits(k) \/ WaitThread(k)
  PROVE  TypeInv'
  <1> USE DEF TypeInv, StartHasChild, TypeOK, handleVars, pendingVars, fwdVars,
              childVars, callVars, dispatchVars, spawnerVars, waitVars, shutVars
  <1> USE InstanceOrNone
  <1>1. CASE ChildExits(k)
    BY <1>1, ZenonT(40) DEF ChildExits
  <1>2. ASSUME NEW list \in SUBSET Approved, ReplyInit(k, list)
        PROVE  TypeInv'
    BY <1>2 DEF ReplyInit
  <1>3. ASSUME NEW c \in Calls, ReplyInvoke(k, c)
        PROVE  TypeInv'
    BY <1>3 DEF ReplyInvoke
  <1>4. CASE ForwarderExits(k)
    BY <1>4 DEF ForwarderExits
  <1>5. CASE ExitClears(k)
    <2>1. PolicyRestarts(k) \in BOOLEAN
      BY DEF PolicyRestarts
    <2>2. restarting' \in [Instances -> BOOLEAN]
      BY <1>5, <2>1 DEF ExitClears
    <2>3. waitPc' \in [Instances -> WaitPcs]
      BY <1>5 DEF ExitClears, WaitPcs
    <2>4. QED
      BY <1>5, <2>2, <2>3, BoundsAssumption DEF ExitClears
  <1>6. CASE ExitStopsForwarders(k)
    BY <1>6 DEF ExitStopsForwarders, WaitPcs
  <1>7. CASE ExitTakesHandles(k)
    BY <1>7 DEF ExitTakesHandles, WaitPcs
  <1>8. CASE ExitDrains(k)
    BY <1>8 DEF ExitDrains, WaitPcs
  <1>9. QED
    BY <1>1, <1>2, <1>3, <1>4, <1>5, <1>6, <1>7, <1>8 DEF Child, WaitThread

(* The timers, the activation events and shutdown_all.                      *)
LEMMA TypeEnvironment ==
  ASSUME TypeInv, SleeperWakes \/ EventActivates \/ Shutdown
  PROVE  TypeInv'
  <1> USE DEF TypeInv, StartHasChild, TypeOK, handleVars, pendingVars, fwdVars,
              childVars, callVars, dispatchVars, spawnerVars, waitVars, shutVars,
              shutOthers
  <1>1. CASE SleeperWakes
    BY <1>1 DEF SleeperWakes, RequestSpawn
  <1>2. CASE EventActivates
    BY <1>2 DEF EventActivates, RequestSpawn
  <1>3. CASE ShutdownFlags
    BY <1>3 DEF ShutdownFlags, ShutPcs
  <1>4. CASE ShutdownNotifies
    BY <1>4 DEF ShutdownNotifies, ShutPcs
  <1>5. CASE ShutdownMarks
    BY <1>5 DEF ShutdownMarks, ShutPcs
  <1>6. CASE ShutdownCloses
    BY <1>6 DEF ShutdownCloses, ShutPcs
  <1>7. CASE ShutdownSweeps
    BY <1>7, ZenonT(40) DEF ShutdownSweeps, ShutPcs, Killed
  <1>8. QED
    BY <1>1, <1>2, <1>3, <1>4, <1>5, <1>6, <1>7 DEF Shutdown

(* The types, step by step.                                                 *)
LEMMA TypeStep == TypeInv /\ [Next]_vars => TypeInv'
  <1> SUFFICES ASSUME TypeInv, [Next]_vars PROVE TypeInv'
    OBVIOUS
  <1>1. ASSUME NEW c \in Calls, Caller(c) \/ Dispatch(c) \/ Waiter(c)
        PROVE  TypeInv'
    <2>1. TypeOK'
      BY <1>1, TypeCaller, TypeDispatch, TypeWaiter DEF TypeInv
    <2>2. UNCHANGED spawnerVars
      BY <1>1 DEF Caller, Dispatch, Waiter, Snapshot, Route, CallerSpawns,
                  CallerReturns, Admit, Reject, Register, SendInvoke,
                  WaiterReplies, WaiterExits
    <2>3. QED
      BY <2>1, <2>2 DEF TypeInv, StartHasChild, spawnerVars
  <1>2. CASE UNCHANGED vars
    BY <1>2 DEF TypeInv, StartHasChild, TypeOK, vars, handleVars, pendingVars,
                fwdVars, childVars, callVars, dispatchVars, spawnerVars,
                waitVars, shutVars
  <1>3. QED
    BY <1>1, <1>2, TypeSpawner, TypeInstance, TypeEnvironment DEF Next

(* Every variable of the supervisor keeps its type in every behaviour.      *)
THEOREM TypeCorrect == Spec => []TypeOK
  <1>1. Init => TypeInv
    BY TypeInit DEF Init, TypeInv, StartHasChild
  <1>2. TypeInv /\ [Next]_vars => TypeInv'
    BY TypeStep
  <1>3. QED
    BY <1>1, <1>2, PTL DEF Spec, TypeInv

----------------------------------------------------------------------------
(* No call is stranded in the start-up buffer. NoStrandedCall is inductive   *)
(* once we know when the handle can be Starting at all, that a Running       *)
(* handle only has a buffer while its start drains it, and that the          *)
(* spawner's channel is open until shutting_down has been raised.            *)
StartingIsSpawner ==
  state = "Starting" =>
    spPc \in {"launch", "wire", "initialize", "await", "initialized", "commit", "fail"}
RunningIsDrained ==
  state = "Running" /\ pendingInv # <<>> => spPc \in {"rearm", "forward", "drain"}
ChannelIsOpen == ~shuttingDown => txOpen /\ shutPc = "idle"

BufferInv ==
  /\ TypeInv
  /\ StartingIsSpawner
  /\ RunningIsDrained
  /\ ChannelIsOpen
  /\ NoStrandedCall

(* What a caller does to the buffer it also answers for.                    *)
LEMMA BufferCaller ==
  ASSUME BufferInv, NEW c \in Calls, Caller(c)
  PROVE  StartingIsSpawner' /\ RunningIsDrained' /\ ChannelIsOpen' /\ NoStrandedCall'
  <1> USE DEF BufferInv, StartingIsSpawner, RunningIsDrained, ChannelIsOpen,
              NoStrandedCall, StartInProgress, handleVars, spawnerVars, shutVars
  <1>1. CASE Snapshot(c) \/ CallerReturns(c)
    <2>1. \A d \in Calls : pc[d] = "spawn" => pc'[d] = "spawn"
      BY <1>1 DEF Snapshot, CallerReturns, Waiting, Return, BufferInv, TypeInv, TypeOK
    <2>2. QED
      BY <1>1, <2>1 DEF Snapshot, CallerReturns
  <1>2. CASE Route(c)
    <2>1. CASE state = "Running"
      <3>1. \A d \in Calls : pc[d] = "spawn" => pc'[d] = "spawn"
        BY <1>2, <2>1 DEF Route, BufferInv, TypeInv, TypeOK
      <3>2. QED
        BY <1>2, <2>1, <3>1 DEF Route
    <2>2. CASE state = "Starting"
      BY <1>2, <2>2 DEF Route
    <2>3. CASE state \in {"Stopped", "Failed"}
      <3>1. \A d \in Calls : pc[d] = "spawn" => pc'[d] = "spawn"
        BY <1>2, <2>3 DEF Route, Buffer, Return, BufferInv, TypeInv, TypeOK
      <3>2. pendingInv' = pendingInv \/ pc'[c] = "spawn"
        BY <1>2, <2>3 DEF Route, Buffer, Return, BufferInv, TypeInv, TypeOK
      <3>3. QED
        BY <1>2, <2>3, <3>1, <3>2 DEF Route
    <2>4. QED
      BY <2>1, <2>2, <2>3 DEF BufferInv, TypeInv, TypeOK
  <1>3. CASE CallerSpawns(c)
    BY <1>3 DEF CallerSpawns, RequestSpawn, BufferInv, TypeInv, TypeOK
  <1>4. QED
    BY <1>1, <1>2, <1>3 DEF Caller

(* The spawner: where a start begins, commits, drains and fails.            *)
LEMMA BufferSpawner ==
  ASSUME BufferInv, Spawner
  PROVE  StartingIsSpawner' /\ RunningIsDrained' /\ ChannelIsOpen' /\ NoStrandedCall'
  <1> USE DEF BufferInv, StartingIsSpawner, RunningIsDrained, ChannelIsOpen,
              NoStrandedCall, StartInProgress, handleVars, callVars, shutVars
  <1>1. CASE SpawnerReceives
    BY <1>1 DEF SpawnerReceives, TypeInv, TypeOK
  <1>2. CASE StartBegins
    BY <1>2 DEF StartBegins
  <1>3. CASE Launch
    BY <1>3 DEF Launch
  <1>4. CASE Wire
    BY <1>4 DEF Wire
  <1>5. CASE SendInitialize
    BY <1>5 DEF SendInitialize
  <1>6. CASE AwaitInit
    BY <1>6 DEF AwaitInit
  <1>7. CASE SendInitialized
    BY <1>7 DEF SendInitialized
  <1>8. CASE Commit
    BY <1>8 DEF Commit
  <1>9. CASE RearmForwarders
    BY <1>9 DEF RearmForwarders
  <1>10. CASE StartForwarder
    BY <1>10 DEF StartForwarder
  <1>11. CASE DrainBuffer
    BY <1>11 DEF DrainBuffer
  <1>12. CASE StartFails
    BY <1>12 DEF StartFails
  <1>13. CASE FlushBuffer
    BY <1>13 DEF FlushBuffer
  <1>14. CASE Recheck
    BY <1>14 DEF Recheck
  <1>15. QED
    BY <1>1, <1>2, <1>3, <1>4, <1>5, <1>6, <1>7, <1>8, <1>9, <1>10, <1>11,
       <1>12, <1>13, <1>14 DEF Spawner

(* The other threads: at most they stop the service, request a spawn or     *)
(* raise shutting_down.                                                     *)
LEMMA BufferOthers ==
  ASSUME BufferInv,
         \/ \E c \in Calls : Dispatch(c) \/ Waiter(c)
         \/ \E k \in Instances : Child(k) \/ ForwarderExits(k) \/ WaitThread(k)
         \/ SleeperWakes \/ EventActivates \/ Shutdown
  PROVE  StartingIsSpawner' /\ RunningIsDrained' /\ ChannelIsOpen' /\ NoStrandedCall'
  <1> USE DEF BufferInv, StartingIsSpawner, RunningIsDrained, ChannelIsOpen,
              NoStrandedCall, StartInProgress, handleVars, callVars, spawnerVars,
              shutVars
  <1>1. ASSUME NEW c \in Calls, Dispatch(c) \/ Waiter(c)
        PROVE  UNCHANGED <<handleVars, pendingInv, spawnQ, callVars, spawnerVars, shutVars>>
    BY <1>1 DEF Dispatch, Waiter, Admit, Reject, Register, SendInvoke,
                WaiterReplies, WaiterExits
  <1>2. ASSUME NEW k \in Instances, Child(k) \/ ForwarderExits(k)
        PROVE  UNCHANGED <<handleVars, pendingInv, spawnQ, callVars, spPc, shutVars>>
    BY <1>2 DEF Child, ForwarderExits, ChildExits, ReplyInit, ReplyInvoke
  <1>3. ASSUME NEW k \in Instances, WaitThread(k)
        PROVE  /\ UNCHANGED <<pendingInv, spawnQ, callVars, spPc, shutVars>>
               /\ state' \in {state, "Stopped"}
    BY <1>3 DEF WaitThread, ExitClears, ExitStopsForwarders, ExitTakesHandles, ExitDrains
  <1>4. CASE SleeperWakes \/ EventActivates
    BY <1>4 DEF SleeperWakes, EventActivates, RequestSpawn, TypeInv, TypeOK
  <1>5. CASE Shutdown
    BY <1>5 DEF Shutdown, ShutdownFlags, ShutdownNotifies, ShutdownMarks,
                ShutdownCloses, ShutdownSweeps, shutOthers
  <1>6. QED
    BY <1>1, <1>2, <1>3, <1>4, <1>5

(* A call parked in pending_invocations always has a start coming that will *)
(* empty the buffer, until the daemon shuts down.                           *)
THEOREM NoCallStranded == Spec => []NoStrandedCall
  <1>1. Init => BufferInv
    BY TypeInit DEF Init, TypeInv, StartHasChild, BufferInv, StartingIsSpawner,
       RunningIsDrained, ChannelIsOpen, NoStrandedCall
  <1>2. BufferInv /\ [Next]_vars => BufferInv'
    <2> SUFFICES ASSUME BufferInv, [Next]_vars PROVE BufferInv'
      OBVIOUS
    <2>1. TypeInv'
      BY TypeStep DEF BufferInv
    <2>2. CASE UNCHANGED vars
      BY <2>1, <2>2 DEF BufferInv, StartingIsSpawner, RunningIsDrained,
         ChannelIsOpen, NoStrandedCall, StartInProgress, vars, handleVars,
         callVars, spawnerVars, shutVars
    <2>3. QED
      BY <2>1, <2>2, BufferCaller, BufferSpawner, BufferOthers DEF Next, BufferInv
  <1>3. QED
    BY <1>1, <1>2, PTL DEF Spec, BufferInv

----------------------------------------------------------------------------
(* Running means one instance. The argument follows the start: while it is  *)
(* still Starting, nobody has cleared what Launch, Wire and SendInitialized  *)
(* stored, since whoever clears it also leaves Starting; and the spawner     *)
(* never launches, fails or flushes a service that is Running.              *)
StartIsWired ==
  state = "Starting" =>
    /\ spPc \in {"wire", "initialize", "await", "initialized", "commit"} =>
           childPid = spInst
    /\ spPc \in {"initialize", "await", "initialized", "commit"} =>
           outgoing = spInst
    /\ spPc = "commit" => spInst \in ready
StartingIsNotRunning ==
  spPc \in {"launch", "wire", "initialize", "await", "initialized", "commit",
            "fail", "flush"} => state # "Running"

WiredInv ==
  /\ TypeInv
  /\ StartingIsSpawner
  /\ StartIsWired
  /\ StartingIsNotRunning
  /\ RunningIsWired

(* The spawner thread builds the instance up.                               *)
LEMMA WiredSpawner ==
  ASSUME WiredInv, Spawner
  PROVE  StartingIsSpawner' /\ StartIsWired' /\ StartingIsNotRunning' /\ RunningIsWired'
  <1> USE DEF WiredInv, StartingIsSpawner, StartIsWired, StartingIsNotRunning,
              RunningIsWired, handleVars, childVars
  <1> USE InstanceOrNone
  <1>1. CASE SpawnerReceives
    BY <1>1 DEF SpawnerReceives
  <1>2. CASE StartBegins
    BY <1>2 DEF StartBegins
  <1>3. CASE Launch
    BY <1>3 DEF Launch
  <1>4. CASE Wire
    BY <1>4 DEF Wire
  <1>5. CASE SendInitialize
    BY <1>5 DEF SendInitialize
  <1>6. CASE AwaitInit
    BY <1>6 DEF AwaitInit
  <1>7. CASE SendInitialized
    BY <1>7 DEF SendInitialized
  <1>8. CASE Commit
    <2>1. spInst # 0
      BY <1>8 DEF Commit, TypeInv, StartHasChild
    <2>2. QED
      BY <1>8, <2>1 DEF Commit, StillStarting
  <1>9. CASE RearmForwarders
    BY <1>9 DEF RearmForwarders
  <1>10. CASE StartForwarder
    BY <1>10 DEF StartForwarder
  <1>11. CASE DrainBuffer
    BY <1>11 DEF DrainBuffer
  <1>12. CASE StartFails
    BY <1>12 DEF StartFails
  <1>13. CASE FlushBuffer
    BY <1>13 DEF FlushBuffer
  <1>14. CASE Recheck
    BY <1>14 DEF Recheck
  <1>15. QED
    BY <1>1, <1>2, <1>3, <1>4, <1>5, <1>6, <1>7, <1>8, <1>9, <1>10, <1>11,
       <1>12, <1>13, <1>14 DEF Spawner

(* Everybody else leaves the handle and the spawner alone, or stops the     *)
(* service as a whole.                                                      *)
LEMMA WiredOthers ==
  ASSUME WiredInv,
         \/ \E c \in Calls : Caller(c) \/ Dispatch(c) \/ Waiter(c)
         \/ \E k \in Instances : Child(k) \/ ForwarderExits(k) \/ WaitThread(k)
         \/ SleeperWakes \/ EventActivates \/ Shutdown
  PROVE  StartingIsSpawner' /\ StartIsWired' /\ StartingIsNotRunning' /\ RunningIsWired'
  <1> DEFINE Frame == UNCHANGED <<handleVars, spPc, spInst, declared, ready>>
  <1>1. ASSUME NEW c \in Calls, Caller(c) \/ Dispatch(c) \/ Waiter(c)
        PROVE  Frame
    BY <1>1 DEF Caller, Snapshot, Route, CallerSpawns, CallerReturns, Dispatch,
       Waiter, Admit, Reject, Register, SendInvoke, WaiterReplies, WaiterExits,
       childVars, spawnerVars
  <1>2. ASSUME NEW k \in Instances,
               \/ ChildExits(k)
               \/ \E c \in Calls : ReplyInvoke(k, c)
               \/ ForwarderExits(k)
               \/ ExitStopsForwarders(k) \/ ExitTakesHandles(k) \/ ExitDrains(k)
        PROVE  Frame
    BY <1>2 DEF ChildExits, ReplyInvoke, ForwarderExits, ExitStopsForwarders,
       ExitTakesHandles, ExitDrains, childVars, spawnerVars
  <1>3. CASE SleeperWakes \/ EventActivates \/ ShutdownFlags \/ ShutdownNotifies
             \/ ShutdownCloses \/ ShutdownSweeps
    <2>1. Frame
      BY <1>3 DEF SleeperWakes, EventActivates, ShutdownFlags, ShutdownNotifies,
         ShutdownCloses, ShutdownSweeps, shutOthers, handleVars, childVars, spawnerVars
    <2>2. QED
      BY <2>1 DEF WiredInv, StartingIsSpawner, StartIsWired, StartingIsNotRunning,
         RunningIsWired, handleVars
  <1>4. ASSUME NEW k \in Instances, NEW list \in SUBSET Approved, ReplyInit(k, list)
        PROVE  /\ spPc = "await"
               /\ UNCHANGED <<handleVars, spPc, spInst, ready>>
    BY <1>4 DEF ReplyInit
  <1>5. CASE \/ \E k \in Instances : ExitClears(k)
             \/ ShutdownMarks
    <2>1. state' = "Stopped" /\ UNCHANGED <<spPc, spInst>>
      BY <1>5 DEF ExitClears, ShutdownMarks, shutOthers, spawnerVars
    <2>2. QED
      BY <2>1 DEF WiredInv, StartingIsSpawner, StartIsWired, StartingIsNotRunning,
         RunningIsWired
  <1>6. QED
    BY <1>1, <1>2, <1>3, <1>4, <1>5
    DEF Child, WaitThread, Shutdown, WiredInv, StartingIsSpawner, StartIsWired,
        StartingIsNotRunning, RunningIsWired, handleVars

(* The handle of a Running service is wired to one handshaken instance: no  *)
(* exit, failed start or shutdown leaves parts of two.                      *)
THEOREM RunningWired == Spec => []RunningIsWired
  <1>1. Init => WiredInv
    BY TypeInit DEF Init, TypeInv, StartHasChild, WiredInv, StartingIsSpawner,
       StartIsWired, StartingIsNotRunning, RunningIsWired
  <1>2. WiredInv /\ [Next]_vars => WiredInv'
    <2> SUFFICES ASSUME WiredInv, [Next]_vars PROVE WiredInv'
      OBVIOUS
    <2>1. TypeInv'
      BY TypeStep DEF WiredInv
    <2>2. CASE UNCHANGED vars
      BY <2>1, <2>2 DEF WiredInv, StartingIsSpawner, StartIsWired,
         StartingIsNotRunning, RunningIsWired, vars, handleVars, childVars, spawnerVars
    <2>3. QED
      BY <2>1, <2>2, WiredSpawner, WiredOthers DEF Next, WiredInv
  <1>3. QED
    BY <1>1, <1>2, PTL DEF Spec, WiredInv

----------------------------------------------------------------------------
(* The sweep waits for the spawner, and the spawner never comes back.       *)
SpawnerGone == shutPc = "done" => spPc = "exited"

LEMMA GoneKept == SpawnerGone /\ [Next]_vars => SpawnerGone'
  <1> SUFFICES ASSUME SpawnerGone, [Next]_vars PROVE SpawnerGone'
    OBVIOUS
  <1> USE DEF SpawnerGone, shutVars, spawnerVars
  <1>1. ASSUME NEW c \in Calls, Caller(c) \/ Dispatch(c) \/ Waiter(c)
        PROVE  UNCHANGED <<shutPc, spPc>>
    BY <1>1 DEF Caller, Snapshot, Route, CallerSpawns, CallerReturns, Dispatch,
       Waiter, Admit, Reject, Register, SendInvoke, WaiterReplies, WaiterExits
  <1>2. ASSUME NEW k \in Instances, Child(k) \/ ForwarderExits(k) \/ WaitThread(k)
        PROVE  UNCHANGED <<shutPc, spPc>>
    BY <1>2 DEF Child, ChildExits, ReplyInit, ReplyInvoke, ForwarderExits, WaitThread,
       ExitClears, ExitStopsForwarders, ExitTakesHandles, ExitDrains
  <1>3. ASSUME Spawner PROVE UNCHANGED shutPc /\ spPc # "exited"
    BY <1>3 DEF Spawner, SpawnerReceives, StartBegins, Launch, Wire, SendInitialize,
       AwaitInit, SendInitialized, Commit, RearmForwarders, StartForwarder,
       DrainBuffer, StartFails, FlushBuffer, Recheck
  <1>4. ASSUME SleeperWakes \/ EventActivates \/ UNCHANGED vars
        PROVE  UNCHANGED <<shutPc, spPc>>
    BY <1>4 DEF SleeperWakes, EventActivates, vars
  <1>5. CASE Shutdown
    BY <1>5 DEF Shutdown, ShutdownFlags, ShutdownNotifies, ShutdownMarks,
       ShutdownCloses, ShutdownSweeps, SpawnerJoined, shutOthers
  <1>6. QED
    BY <1>1, <1>2, <1>3, <1>4, <1>5 DEF Next

(* A child is only spawned by the spawner thread.                           *)
LEMMA OnlySpawnerStarts == [Next]_vars /\ spInst' # spInst => spPc = "launch"
  <1> SUFFICES ASSUME [Next]_vars, spInst' # spInst PROVE spPc = "launch"
    OBVIOUS
  <1> USE DEF spawnerVars
  <1>1. ASSUME NEW c \in Calls, Caller(c) \/ Dispatch(c) \/ Waiter(c)
        PROVE  FALSE
    BY <1>1 DEF Caller, Snapshot, Route, CallerSpawns, CallerReturns, Dispatch,
       Waiter, Admit, Reject, Register, SendInvoke, WaiterReplies, WaiterExits
  <1>2. ASSUME NEW k \in Instances, Child(k) \/ ForwarderExits(k) \/ WaitThread(k)
        PROVE  FALSE
    BY <1>2 DEF Child, ChildExits, ReplyInit, ReplyInvoke, ForwarderExits, WaitThread,
       ExitClears, ExitStopsForwarders, ExitTakesHandles, ExitDrains
  <1>3. CASE Spawner
    BY <1>3 DEF Spawner, SpawnerReceives, StartBegins, Launch, Wire, SendInitialize,
       AwaitInit, SendInitialized, Commit, RearmForwarders, StartForwarder,
       DrainBuffer, StartFails, FlushBuffer, Recheck
  <1>4. ASSUME SleeperWakes \/ EventActivates \/ Shutdown \/ UNCHANGED vars
        PROVE  FALSE
    BY <1>4 DEF SleeperWakes, EventActivates, Shutdown, ShutdownFlags,
       ShutdownNotifies, ShutdownMarks, ShutdownCloses, ShutdownSweeps,
       shutOthers, vars
  <1>5. QED
    BY <1>1, <1>2, <1>3, <1>4 DEF Next

(* Once shutdown_all has joined the spawner, nothing starts the service     *)
(* again, whoever still asks for it.                                        *)
THEOREM JoinIsFinal == Spec => NoStartAfterJoin
  <1>1. Init => SpawnerGone
    BY DEF Init, SpawnerGone
  <1>2. SpawnerGone /\ [Next]_vars => SpawnerGone'
    BY GoneKept
  <1>3. SpawnerGone /\ [Next]_vars => [shutPc = "done" => spInst' = spInst]_vars
    BY OnlySpawnerStarts DEF SpawnerGone
  <1>4. QED
    BY <1>1, <1>2, <1>3, PTL DEF Spec, NoStartAfterJoin

--------------------------------------------------------------------------------
(* The invariant of a call, from invoke_remote to the last thread that       *)
(* works for it.                                                             *)

(* A call nobody routed yet, and one its caller is about to route, left no  *)
(* trace elsewhere.                                                         *)
CallsFresh ==
  \A c \in Calls : pc[c] \in {"idle", "route"} =>
    /\ dispatch[c] = "none"
    /\ reply[c] = None
    /\ \A i \in DOMAIN pendingInv : pendingInv[i] # c

(* A parked call is parked once, was neither dispatched nor answered, and   *)
(* if its caller is gone that is because it gave up waiting.                *)
CallsParked ==
  \A i \in DOMAIN pendingInv :
    /\ dispatch[pendingInv[i]] = "none"
    /\ reply[pendingInv[i]] = None
    /\ pc[pendingInv[i]] \in {"spawn", "wait", "done"}
    /\ pc[pendingInv[i]] = "done" => outcome[pendingInv[i]] = "action_timeout"
ParkedOnce ==
  \A i, j \in DOMAIN pendingInv : pendingInv[i] = pendingInv[j] => i = j

(* So does a call on its way through dispatch_invocation.                   *)
CallsUnderway ==
  \A c \in Calls : InDispatch(c) =>
    /\ reply[c] = None
    /\ pc[c] \in {"spawn", "wait", "dispatch", "done"}
    /\ pc[c] = "done" => outcome[c] = "action_timeout"

(* A frame goes out at the end of a dispatch, to one instance.              *)
SentOnce ==
  \A c \in Calls : \A k \in Instances : c \in sent[k] =>
    /\ dispatch[c] \in {"waiting", "replied", "over"}
    /\ \A l \in Instances : c \in sent[l] => l = k

(* What the caller will be told of a delivery agrees with the deliveries.   *)
Delivered(c) == \E k \in Instances : c \in sent[k]
RepliesTrue ==
  \A c \in Calls :
    /\ response[c] = "answered" \/ reply[c] = "answered" => Delivered(c)
    /\ reply[c] \in Refusals => dispatch[c] = "over" /\ ~Delivered(c)

CallsInv ==
  /\ TypeInv
  /\ CallsFresh /\ CallsParked /\ ParkedOnce
  /\ CallsUnderway /\ SentOnce /\ RepliesTrue

callState == <<pc, outcome, dispatch, reply, response, pendingInv, sent>>

(* The spawner's steps other than those that empty the buffer, the children *)
(* but for their answers, and all that concerns the service as a whole.     *)
OtherSteps ==
  \/ SpawnerReceives \/ StartBegins \/ Launch \/ Wire \/ SendInitialize
  \/ AwaitInit \/ SendInitialized \/ Commit
  \/ RearmForwarders \/ StartForwarder \/ StartFails \/ Recheck
  \/ \E k \in Instances :
       \/ ChildExits(k) \/ ForwarderExits(k)
       \/ \E list \in SUBSET Approved : ReplyInit(k, list)
       \/ ExitClears(k) \/ ExitStopsForwarders(k) \/ ExitTakesHandles(k)
  \/ SleeperWakes \/ EventActivates \/ Shutdown

LEMMA OthersKeepCalls == OtherSteps => UNCHANGED callState
  <1> USE DEF callState, callVars, dispatchVars, childVars
  <1>1. ASSUME SpawnerReceives \/ StartBegins \/ Launch \/ Wire
               \/ SendInitialize \/ AwaitInit
        PROVE  UNCHANGED callState
    BY <1>1 DEF SpawnerReceives, StartBegins, Launch, Wire, SendInitialize, AwaitInit
  <1>2. ASSUME SendInitialized \/ Commit \/ RearmForwarders \/ StartForwarder
               \/ StartFails \/ Recheck
        PROVE  UNCHANGED callState
    BY <1>2 DEF SendInitialized, Commit, RearmForwarders, StartForwarder, StartFails, Recheck
  <1>3. ASSUME NEW k \in Instances,
               \/ ChildExits(k) \/ ForwarderExits(k)
               \/ \E list \in SUBSET Approved : ReplyInit(k, list)
               \/ ExitClears(k) \/ ExitStopsForwarders(k) \/ ExitTakesHandles(k)
        PROVE  UNCHANGED callState
    BY <1>3 DEF ChildExits, ForwarderExits, ReplyInit, ExitClears,
       ExitStopsForwarders, ExitTakesHandles
  <1>4. ASSUME SleeperWakes \/ EventActivates \/ Shutdown
        PROVE  UNCHANGED callState
    BY <1>4 DEF SleeperWakes, EventActivates, Shutdown, ShutdownFlags, ShutdownNotifies,
       ShutdownMarks, ShutdownCloses, ShutdownSweeps, shutOthers
  <1> HIDE DEF callState
  <1>5. QED
    BY <1>1, <1>2, <1>3, <1>4 DEF OtherSteps

(* Every step is one of those, or one of these.                             *)
LEMMA StepsOfCalls ==
  ASSUME Next
  PROVE  \/ OtherSteps
         \/ DrainBuffer \/ FlushBuffer
         \/ \E k \in Instances : ExitDrains(k) \/ \E c \in Calls : ReplyInvoke(k, c)
         \/ \E c \in Calls : Caller(c) \/ Dispatch(c) \/ Waiter(c)
  BY DEF Next, OtherSteps, Spawner, Child, WaitThread

(* invoke_remote.                                                           *)
LEMMA CallsCaller ==
  ASSUME CallsInv, NEW c \in Calls, Caller(c)
  PROVE  /\ CallsFresh' /\ CallsParked' /\ ParkedOnce'
         /\ CallsUnderway' /\ SentOnce' /\ RepliesTrue'
  <1> USE DEF CallsInv, CallsFresh, CallsParked, ParkedOnce, CallsUnderway,
              SentOnce, RepliesTrue, Delivered, InDispatch
  <1>1. /\ pc \in [Calls -> CallPcs]
        /\ dispatch \in [Calls -> DispatchPcs]
        /\ reply \in [Calls -> Outcomes \union {None}]
        /\ outcome \in [Calls -> Outcomes \union {None}]
        /\ pendingInv \in Seq(Calls)
    BY DEF TypeInv, TypeOK
  <1>2. CASE Snapshot(c)
    BY <1>1, <1>2 DEF Snapshot, Return, childVars, dispatchVars
  <1>3. CASE Route(c)
    <2>1. CASE pendingInv' = pendingInv
      <3>1. /\ pc' = [pc EXCEPT ![c] = pc'[c]] /\ pc[c] = "route"
            /\ pc'[c] \in {"dispatch", "done"}
            /\ \A d \in Calls \ {c} : outcome'[d] = outcome[d]
            /\ reply' = reply /\ response' = response /\ sent' = sent
            /\ \/ dispatch' = dispatch /\ pc'[c] = "done"
               \/ dispatch' = [dispatch EXCEPT ![c] = "admit"] /\ pc'[c] = "dispatch"
        <4>1. Append(pendingInv, c) # pendingInv
          BY <1>1
        <4>2. QED
          BY <1>1, <1>3, <2>1, <4>1 DEF Route, Buffer, Return, childVars
      <3>2. QED
        BY <1>1, <2>1, <3>1
    <2>2. CASE pendingInv' # pendingInv
      <3>1. /\ \E next \in {"wait", "spawn"} : pc' = [pc EXCEPT ![c] = next]
            /\ pc[c] = "route"
            /\ pendingInv' = Append(pendingInv, c)
            /\ UNCHANGED <<outcome, dispatch, reply, response, sent>>
        BY <1>1, <1>3, <2>2 DEF Route, Buffer, Return, childVars
      <3>2. \A i \in DOMAIN pendingInv' :
              \/ i \in DOMAIN pendingInv /\ pendingInv'[i] = pendingInv[i]
                 /\ i # Len(pendingInv) + 1 /\ pendingInv[i] # c
              \/ i = Len(pendingInv) + 1 /\ pendingInv'[i] = c
        BY <1>1, <3>1
      <3>3. \A i \in DOMAIN pendingInv : pendingInv[i] \in Calls
        BY <1>1
      <3> HIDE DEF CallsInv
      <3>4. CallsFresh /\ CallsParked /\ ParkedOnce /\ CallsUnderway /\ SentOnce /\ RepliesTrue
        BY DEF CallsInv
      <3>5. CallsFresh'
        BY <1>1, <3>1, <3>2, <3>4
      <3>6. CallsParked'
        BY <1>1, <3>1, <3>2, <3>3, <3>4
      <3>7. ParkedOnce'
        BY <3>2, <3>4
      <3>8. CallsUnderway' /\ SentOnce' /\ RepliesTrue'
        BY <1>1, <3>1, <3>4
      <3>9. QED
        BY <3>5, <3>6, <3>7, <3>8
    <2>3. QED
      BY <2>1, <2>2
  <1>4. CASE CallerSpawns(c)
    BY <1>1, <1>4 DEF CallerSpawns, childVars, dispatchVars
  <1>5. CASE CallerReturns(c)
    <2>1. /\ pc' = [pc EXCEPT ![c] = "done"] /\ pc[c] \in {"wait", "dispatch"}
          /\ outcome' = [outcome EXCEPT ![c] =
               IF reply[c] # None THEN reply[c] ELSE "action_timeout"]
          /\ reply' = [reply EXCEPT ![c] = None]
          /\ UNCHANGED <<dispatch, response, pendingInv, sent>>
      BY <1>5 DEF CallerReturns, Waiting, Return, childVars, dispatchVars
    <2>2. CallsFresh' /\ CallsParked' /\ ParkedOnce'
      BY <1>1, <2>1
    <2>3. CallsUnderway' /\ SentOnce'
      BY <1>1, <2>1
    <2>4. RepliesTrue'
      BY <1>1, <2>1, NoneAssumption DEF Outcomes
    <2>5. QED
      BY <2>2, <2>3, <2>4
  <1>6. QED
    BY <1>2, <1>3, <1>4, <1>5 DEF Caller

(* dispatch_invocation.                                                     *)
LEMMA CallsDispatch ==
  ASSUME CallsInv, NEW c \in Calls, Dispatch(c)
  PROVE  /\ CallsFresh' /\ CallsParked' /\ ParkedOnce'
         /\ CallsUnderway' /\ SentOnce' /\ RepliesTrue'
  <1> USE DEF CallsInv, CallsFresh, CallsParked, ParkedOnce, CallsUnderway,
              SentOnce, RepliesTrue, Delivered, InDispatch
  <1>1. /\ dispatch \in [Calls -> DispatchPcs]
        /\ reply \in [Calls -> Outcomes \union {None}]
        /\ sent \in [Instances -> SUBSET Calls]
        /\ \A i \in DOMAIN pendingInv : pendingInv[i] \in Calls
    BY DEF TypeInv, TypeOK
  <1>2. CASE Admit(c) \/ Register(c)
    <2>1. /\ dispatch[c] \in {"admit", "admitted"}
          /\ \E next \in {"rejecting", "admitted", "registered"} :
               dispatch' = [dispatch EXCEPT ![c] = next]
          /\ UNCHANGED <<pc, outcome, reply, response, pendingInv, sent>>
      BY <1>2 DEF Admit, Register, Dispatching, callVars, childVars
    <2>2. QED
      BY <1>1, <2>1
  <1>3. CASE Reject(c)
    <2>1. /\ dispatch[c] = "rejecting" /\ dispatch' = [dispatch EXCEPT ![c] = "over"]
          /\ reply' \in {reply, [reply EXCEPT ![c] = "overloaded"]}
          /\ pc[c] = "done" => reply' = reply
          /\ UNCHANGED <<pc, outcome, response, pendingInv, sent>>
      BY <1>3 DEF Reject, Dispatching, Replied, callVars, childVars
    <2>2. QED
      BY <1>1, <2>1
  <1>4. CASE SendInvoke(c)
    <2>1. /\ dispatch[c] = "registered"
          /\ \E next \in {"waiting", "over"} : dispatch' = [dispatch EXCEPT ![c] = next]
          /\ \/ reply' = reply
             \/ \E o \in {"service_unavailable", "spawn_failed"} :
                  reply' = [reply EXCEPT ![c] = o]
          /\ UNCHANGED <<pc, outcome, response, pendingInv>>
      BY <1>4 DEF SendInvoke, GiveUp, Dispatching, Replied, callVars
    <2>2. \/ sent' = sent
          \/ outgoing \in Instances
             /\ sent' = [sent EXCEPT ![outgoing] = @ \union {c}]
      BY <1>4, InstanceOrNone DEF SendInvoke, Alive, TypeInv, TypeOK
    <2>3. \A k \in Instances : \A d \in Calls :
            /\ d \in sent[k] => d \in sent'[k]
            /\ d \in sent'[k] => d \in sent[k] \/ (d = c /\ k = outgoing)
      BY <1>1, <2>2
    <2>4. CallsFresh' /\ CallsParked' /\ ParkedOnce' /\ CallsUnderway'
      BY <1>1, <2>1
    <2>5. SentOnce'
      BY <1>1, <2>1, <2>3
    <2>6. RepliesTrue'
      BY <1>1, <2>1, <2>3 DEF Refusals
    <2>7. QED
      BY <2>4, <2>5, <2>6
  <1>5. QED
    BY <1>2, <1>3, <1>4 DEF Dispatch

(* The waiter thread, and what the reader and the wait threads send it.     *)
LEMMA CallsWaiter ==
  ASSUME CallsInv,
         \/ \E c \in Calls : Waiter(c)
         \/ \E k \in Instances : ExitDrains(k) \/ \E c \in Calls : ReplyInvoke(k, c)
  PROVE  /\ CallsFresh' /\ CallsParked' /\ ParkedOnce'
         /\ CallsUnderway' /\ SentOnce' /\ RepliesTrue'
  <1> USE DEF CallsInv, CallsFresh, CallsParked, ParkedOnce, CallsUnderway,
              SentOnce, RepliesTrue, Delivered, InDispatch
  <1>1. /\ dispatch \in [Calls -> DispatchPcs]
        /\ reply \in [Calls -> Outcomes \union {None}]
        /\ response \in [Calls -> {None, "answered", "service_unavailable"}]
        /\ \A i \in DOMAIN pendingInv : pendingInv[i] \in Calls
    BY DEF TypeInv, TypeOK
  <1>2. ASSUME NEW c \in Calls, WaiterReplies(c)
        PROVE  /\ CallsFresh' /\ CallsParked' /\ ParkedOnce'
               /\ CallsUnderway' /\ SentOnce' /\ RepliesTrue'
    <2>1. /\ dispatch[c] = "waiting" /\ dispatch' = [dispatch EXCEPT ![c] = "replied"]
          /\ response' = [response EXCEPT ![c] = None]
          /\ UNCHANGED <<pc, outcome, pendingInv, sent>>
      BY <1>2 DEF WaiterReplies, Wakes, Dispatching, callVars, childVars
    <2>2. \/ reply' = reply
          \/ \E o \in {"answered", "service_unavailable", "action_timeout"} :
               /\ reply' = [reply EXCEPT ![c] = o]
               /\ o = "answered" => response[c] = "answered"
      BY <1>1, <1>2 DEF WaiterReplies, Replied
    <2>3. CallsFresh' /\ CallsParked' /\ ParkedOnce'
      BY <1>1, <2>1, <2>2
    <2>4. CallsUnderway' /\ SentOnce'
      BY <1>1, <2>1, <2>2
    <2>5. RepliesTrue'
      BY <1>1, <2>1, <2>2, NoneAssumption DEF Outcomes, Refusals
    <2>6. QED
      BY <2>3, <2>4, <2>5
  <1>3. ASSUME NEW c \in Calls, WaiterExits(c)
        PROVE  /\ CallsFresh' /\ CallsParked' /\ ParkedOnce'
               /\ CallsUnderway' /\ SentOnce' /\ RepliesTrue'
    BY <1>1, <1>3 DEF WaiterExits, Dispatching, callVars, childVars
  <1>4. ASSUME NEW k \in Instances, ExitDrains(k)
        PROVE  /\ CallsFresh' /\ CallsParked' /\ ParkedOnce'
               /\ CallsUnderway' /\ SentOnce' /\ RepliesTrue'
    BY <1>1, <1>4 DEF ExitDrains, callVars, childVars
  <1>5. ASSUME NEW k \in Instances, NEW c \in Calls, ReplyInvoke(k, c)
        PROVE  /\ CallsFresh' /\ CallsParked' /\ ParkedOnce'
               /\ CallsUnderway' /\ SentOnce' /\ RepliesTrue'
    BY <1>1, <1>5 DEF ReplyInvoke, callVars, childVars
  <1>6. QED
    BY <1>2, <1>3, <1>4, <1>5 DEF Waiter

(* The two ways the spawner empties the buffer.                             *)
LEMMA CallsSpawner ==
  ASSUME CallsInv, DrainBuffer \/ FlushBuffer
  PROVE  /\ CallsFresh' /\ CallsParked' /\ ParkedOnce'
         /\ CallsUnderway' /\ SentOnce' /\ RepliesTrue'
  <1> USE DEF CallsInv, CallsFresh, CallsParked, ParkedOnce, CallsUnderway,
              SentOnce, RepliesTrue, Delivered, InDispatch
  <1>1. /\ dispatch \in [Calls -> DispatchPcs]
        /\ reply \in [Calls -> Outcomes \union {None}]
        /\ pendingInv \in Seq(Calls)
    BY DEF TypeInv, TypeOK
  <1>2. CASE DrainBuffer /\ pendingInv = <<>>
    BY <1>2 DEF DrainBuffer, callVars, childVars
  <1>3. CASE DrainBuffer /\ pendingInv # <<>>
    <2> DEFINE c == Head(pendingInv)
    <2>1. c \in Calls /\ c = pendingInv[1] /\ 1 \in DOMAIN pendingInv
      BY <1>1, <1>3
    <2>2. \A i \in DOMAIN Tail(pendingInv) :
            /\ i + 1 \in DOMAIN pendingInv
            /\ Tail(pendingInv)[i] = pendingInv[i + 1]
            /\ i + 1 # 1
            /\ pendingInv[i + 1] \in Calls
      BY <1>1, <1>3
    <2>2a. \A i, j \in DOMAIN Tail(pendingInv) : i + 1 = j + 1 => i = j
      BY <1>1, <1>3
    <2>3. /\ pendingInv' = Tail(pendingInv)
          /\ UNCHANGED <<pc, outcome, response, sent>>
          /\ \/ /\ reply' \in {reply, [reply EXCEPT ![c] = "service_unavailable"]}
                /\ pc[c] = "done" => reply' = reply
                /\ dispatch' = dispatch
             \/ /\ outcome[c] # "action_timeout"
                /\ dispatch' = [dispatch EXCEPT ![c] = "admit"]
                /\ reply' = reply
      BY <1>3 DEF DrainBuffer, Dispatching, Replied, callVars, childVars
    <2> HIDE DEF c
    <2>4. \A i \in DOMAIN Tail(pendingInv) : Tail(pendingInv)[i] # c
      BY <2>1, <2>2
    <2>5. CallsFresh'
      BY <1>1, <2>1, <2>2, <2>3
    <2>6. CallsParked'
      BY <1>1, <2>1, <2>2, <2>3, <2>4
    <2>7. ParkedOnce'
      BY <2>2, <2>2a, <2>3
    <2>8. CallsUnderway' /\ SentOnce'
      BY <1>1, <2>1, <2>3
    <2>9. RepliesTrue'
      BY <1>1, <2>1, <2>3, NoneAssumption DEF Refusals, Outcomes
    <2>10. QED
      BY <2>5, <2>6, <2>7, <2>8, <2>9
  <1>4. CASE FlushBuffer
    BY <1>1, <1>4 DEF FlushBuffer, callVars, dispatchVars, childVars, Refusals
  <1>5. QED
    BY <1>2, <1>3, <1>4

LEMMA CallsStep == CallsInv /\ [Next]_vars => CallsInv'
  <1> SUFFICES ASSUME CallsInv, [Next]_vars PROVE CallsInv'
    OBVIOUS
  <1>1. TypeInv'
    BY TypeStep DEF CallsInv
  <1>2. CASE OtherSteps \/ UNCHANGED vars
    <2>1. UNCHANGED callState
      BY <1>2, OthersKeepCalls
      DEF callState, vars, callVars, dispatchVars, childVars
    <2>2. QED
      BY <1>1, <2>1 DEF callState, CallsInv, CallsFresh, CallsParked, ParkedOnce,
         CallsUnderway, SentOnce, RepliesTrue, Delivered, InDispatch
  <1>3. QED
    BY <1>1, <1>2, StepsOfCalls, CallsCaller, CallsDispatch, CallsWaiter, CallsSpawner
    DEF CallsInv

LEMMA CallsInit == Init => CallsInv
  BY TypeInit, NoneAssumption
  DEF Init, CallsInv, TypeInv, StartHasChild, CallsFresh, CallsParked, ParkedOnce,
      CallsUnderway, SentOnce, RepliesTrue, Delivered, InDispatch, Outcomes, Refusals

----------------------------------------------------------------------------
(* The refinement. The mapping of Contract, spelled out: what a value of pc *)
(* says of the status, and how often a call was delivered.                  *)
StatusOf(p) == CASE p = "idle" -> "new" [] p = "done" -> "closed" [] OTHER -> "open"
Status == [c \in Calls |-> CASE pc[c] = "idle" -> "new"
                             [] pc[c] = "done" -> "closed"
                             [] OTHER -> "open"]
Deliveries == [c \in Calls |-> Cardinality({k \in Instances : c \in sent[k]})]

(* A move of pc moves the status of that call.                              *)
LEMMA StatusMoves ==
  ASSUME NEW c \in Calls, NEW p \in CallPcs,
         pc \in [Calls -> CallPcs], pc' = [pc EXCEPT ![c] = p]
  PROVE  Status' = [Status EXCEPT ![c] = StatusOf(p)]
  <1>1. Status'[c] = StatusOf(p)
    BY DEF Status, StatusOf
  <1>2. \A d \in Calls \ {c} : Status'[d] = Status[d]
    BY DEF Status
  <1>3. QED
    BY <1>1, <1>2 DEF Status

(* A call was delivered once if it was delivered at all.                    *)
LEMMA DeliveriesCounted ==
  ASSUME SentOnce, NEW c \in Calls
  PROVE  Deliveries[c] = IF Delivered(c) THEN 1 ELSE 0
  <1> DEFINE To == {k \in Instances : c \in sent[k]}
  <1>1. CASE Delivered(c)
    <2>1. PICK k \in Instances : c \in sent[k]
      BY <1>1 DEF Delivered
    <2>2. To = {k}
      BY <2>1 DEF SentOnce
    <2>3. QED
      BY <1>1, <2>2, FS_Singleton DEF Deliveries
  <1>2. CASE ~Delivered(c)
    <2>1. To = {}
      BY <1>2 DEF Delivered
    <2>2. QED
      BY <1>2, <2>1, FS_EmptySet DEF Deliveries
  <1>3. QED
    BY <1>1, <1>2

LEMMA ContractStarts == Init => Contract!ContractInit
  <1> SUFFICES ASSUME Init PROVE Contract!ContractInit
    OBVIOUS
  <1>1. Status = [c \in Calls |-> "new"]
    BY DEF Init, Status
  <1>2. \A c \in Calls : {k \in Instances : c \in sent[k]} = {}
    BY DEF Init
  <1>3. Deliveries = [c \in Calls |-> 0]
    BY <1>2, FS_EmptySet DEF Deliveries
  <1>4. QED
    BY <1>1, <1>3 DEF Init, Contract!ContractInit, Status, Deliveries

(* The actions of the contract under the mapping.                           *)
LEMMA SubmitIs ==
  ASSUME NEW c \in Calls, Status[c] = "new",
         Status' = [Status EXCEPT ![c] = "open"],
         Deliveries' = Deliveries, outcome' = outcome
  PROVE  Contract!Submit(c)
  BY DEF Contract!Submit, Status, Deliveries

LEMMA DeliverIs ==
  ASSUME NEW c \in Calls, Deliveries[c] = 0,
         Status[c] = "open" \/ outcome[c] = "action_timeout",
         Deliveries' = [Deliveries EXCEPT ![c] = 1],
         Status' = Status, outcome' = outcome
  PROVE  Contract!Deliver(c)
  BY DEF Contract!Deliver, Status, Deliveries

LEMMA CloseIs ==
  ASSUME NEW c \in Calls, NEW o \in Outcomes, Status[c] \in {"new", "open"},
         o = "answered" => Deliveries[c] = 1,
         o \in Refusals => Deliveries[c] = 0,
         Status' = [Status EXCEPT ![c] = "closed"],
         outcome' = [outcome EXCEPT ![c] = o],
         Deliveries' = Deliveries
  PROVE  Contract!Close(c, o)
  BY DEF Contract!Close, Status, Deliveries

ContractStep == [Contract!ContractNext]_(Contract!contractVars)

LEMMA ContractStutters ==
  ASSUME UNCHANGED <<pc, outcome, sent>>
  PROVE  ContractStep
  <1>1. UNCHANGED <<Status, Deliveries, outcome>>
    BY DEF Status, Deliveries
  <1>2. QED
    BY <1>1 DEF ContractStep, Contract!contractVars, Status, Deliveries

LEMMA ContractActs ==
  ASSUME NEW c \in Calls,
         \/ Contract!Submit(c) \/ Contract!Deliver(c)
         \/ \E o \in Outcomes : Contract!Close(c, o)
  PROVE  ContractStep
  BY DEF ContractStep, Contract!ContractNext, Outcomes

(* A caller that returns closes its call; what it says is true.             *)
LEMMA ReturnCloses ==
  ASSUME CallsInv, NEW c \in Calls, NEW o \in Outcomes, pc[c] # "done",
         Return(c, o), sent' = sent,
         o = "answered" => Delivered(c), o \in Refusals => ~Delivered(c)
  PROVE  ContractStep
  <1>1. pc \in [Calls -> CallPcs] /\ "done" \in CallPcs
    BY DEF CallsInv, TypeInv, TypeOK, CallPcs
  <1>2. Status' = [Status EXCEPT ![c] = "closed"]
    BY <1>1, StatusMoves DEF Return, StatusOf
  <1>3. Deliveries' = Deliveries
    BY DEF Deliveries
  <1>4. Status[c] \in {"new", "open"}
    BY DEF Status
  <1>5. (o = "answered" => Deliveries[c] = 1) /\ (o \in Refusals => Deliveries[c] = 0)
    BY DeliveriesCounted DEF CallsInv
  <1>6. Contract!Close(c, o)
    BY <1>2, <1>3, <1>4, <1>5, CloseIs DEF Return
  <1>7. QED
    BY <1>6, ContractActs

(* invoke_remote opens, keeps open or closes its call.                      *)
LEMMA CallerRefines ==
  ASSUME CallsInv, NEW c \in Calls, Caller(c)
  PROVE  ContractStep
  <1>1. /\ pc \in [Calls -> CallPcs]
        /\ reply \in [Calls -> Outcomes \union {None}]
    BY DEF CallsInv, TypeInv, TypeOK
  <1>2. pc[c] \in {"idle", "route"} => ~Delivered(c)
    BY DEF CallsInv, CallsFresh, SentOnce, Delivered
  <1>3. sent' = sent
    BY DEF Caller, Snapshot, Route, CallerSpawns, CallerReturns, childVars
  <1>4. CASE Snapshot(c)
    <2>1. CASE Return(c, "service_degraded")
      <3>1. "service_degraded" \in Outcomes /\ pc[c] # "done"
        BY <1>4 DEF Outcomes, Refusals, Snapshot
      <3>2. QED
        BY <1>2, <1>3, <1>4, <2>1, <3>1, ReturnCloses DEF Snapshot
    <2>2. CASE pc' = [pc EXCEPT ![c] = "route"] /\ UNCHANGED outcome
      <3>1. Status[c] = "new" /\ Status' = [Status EXCEPT ![c] = "open"]
        <4>1. "route" \in CallPcs
          BY DEF CallPcs
        <4>2. QED
          BY <1>1, <1>4, <2>2, <4>1, StatusMoves DEF Snapshot, Status, StatusOf
      <3>2. Deliveries' = Deliveries
        BY <1>3 DEF Deliveries
      <3>3. Contract!Submit(c)
        BY <2>2, <3>1, <3>2, SubmitIs
      <3>4. QED
        BY <3>3, ContractActs
    <2>3. QED
      BY <1>4, <2>1, <2>2 DEF Snapshot
  <1>5. ASSUME NEW o \in {"buffer_full", "service_unavailable"},
               pc[c] = "route", Return(c, o)
        PROVE  ContractStep
    <2>1. o \in Outcomes
      BY DEF Outcomes, Refusals
    <2>2. QED
      BY <1>2, <1>3, <1>5, <2>1, ReturnCloses
  <1>6. ASSUME NEW p \in {"wait", "spawn", "dispatch"}, pc[c] \in {"route", "spawn"},
               pc' = [pc EXCEPT ![c] = p], outcome' = outcome
        PROVE  ContractStep
    <2>1. Status[c] = "open" /\ p \in CallPcs /\ StatusOf(p) = "open"
      BY <1>1, <1>6 DEF Status, CallPcs, StatusOf
    <2>2. Status' = [Status EXCEPT ![c] = "open"]
      BY <1>1, <1>6, <2>1, StatusMoves
    <2>3. Status' = Status
      BY <2>1, <2>2 DEF Status
    <2>4. Deliveries' = Deliveries
      BY <1>3 DEF Deliveries
    <2>5. QED
      BY <1>6, <2>3, <2>4 DEF ContractStep, Contract!contractVars, Status, Deliveries
  <1>7. CASE Route(c)
    BY <1>5, <1>6, <1>7 DEF Route, Buffer
  <1>8. CASE CallerSpawns(c)
    BY <1>6, <1>8 DEF CallerSpawns
  <1>9. CASE CallerReturns(c)
    <2> DEFINE o == IF reply[c] # None THEN reply[c] ELSE "action_timeout"
    <2>1. o \in Outcomes
      BY <1>1 DEF Outcomes
    <2>2. pc[c] # "done" /\ Return(c, o)
      BY <1>9 DEF CallerReturns, Waiting
    <2>3. (o = "answered" => Delivered(c)) /\ (o \in Refusals => ~Delivered(c))
      BY DEF CallsInv, RepliesTrue, Refusals
    <2> HIDE DEF o
    <2>4. QED
      BY <1>3, <2>1, <2>2, <2>3, ReturnCloses
  <1>10. QED
    BY <1>4, <1>7, <1>8, <1>9 DEF Caller

(* The frame of an invocation, if it reaches a living child, delivers it.   *)
LEMMA SendRefines ==
  ASSUME CallsInv, NEW c \in Calls, SendInvoke(c)
  PROVE  ContractStep
  <1>1. UNCHANGED <<pc, outcome>>
    BY DEF SendInvoke, callVars
  <1>2. CASE sent' = sent
    BY <1>1, <1>2, ContractStutters
  <1>3. CASE sent' # sent
    <2>1. sent \in [Instances -> SUBSET Calls]
      BY DEF CallsInv, TypeInv, TypeOK
    <2>2. outgoing \in Instances /\ sent' = [sent EXCEPT ![outgoing] = @ \union {c}]
      BY <1>3, InstanceOrNone DEF SendInvoke, Alive, CallsInv, TypeInv, TypeOK
    <2>3. ~Delivered(c) /\ (Status[c] = "open" \/ outcome[c] = "action_timeout")
      BY DEF SendInvoke, CallsInv, CallsUnderway, InDispatch, SentOnce, Delivered, Status
    <2>4. {k \in Instances : c \in sent'[k]} = {outgoing}
      BY <2>1, <2>2, <2>3 DEF Delivered
    <2>5. \A d \in Calls \ {c} :
            {k \in Instances : d \in sent'[k]} = {k \in Instances : d \in sent[k]}
      BY <2>1, <2>2
    <2>6. Deliveries' = [Deliveries EXCEPT ![c] = 1]
      <3>1. Deliveries'[c] = 1
        BY <2>4, FS_Singleton DEF Deliveries
      <3>2. \A d \in Calls \ {c} : Deliveries'[d] = Deliveries[d]
        BY <2>5 DEF Deliveries
      <3>3. QED
        BY <3>1, <3>2 DEF Deliveries
    <2>7. Deliveries[c] = 0
      BY <2>3, DeliveriesCounted DEF CallsInv
    <2>8. Status' = Status
      BY <1>1 DEF Status
    <2>9. Contract!Deliver(c)
      BY <1>1, <2>3, <2>6, <2>7, <2>8, DeliverIs
    <2>10. QED
      BY <2>9, ContractActs
  <1>4. QED
    BY <1>2, <1>3

(* Every step of the supervisor is a step of the contract or a stutter.     *)
LEMMA ContractRefined == CallsInv /\ [Next]_vars => ContractStep
  <1> SUFFICES ASSUME CallsInv, [Next]_vars PROVE ContractStep
    OBVIOUS
  <1>1. CASE OtherSteps \/ UNCHANGED vars
    BY <1>1, OthersKeepCalls, ContractStutters DEF callState, vars, callVars, childVars
  <1>2. CASE DrainBuffer \/ FlushBuffer
    BY <1>2, ContractStutters DEF DrainBuffer, FlushBuffer, callVars, childVars
  <1>3. ASSUME NEW k \in Instances, ExitDrains(k) \/ \E c \in Calls : ReplyInvoke(k, c)
        PROVE  ContractStep
    BY <1>3, ContractStutters DEF ExitDrains, ReplyInvoke, callVars, childVars
  <1>4. ASSUME NEW c \in Calls, Admit(c) \/ Reject(c) \/ Register(c) \/ Waiter(c)
        PROVE  ContractStep
    BY <1>4, ContractStutters
    DEF Admit, Reject, Register, Waiter, WaiterReplies, WaiterExits, callVars, childVars
  <1>5. QED
    BY <1>1, <1>2, <1>3, <1>4, StepsOfCalls, CallerRefines, SendRefines DEF Dispatch

(* ServiceSupervisor implements InvocationContract: whatever a service, its *)
(* restarts and the shutdown do, a call returns at most once, reaches a     *)
(* process at most once, is only said to be answered once delivered, and is *)
(* never delivered after a refusal.                                         *)
THEOREM ContractKept == Spec => ImplementsContract
  <1>1. Init => CallsInv
    BY CallsInit
  <1>2. CallsInv /\ [Next]_vars => CallsInv'
    BY CallsStep
  <1>3. Init => Contract!ContractInit
    BY ContractStarts
  <1>4. CallsInv /\ [Next]_vars => [Contract!ContractNext]_(Contract!contractVars)
    BY ContractRefined DEF ContractStep
  <1>5. QED
    BY <1>1, <1>2, <1>3, <1>4, PTL
    DEF Spec, ImplementsContract, Contract!ContractSpec

----------------------------------------------------------------------------
(* Waiters and entries. A response can only be waiting for a call that was  *)
(* registered, and an entry that is gone left one.                          *)
EntriesSettled ==
  \A c \in Calls :
    /\ dispatch[c] \in {"none", "admit", "admitted"} => response[c] = None
    /\ dispatch[c] \in {"registered", "waiting"} /\ response[c] = None
           => c \in pendingResp
    /\ c \in pendingResp => /\ dispatch[c] \in {"registered", "waiting"}
                            /\ response[c] = None
InitAwaited == spPc = "await" /\ initReply = None => spInst \in pendingInit
PermitsCounted ==
  /\ waiterActive = Cardinality(Holders) + Cardinality(Rejecters)
  /\ Cardinality(Holders) <= WaiterMax

WaitersInv == CallsInv /\ EntriesSettled /\ InitAwaited /\ PermitsCounted

(* The pending entries through every step that touches one.                 *)
LEMMA EntriesCaller ==
  ASSUME WaitersInv, NEW c \in Calls, Caller(c) \/ Dispatch(c) \/ Waiter(c)
  PROVE  EntriesSettled'
  <1> USE DEF EntriesSettled
  <1>1. /\ dispatch \in [Calls -> DispatchPcs]
        /\ response \in [Calls -> {None, "answered", "service_unavailable"}]
        /\ pendingResp \subseteq Calls
    BY DEF WaitersInv, CallsInv, TypeInv, TypeOK
  <1>2. EntriesSettled /\ (pc[c] = "route" => dispatch[c] = "none")
    BY DEF WaitersInv, CallsInv, CallsFresh
  <1>3. CASE Caller(c)
    <2>1. /\ UNCHANGED <<response, pendingResp>>
          /\ \/ dispatch' = dispatch
             \/ pc[c] = "route" /\ dispatch' = [dispatch EXCEPT ![c] = "admit"]
      BY <1>3 DEF Caller, Snapshot, Route, CallerSpawns, CallerReturns,
         dispatchVars, pendingVars
    <2>2. QED
      BY <1>1, <1>2, <2>1
  <1>4. CASE Admit(c) \/ Reject(c)
    <2>1. /\ UNCHANGED <<response, pendingResp>>
          /\ \/ dispatch[c] = "admit" /\ \E next \in {"rejecting", "admitted"} :
                  dispatch' = [dispatch EXCEPT ![c] = next]
             \/ dispatch[c] = "rejecting" /\ dispatch' = [dispatch EXCEPT ![c] = "over"]
      BY <1>4 DEF Admit, Reject, Dispatching, pendingVars
    <2>2. QED
      BY <1>1, <1>2, <2>1
  <1>5. CASE Register(c)
    BY <1>1, <1>2, <1>5 DEF Register, Dispatching
  <1>6. CASE SendInvoke(c)
    <2>1. /\ dispatch[c] = "registered" /\ response' = response
          /\ \/ /\ dispatch' = [dispatch EXCEPT ![c] = "waiting"]
                /\ pendingResp' = pendingResp
             \/ /\ dispatch' = [dispatch EXCEPT ![c] = "over"]
                /\ pendingResp' = pendingResp \ {c}
      BY <1>6 DEF SendInvoke, GiveUp, Dispatching
    <2>2. QED
      BY <1>1, <1>2, <2>1
  <1>7. CASE WaiterReplies(c)
    <2>1. /\ dispatch[c] = "waiting"
          /\ dispatch' = [dispatch EXCEPT ![c] = "replied"]
          /\ response' = [response EXCEPT ![c] = None]
          /\ \/ response[c] # None /\ pendingResp' = pendingResp
             \/ pendingResp' = pendingResp \ {c}
      BY <1>7 DEF WaiterReplies, Wakes, Dispatching
    <2>2. QED
      BY <1>1, <1>2, <2>1
  <1>8. CASE WaiterExits(c)
    BY <1>1, <1>2, <1>8 DEF WaiterExits, Dispatching, pendingVars
  <1>9. QED
    BY <1>3, <1>4, <1>5, <1>6, <1>7, <1>8 DEF Dispatch, Waiter

LEMMA EntriesOthers ==
  ASSUME WaitersInv,
         \/ OtherSteps \/ DrainBuffer \/ FlushBuffer \/ UNCHANGED vars
         \/ \E k \in Instances : ExitDrains(k) \/ \E c \in Calls : ReplyInvoke(k, c)
  PROVE  EntriesSettled'
  <1> USE DEF EntriesSettled
  <1>1. /\ dispatch \in [Calls -> DispatchPcs]
        /\ response \in [Calls -> {None, "answered", "service_unavailable"}]
        /\ pendingResp \subseteq Calls
        /\ EntriesSettled
        /\ None \notin {"answered", "service_unavailable"}
    BY NoneAssumption DEF WaitersInv, CallsInv, TypeInv, TypeOK, Outcomes
  <1>2. CASE OtherSteps \/ FlushBuffer \/ UNCHANGED vars
    <2>1. UNCHANGED <<dispatch, response>>
      BY <1>2, OthersKeepCalls DEF callState, FlushBuffer, vars, dispatchVars
    <2>2. UNCHANGED pendingResp
      BY <1>2 DEF OtherSteps, FlushBuffer, vars, pendingVars, SpawnerReceives,
         StartBegins, Launch, Wire, SendInitialize, AwaitInit, SendInitialized,
         Commit, RearmForwarders, StartForwarder, StartFails, Recheck, ChildExits,
         ForwarderExits, ReplyInit, ExitClears, ExitStopsForwarders,
         ExitTakesHandles, SleeperWakes, EventActivates, Shutdown, ShutdownFlags,
         ShutdownNotifies, ShutdownMarks, ShutdownCloses, ShutdownSweeps, shutOthers
    <2>3. QED
      BY <1>1, <2>1, <2>2
  <1>3. CASE DrainBuffer
    <2>1. /\ UNCHANGED <<response, pendingResp>>
          /\ \/ dispatch' = dispatch
             \/ /\ pendingInv # <<>>
                /\ dispatch' = [dispatch EXCEPT ![Head(pendingInv)] = "admit"]
      BY <1>3 DEF DrainBuffer, Dispatching, pendingVars
    <2>2. pendingInv # <<>> => dispatch[Head(pendingInv)] = "none"
      <3>1. pendingInv \in Seq(Calls)
        BY DEF WaitersInv, CallsInv, TypeInv, TypeOK
      <3>2. pendingInv # <<>> => 1 \in DOMAIN pendingInv /\ Head(pendingInv) = pendingInv[1]
        BY <3>1
      <3>3. QED
        BY <3>2 DEF WaitersInv, CallsInv, CallsParked
    <2>3. QED
      BY <1>1, <2>1, <2>2
  <1>4. ASSUME NEW k \in Instances, ExitDrains(k)
        PROVE  EntriesSettled'
    BY <1>1, <1>4 DEF ExitDrains
  <1>5. ASSUME NEW k \in Instances, NEW c \in Calls, ReplyInvoke(k, c)
        PROVE  EntriesSettled'
    BY <1>1, <1>5 DEF ReplyInvoke
  <1>6. QED
    BY <1>2, <1>3, <1>4, <1>5

(* While the spawner awaits the reply to `initialize`, its entry is there.  *)
LEMMA InitAwaitedKept == InitAwaited /\ [Next]_vars => InitAwaited'
  <1> SUFFICES ASSUME InitAwaited, [Next]_vars PROVE InitAwaited'
    OBVIOUS
  <1> USE DEF InitAwaited
  <1> DEFINE Frame == UNCHANGED <<spPc, initReply, spInst, pendingInit>>
  <1>1. ASSUME NEW c \in Calls, Caller(c) \/ Dispatch(c) \/ Waiter(c)
        PROVE  Frame
    BY <1>1 DEF Caller, Snapshot, Route, CallerSpawns, CallerReturns, Dispatch,
       Waiter, Admit, Reject, Register, SendInvoke, WaiterReplies, WaiterExits,
       spawnerVars, pendingVars
  <1>2. ASSUME NEW k \in Instances,
               \/ ChildExits(k) \/ ForwarderExits(k)
               \/ \E c \in Calls : ReplyInvoke(k, c)
               \/ ExitClears(k) \/ ExitStopsForwarders(k) \/ ExitTakesHandles(k)
        PROVE  Frame
    BY <1>2 DEF ChildExits, ReplyInvoke, ForwarderExits, ExitClears,
       ExitStopsForwarders, ExitTakesHandles, spawnerVars, pendingVars
  <1>3. ASSUME SleeperWakes \/ EventActivates \/ Shutdown \/ UNCHANGED vars
        PROVE  Frame
    BY <1>3 DEF SleeperWakes, EventActivates, Shutdown, ShutdownFlags,
       ShutdownNotifies, ShutdownMarks, ShutdownCloses, ShutdownSweeps, shutOthers,
       vars, spawnerVars, pendingVars
  <1>4. ASSUME NEW k \in Instances, NEW list \in SUBSET Approved, ReplyInit(k, list)
        PROVE  initReply' # None
    BY <1>4, NoneAssumption DEF ReplyInit
  <1>5. ASSUME NEW k \in Instances, ExitDrains(k)
        PROVE  InitAwaited'
    BY <1>5, NoneAssumption DEF ExitDrains, Outcomes
  <1>6. CASE Spawner
    <2>1. CASE SendInitialize
      BY <2>1 DEF SendInitialize
    <2>2. ASSUME ~SendInitialize PROVE spPc' # "await"
      BY <1>6, <2>2 DEF Spawner, SpawnerReceives, StartBegins, Launch, Wire,
         AwaitInit, SendInitialized, Commit, RearmForwarders, StartForwarder,
         DrainBuffer, StartFails, FlushBuffer, Recheck
    <2>3. QED
      BY <2>1, <2>2
  <1>7. QED
    BY <1>1, <1>2, <1>3, <1>4, <1>5, <1>6 DEF Next, Child, WaitThread

(* The permits: which calls hold one after a move of dispatch.              *)
LEMMA PermitsMove ==
  ASSUME NEW c \in Calls, NEW x, dispatch \in [Calls -> DispatchPcs],
         dispatch' = [dispatch EXCEPT ![c] = x]
  PROVE  /\ Holders' = IF x \in {"admitted", "registered", "waiting", "replied"}
                       THEN Holders \union {c} ELSE Holders \ {c}
         /\ Rejecters' = IF x = "rejecting" THEN Rejecters \union {c} ELSE Rejecters \ {c}
  BY DEF Holders, Rejecters

LEMMA PermitsFinite ==
  /\ IsFiniteSet(Holders) /\ Cardinality(Holders) \in Nat
  /\ IsFiniteSet(Rejecters) /\ Cardinality(Rejecters) \in Nat
  <1>1. Holders \in SUBSET Calls /\ Rejecters \in SUBSET Calls
    BY DEF Holders, Rejecters
  <1>2. IsFiniteSet(Holders) /\ IsFiniteSet(Rejecters)
    BY <1>1, CallsAssumption, FS_Subset
  <1>3. QED
    BY <1>2, FS_CardinalityType

LEMMA PermitsDispatch ==
  ASSUME WaitersInv, NEW c \in Calls, Dispatch(c) \/ Waiter(c)
  PROVE  PermitsCounted'
  <1> USE DEF PermitsCounted
  <1>1. dispatch \in [Calls -> DispatchPcs] /\ waiterActive \in Int /\ PermitsCounted
    BY DEF WaitersInv, CallsInv, TypeInv, TypeOK
  <1> DEFINE h == Cardinality(Holders)
             r == Cardinality(Rejecters)
  <1>2. h \in Nat /\ r \in Nat
    BY PermitsFinite
  <1>3. /\ Cardinality(Holders \union {c}) = IF c \in Holders THEN h ELSE h + 1
        /\ Cardinality(Holders \ {c}) = IF c \in Holders THEN h - 1 ELSE h
        /\ Cardinality(Rejecters \union {c}) = IF c \in Rejecters THEN r ELSE r + 1
        /\ Cardinality(Rejecters \ {c}) = IF c \in Rejecters THEN r - 1 ELSE r
    BY PermitsFinite, FS_AddElement, FS_RemoveElement
  <1>4. /\ c \in Holders <=> dispatch[c] \in {"admitted", "registered", "waiting", "replied"}
        /\ c \in Rejecters <=> dispatch[c] = "rejecting"
    BY DEF Holders, Rejecters
  <1>5. WaiterMax \in Nat
    BY BoundsAssumption
  <1>6. waiterActive = h + r /\ h <= WaiterMax
    BY <1>1
  <1>7. ASSUME NEW x, dispatch' = [dispatch EXCEPT ![c] = x]
        PROVE  /\ Cardinality(Holders') =
                    IF x \in {"admitted", "registered", "waiting", "replied"}
                    THEN (IF c \in Holders THEN h ELSE h + 1)
                    ELSE (IF c \in Holders THEN h - 1 ELSE h)
               /\ Cardinality(Rejecters') =
                    IF x = "rejecting" THEN (IF c \in Rejecters THEN r ELSE r + 1)
                    ELSE (IF c \in Rejecters THEN r - 1 ELSE r)
    BY <1>1, <1>3, <1>7, PermitsMove
  <1> DEFINE h2 == Cardinality(Holders')
             r2 == Cardinality(Rejecters')
  <1> SUFFICES waiterActive' = h2 + r2 /\ h2 <= WaiterMax
    OBVIOUS
  <1> HIDE DEF h, r, h2, r2
  <1>8. ASSUME NEW x, dispatch' = [dispatch EXCEPT ![c] = x]
        PROVE  /\ h2 = IF x \in {"admitted", "registered", "waiting", "replied"}
                       THEN (IF c \in Holders THEN h ELSE h + 1)
                       ELSE (IF c \in Holders THEN h - 1 ELSE h)
               /\ r2 = IF x = "rejecting" THEN (IF c \in Rejecters THEN r ELSE r + 1)
                       ELSE (IF c \in Rejecters THEN r - 1 ELSE r)
    BY <1>7, <1>8 DEF h2, r2
  <1>8a. dispatch' = [dispatch EXCEPT ![c] = "over"] =>
           /\ c \in Holders => h2 = h - 1
           /\ c \notin Holders => h2 = h
           /\ c \in Rejecters => r2 = r - 1
           /\ c \notin Rejecters => r2 = r
    BY <1>8
  <1>9. CASE Admit(c)
    <2>1. CASE waiterActive >= WaiterMax
      <3>1. h2 = h /\ r2 = r + 1
        BY <1>4, <1>8, <1>9, <2>1 DEF Admit, Dispatching
      <3>2. QED
        BY <1>2, <1>6, <1>9, <3>1 DEF Admit
    <2>2. CASE ~(waiterActive >= WaiterMax)
      <3>1. h2 = h + 1 /\ r2 = r
        BY <1>4, <1>8, <1>9, <2>2 DEF Admit, Dispatching
      <3>2. QED
        BY <1>2, <1>5, <1>6, <1>9, <2>2, <3>1 DEF Admit
    <2>3. QED
      BY <2>1, <2>2
  <1>10. CASE Reject(c)
    <2>1. h2 = h /\ r2 = r - 1
      BY <1>4, <1>8a, <1>10 DEF Reject, Dispatching
    <2>2. QED
      BY <1>2, <1>6, <1>10, <2>1 DEF Reject
  <1>11. CASE Register(c)
    <2>1. h2 = h /\ r2 = r
      BY <1>4, <1>8, <1>11 DEF Register, Dispatching
    <2>2. QED
      BY <1>6, <1>11, <2>1 DEF Register
  <1>12. CASE SendInvoke(c)
    <2>1. CASE Dispatching(c, "waiting") /\ waiterActive' = waiterActive
      <3>1. h2 = h /\ r2 = r
        BY <1>4, <1>8, <1>12, <2>1 DEF SendInvoke, Dispatching
      <3>2. QED
        BY <1>6, <2>1, <3>1
    <2>2. CASE Dispatching(c, "over") /\ waiterActive' = waiterActive - 1
      <3>1. h2 = h - 1 /\ r2 = r
        BY <1>4, <1>8a, <1>12, <2>2 DEF SendInvoke, Dispatching
      <3>2. QED
        BY <1>2, <1>5, <1>6, <2>2, <3>1
    <2>3. QED
      BY <1>12, <2>1, <2>2 DEF SendInvoke, GiveUp
  <1>13. CASE WaiterReplies(c)
    <2>1. h2 = h /\ r2 = r
      BY <1>4, <1>8, <1>13 DEF WaiterReplies, Wakes, Dispatching
    <2>2. QED
      BY <1>6, <1>13, <2>1 DEF WaiterReplies
  <1>14. CASE WaiterExits(c)
    <2>1. h2 = h - 1 /\ r2 = r
      BY <1>4, <1>8a, <1>14 DEF WaiterExits, Dispatching
    <2>2. QED
      BY <1>2, <1>5, <1>6, <1>14, <2>1 DEF WaiterExits
  <1>15. QED
    BY <1>9, <1>10, <1>11, <1>12, <1>13, <1>14 DEF Dispatch, Waiter

(* Elsewhere a call is at most handed to dispatch_invocation.               *)
LEMMA PermitsOthers ==
  ASSUME WaitersInv,
         \/ \E c \in Calls : Caller(c)
         \/ OtherSteps \/ DrainBuffer \/ FlushBuffer \/ UNCHANGED vars
         \/ \E k \in Instances : ExitDrains(k) \/ \E c \in Calls : ReplyInvoke(k, c)
  PROVE  PermitsCounted'
  <1>1. dispatch \in [Calls -> DispatchPcs] /\ PermitsCounted
    BY DEF WaitersInv, CallsInv, TypeInv, TypeOK
  <1>2. UNCHANGED waiterActive
    <2>1. ASSUME NEW c \in Calls, Caller(c) PROVE UNCHANGED waiterActive
      BY <2>1 DEF Caller, Snapshot, Route, CallerSpawns, CallerReturns, dispatchVars
    <2>2. ASSUME OtherSteps PROVE UNCHANGED waiterActive
      <3>1. ASSUME SpawnerReceives \/ StartBegins \/ Launch \/ Wire
                   \/ SendInitialize \/ AwaitInit \/ SendInitialized \/ Commit
                   \/ RearmForwarders \/ StartForwarder \/ StartFails \/ Recheck
            PROVE  UNCHANGED waiterActive
        BY <3>1 DEF SpawnerReceives, StartBegins, Launch, Wire, SendInitialize,
           AwaitInit, SendInitialized, Commit, RearmForwarders, StartForwarder,
           StartFails, Recheck, dispatchVars
      <3>2. ASSUME NEW k \in Instances,
                   \/ ChildExits(k) \/ ForwarderExits(k)
                   \/ \E list \in SUBSET Approved : ReplyInit(k, list)
                   \/ ExitClears(k) \/ ExitStopsForwarders(k) \/ ExitTakesHandles(k)
            PROVE  UNCHANGED waiterActive
        BY <3>2 DEF ChildExits, ForwarderExits, ReplyInit, ExitClears,
           ExitStopsForwarders, ExitTakesHandles, dispatchVars
      <3>3. ASSUME SleeperWakes \/ EventActivates \/ Shutdown
            PROVE  UNCHANGED waiterActive
        BY <3>3 DEF SleeperWakes, EventActivates, Shutdown, ShutdownFlags,
           ShutdownNotifies, ShutdownMarks, ShutdownCloses, ShutdownSweeps,
           shutOthers, dispatchVars
      <3>4. QED
        BY <2>2, <3>1, <3>2, <3>3 DEF OtherSteps
    <2>3. ASSUME DrainBuffer \/ FlushBuffer \/ UNCHANGED vars
          PROVE  UNCHANGED waiterActive
      BY <2>3 DEF DrainBuffer, FlushBuffer, vars, dispatchVars
    <2>4. ASSUME NEW k \in Instances, ExitDrains(k) \/ \E c \in Calls : ReplyInvoke(k, c)
          PROVE  UNCHANGED waiterActive
      BY <2>4 DEF ExitDrains, ReplyInvoke
    <2>5. QED
      BY <2>1, <2>2, <2>3, <2>4
  <1>3. \/ dispatch' = dispatch
        \/ \E c \in Calls : /\ dispatch[c] = "none"
                            /\ dispatch' = [dispatch EXCEPT ![c] = "admit"]
    <2>1. ASSUME NEW c \in Calls, Caller(c)
          PROVE  dispatch' = dispatch \/ /\ dispatch[c] = "none"
                                         /\ dispatch' = [dispatch EXCEPT ![c] = "admit"]
      <3>1. pc[c] = "route" => dispatch[c] = "none"
        BY DEF WaitersInv, CallsInv, CallsFresh
      <3>2. QED
        BY <2>1, <3>1 DEF Caller, Snapshot, Route, CallerSpawns, CallerReturns, dispatchVars
    <2>2. CASE OtherSteps \/ FlushBuffer \/ UNCHANGED vars
      BY <2>2, OthersKeepCalls DEF callState, FlushBuffer, vars, dispatchVars
    <2>3. CASE DrainBuffer
      <3>1. pendingInv \in Seq(Calls)
        BY DEF WaitersInv, CallsInv, TypeInv, TypeOK
      <3>2. pendingInv # <<>> => /\ 1 \in DOMAIN pendingInv
                                /\ Head(pendingInv) = pendingInv[1]
                                /\ Head(pendingInv) \in Calls
        BY <3>1
      <3>3. pendingInv # <<>> => dispatch[Head(pendingInv)] = "none"
        BY <3>2 DEF WaitersInv, CallsInv, CallsParked
      <3>4. QED
        BY <2>3, <3>2, <3>3 DEF DrainBuffer, Dispatching
    <2>4. ASSUME NEW k \in Instances, ExitDrains(k) \/ \E c \in Calls : ReplyInvoke(k, c)
          PROVE  dispatch' = dispatch
      BY <2>4 DEF ExitDrains, ReplyInvoke
    <2>5. QED
      BY <2>1, <2>2, <2>3, <2>4
  <1>4. Holders' = Holders /\ Rejecters' = Rejecters
    BY <1>1, <1>3 DEF Holders, Rejecters
  <1>5. QED
    BY <1>1, <1>2, <1>4 DEF PermitsCounted

LEMMA WaitersStep == WaitersInv /\ [Next]_vars => WaitersInv'
  <1> SUFFICES ASSUME WaitersInv, [Next]_vars PROVE WaitersInv'
    OBVIOUS
  <1>1. CallsInv'
    BY CallsStep DEF WaitersInv
  <1>2. InitAwaited'
    BY InitAwaitedKept DEF WaitersInv
  <1>3. EntriesSettled'
    BY StepsOfCalls, EntriesCaller, EntriesOthers
  <1>4. PermitsCounted'
    BY StepsOfCalls, PermitsDispatch, PermitsOthers
  <1>5. QED
    BY <1>1, <1>2, <1>3, <1>4 DEF WaitersInv

(* waiter_active is the admissions in flight and never admits more than     *)
(* waiter_max; no waiter waits on a channel nobody can write to, no pending *)
(* entry outlives its waiter, and the spawner never awaits a reply whose     *)
(* entry is gone.                                                           *)
THEOREM WaitersAgree == Spec => []WaitersAndEntries
  <1>1. Init => WaitersInv
    <2> SUFFICES ASSUME Init PROVE WaitersInv
      OBVIOUS
    <2>1. CallsInv
      BY CallsInit
    <2>2. Holders = {} /\ Rejecters = {}
      BY DEF Init, Holders, Rejecters
    <2>3. PermitsCounted
      BY <2>2, FS_EmptySet, BoundsAssumption DEF Init, PermitsCounted
    <2>4. QED
      BY <2>1, <2>3 DEF Init, WaitersInv, EntriesSettled, InitAwaited
  <1>2. WaitersInv /\ [Next]_vars => WaitersInv'
    BY WaitersStep
  <1>3. WaitersInv => WaitersAndEntries
    BY DEF WaitersInv, EntriesSettled, InitAwaited, PermitsCounted, WaitersAndEntries
  <1>4. QED
    BY <1>1, <1>2, <1>3, PTL DEF Spec
================================================================================
