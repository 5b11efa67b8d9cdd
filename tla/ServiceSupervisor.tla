--------------------------- MODULE ServiceSupervisor ---------------------------
(***************************************************************************)
(* copad-daemon/src/service_supervisor.rs: the life of ONE plugin service  *)
(* (a ServiceHandle) and of the invocations of its actions, against the    *)
(* threads that share the handle:                                          *)
(*                                                                         *)
(*   - the callers of invoke_remote, one per invocation;                   *)
(*   - the single copad-spawner thread (spawner_loop, start_service);      *)
(*   - one wait thread per child process (child.wait, then handle_exit);   *)
(*   - one waiter thread per dispatched invocation;                        *)
(*   - the event forwarders, the backoff sleepers, the onEvent activator;  *)
(*   - shutdown_all, and the children themselves.                          *)
(*                                                                         *)
(* A step is what a thread does under one lock, or one atomic operation.   *)
(* Child processes, their pids, their stdin channels and their wait        *)
(* threads share one identity, an element of Instances, in spawn order.    *)
(* Abstracted: request ids (a call or an instance names its own request),  *)
(* parameters and results, error texts, the durations of timers, pid files *)
(* (macOS), requests and notifications that come FROM the service.         *)
(***************************************************************************)
EXTENDS Integers, Sequences, FiniteSets

CONSTANTS
    Calls,          \* the invocations made during the behaviour
    Approved,       \* approved_provides: actions the manifest may provide
    ActionOf,       \* the action each call invokes
    Activation,     \* "onStartup", "onAction" or "onEvent"
    Activating,     \* the actions that match the onAction glob
    Restart,        \* "never", "onCrash" or "always"
    Subscribes,     \* does the service subscribe to a bus pattern?
    ShutsDown,      \* may the daemon shut down during the behaviour?
    WaiterMax,      \* waiter_max (COPADD_WAITER_MAX, 64)
    MaxBuffer,      \* MAX_PENDING_BUFFER (64)
    MaxInstances,   \* bound: children spawned in a behaviour
    MaxQueue,       \* bound: activation events waiting in the spawner's queue
    None            \* the absence of a set or of a reply

ASSUME CallsAssumption ==
    /\ ActionOf \in [Calls -> Approved]
    /\ Activating \subseteq Approved
    /\ IsFiniteSet(Calls)
ASSUME ServiceAssumption ==
    /\ Activation \in {"onStartup", "onAction", "onEvent"}
    /\ Restart \in {"never", "onCrash", "always"}
    /\ Subscribes \in BOOLEAN
    /\ ShutsDown \in BOOLEAN
ASSUME BoundsAssumption ==
    /\ WaiterMax \in Nat \ {0}
    /\ MaxBuffer \in Nat \ {0}
    /\ MaxInstances \in Nat \ {0}
    /\ MaxQueue \in Nat \ {0}

(* What invoke_remote tells its caller; a refusal says the call was not     *)
(* delivered.                                                              *)
Refusals == {"service_degraded", "buffer_full", "overloaded"}
Outcomes == Refusals \union
    {"service_unavailable", "spawn_failed", "action_timeout", "answered"}

ASSUME NoneAssumption ==
    /\ \A S \in SUBSET Approved : S # None
    /\ None \notin Outcomes \union {"accepted", "rejected"}

Instances == 1 .. MaxInstances

VARIABLES
    state,          \* ServiceHandle.state
    outgoing,       \* the instance `outgoing` writes to, 0 for None
    childPid,       \* child_pid, 0 for None
    provides,       \* runtime_provides
    pendingInit,    \* pending_responses: the initialize requests
    pendingResp,    \* pending_responses: the action.invoke requests
    pendingInv,     \* pending_invocations, the start-up buffer
    fwdStop,        \* forwarder_stop, shared by every instance
    fwdHandles,     \* forwarder_handles: whose JoinHandles are stored
    forwarders,     \* forwarder threads alive, by instance
    child,          \* the processes: "unborn", "alive", "clean", "crashed"
    declared,       \* the provides list of the initialize reply
    asked,          \* instances whose child may have read `initialize`
    ready,          \* instances that were sent `initialized`
    sent,           \* action.invoke frames an instance may have read
    pc,             \* invoke_remote of each call
    dispatch,       \* dispatch_invocation and its waiter, for each call
    reply,          \* PendingInvocation.reply: None until something is sent
    response,       \* the channel a waiter reads
    outcome,        \* what invoke_remote returned
    waiterActive,   \* waiter_active
    spawnQ,         \* requests in the spawner's channel
    spPc,           \* the spawner thread
    spInst,         \* the last instance it spawned, 0 at first
    initReply,      \* the channel start_service_inner waits on
    waitPc,         \* the wait thread of each instance
    taken,          \* the handles that wait thread joins
    restarting,     \* its should_restart before shutting_down is read
    sleepers,       \* threads sleeping a backoff delay
    shutPc,         \* shutdown_all
    shuttingDown,   \* shutting_down
    txOpen          \* is spawner_tx Some?

handleVars == <<state, outgoing, childPid, provides>>
pendingVars == <<pendingInit, pendingResp>>
fwdVars == <<fwdStop, fwdHandles, forwarders>>
childVars == <<child, declared, asked, ready, sent>>
callVars == <<pc, outcome>>
dispatchVars == <<dispatch, response, waiterActive>>
spawnerVars == <<spPc, spInst, initReply>>
waitVars == <<waitPc, taken, restarting>>
shutVars == <<shutPc, shuttingDown, txOpen>>

vars == <<handleVars, pendingVars, pendingInv, fwdVars, childVars,
          callVars, dispatchVars, reply, spawnQ, spawnerVars, waitVars,
          sleepers, shutVars>>

Alive(k) == k # 0 /\ child[k] = "alive"

----------------------------------------------------------------------------
(* Mutant: a service is started once, whoever asks again.                  *)
RequestSpawnOnce ==
    spawnQ' = IF shuttingDown \/ ~txOpen \/ spInst > 0 THEN spawnQ ELSE spawnQ + 1

(* spawn_service_async: nothing once shutting_down or without a sender.    *)
RequestSpawn ==
    spawnQ' = IF shuttingDown \/ ~txOpen THEN spawnQ ELSE spawnQ + 1

(* kill_service_group: SIGKILL, harmless when the child is already gone.   *)
Killed(k) == IF Alive(k) THEN [child EXCEPT ![k] = "crashed"] ELSE child

(* reply.send: lost when the caller has stopped waiting.                   *)
Replied(c, o) == IF pc[c] = "done" THEN reply ELSE [reply EXCEPT ![c] = o]

Init ==
    /\ state = "Stopped"
    /\ outgoing = 0 /\ childPid = 0 /\ provides = None
    /\ pendingInit = {} /\ pendingResp = {} /\ pendingInv = <<>>
    /\ fwdStop = FALSE /\ fwdHandles = {} /\ forwarders = {}
    /\ child = [k \in Instances |-> "unborn"]
    /\ declared = [k \in Instances |-> {}]
    /\ asked = {} /\ ready = {}
    /\ sent = [k \in Instances |-> {}]
    /\ pc = [c \in Calls |-> "idle"]
    /\ dispatch = [c \in Calls |-> "none"]
    /\ reply = [c \in Calls |-> None]
    /\ response = [c \in Calls |-> None]
    /\ outcome = [c \in Calls |-> None]
    /\ waiterActive = 0
    /\ spawnQ = IF Activation = "onStartup" THEN 1 ELSE 0
    /\ spPc = "recv" /\ spInst = 0 /\ initReply = None
    /\ waitPc = [k \in Instances |-> "none"]
    /\ taken = [k \in Instances |-> {}]
    /\ restarting = [k \in Instances |-> FALSE]
    /\ sleepers = 0
    /\ shutPc = "idle" /\ shuttingDown = FALSE /\ txOpen = TRUE

----------------------------------------------------------------------------
(* invoke_remote, on the caller's thread.                                  *)

Return(c, o) ==
    /\ pc' = [pc EXCEPT ![c] = "done"]
    /\ outcome' = [outcome EXCEPT ![c] = o]

(* The snapshot of runtime_provides, taken before any other lock.          *)
Snapshot(c) ==
    /\ pc[c] = "idle"
    /\ IF provides # None /\ ActionOf[c] \notin provides
       THEN Return(c, "service_degraded")
       ELSE pc' = [pc EXCEPT ![c] = "route"] /\ UNCHANGED outcome
    /\ UNCHANGED <<handleVars, pendingVars, pendingInv, fwdVars,
                   childVars, dispatchVars, reply, spawnQ,
                   spawnerVars, waitVars, sleepers, shutVars>>

(* start_service and its inner function hold the lock of the buffer for as *)
(* long as they drain it.                                                  *)
BufferLocked == spPc = "drain"

(* Mutant: pushed before the length is checked.                            *)
BufferPushFirst(c, next) ==
    /\ ~BufferLocked
    /\ pendingInv' = Append(pendingInv, c)
    /\ IF Len(pendingInv) >= MaxBuffer
       THEN Return(c, "buffer_full")
       ELSE pc' = [pc EXCEPT ![c] = next] /\ UNCHANGED outcome

Buffer(c, next) ==
    /\ ~BufferLocked
    /\ IF Len(pendingInv) >= MaxBuffer
       THEN Return(c, "buffer_full") /\ UNCHANGED pendingInv
       ELSE /\ pendingInv' = Append(pendingInv, c)
            /\ pc' = [pc EXCEPT ![c] = next]
            /\ UNCHANGED outcome

Route(c) ==
    /\ pc[c] = "route"
    /\ \/ /\ state = "Running"
          /\ pc' = [pc EXCEPT ![c] = "dispatch"]
          /\ dispatch' = [dispatch EXCEPT ![c] = "admit"]
          /\ UNCHANGED <<pendingInv, outcome>>
       \/ state = "Starting" /\ Buffer(c, "wait") /\ UNCHANGED dispatch
       \/ /\ state \in {"Stopped", "Failed"}
          /\ IF Activation = "onAction" /\ ActionOf[c] \in Activating
             THEN Buffer(c, "spawn")
             ELSE Return(c, "service_unavailable") /\ UNCHANGED pendingInv
          /\ UNCHANGED dispatch
    /\ UNCHANGED <<handleVars, pendingVars, fwdVars, childVars,
                   response, waiterActive, reply, spawnQ,
                   spawnerVars, waitVars, sleepers, shutVars>>

(* need_spawn, after the state lock was released.                          *)
CallerSpawns(c) ==
    /\ pc[c] = "spawn"
    /\ RequestSpawn
    /\ pc' = [pc EXCEPT ![c] = "wait"]
    /\ UNCHANGED <<handleVars, pendingVars, pendingInv, fwdVars,
                   childVars, outcome, dispatchVars, reply,
                   spawnerVars, waitVars, sleepers, shutVars>>

InDispatch(c) == dispatch[c] \in {"admit", "rejecting", "admitted", "registered"}

(* Mutant: recv in place of recv_timeout.                                  *)
WaitingForReply(c) ==
    reply[c] # None /\ (pc[c] = "wait" \/ (pc[c] = "dispatch" /\ ~InDispatch(c)))

(* Waiting in reply_rx.recv_timeout: buffered, or back from dispatching.   *)
Waiting(c) == pc[c] = "wait" \/ (pc[c] = "dispatch" /\ ~InDispatch(c))

(* It takes the reply, or gives up after action_timeout.                   *)
CallerReturns(c) ==
    /\ Waiting(c)
    /\ Return(c, IF reply[c] # None THEN reply[c] ELSE "action_timeout")
    /\ reply' = [reply EXCEPT ![c] = None]
    /\ UNCHANGED <<handleVars, pendingVars, pendingInv, fwdVars,
                   childVars, dispatchVars, spawnQ,
                   spawnerVars, waitVars, sleepers, shutVars>>

----------------------------------------------------------------------------
(* dispatch_invocation: on the caller's thread when the service is         *)
(* Running, on the spawner's for the calls the buffer held.                *)

Dispatching(c, next) == dispatch' = [dispatch EXCEPT ![c] = next]

(* fetch_add first, compare after: a rejected call holds the counter up    *)
(* until its fetch_sub.                                                    *)
Admit(c) ==
    /\ dispatch[c] = "admit"
    /\ waiterActive' = waiterActive + 1
    /\ Dispatching(c, IF waiterActive >= WaiterMax THEN "rejecting" ELSE "admitted")
    /\ UNCHANGED <<handleVars, pendingVars, pendingInv, fwdVars,
                   childVars, callVars, response, reply, spawnQ, spawnerVars,
                   waitVars, sleepers, shutVars>>

Reject(c) ==
    /\ dispatch[c] = "rejecting"
    /\ waiterActive' = waiterActive - 1
    /\ Dispatching(c, "over")
    /\ reply' = Replied(c, "overloaded")
    /\ UNCHANGED <<handleVars, pendingVars, pendingInv, fwdVars,
                   childVars, callVars, response, spawnQ, spawnerVars,
                   waitVars, sleepers, shutVars>>

Register(c) ==
    /\ dispatch[c] = "admitted"
    /\ pendingResp' = pendingResp \union {c}
    /\ Dispatching(c, "registered")
    /\ UNCHANGED <<handleVars, pendingInit, pendingInv, fwdVars,
                   childVars, callVars, response, waiterActive, reply, spawnQ,
                   spawnerVars, waitVars, sleepers, shutVars>>

(* ServiceHandle::send to the instance behind `outgoing`: the frame reaches *)
(* a living child; once the child is dead the writer may still accept it    *)
(* and lose it, or already be gone.                                         *)
(* SendAlways is a mutant: the channel is not checked.                     *)
SendAlways == TRUE
SendOk == outgoing # 0
SendErr == ~Alive(outgoing)

(* Mutant: the entry outlives a failed send.                               *)
GiveUpKeepsEntry(c, o) ==
    /\ waiterActive' = waiterActive - 1
    /\ Dispatching(c, "over")
    /\ reply' = Replied(c, o)
    /\ UNCHANGED pendingResp

GiveUp(c, o) ==
    /\ pendingResp' = pendingResp \ {c}
    /\ waiterActive' = waiterActive - 1
    /\ Dispatching(c, "over")
    /\ reply' = Replied(c, o)

(* The frame goes out, then the waiter thread starts, or fails to start.   *)
SendInvoke(c) ==
    /\ dispatch[c] = "registered"
    /\ \/ SendErr /\ GiveUp(c, "service_unavailable") /\ UNCHANGED sent
       \/ /\ SendOk
          /\ sent' = IF Alive(outgoing)
                     THEN [sent EXCEPT ![outgoing] = @ \union {c}] ELSE sent
          /\ \/ /\ Dispatching(c, "waiting")
                /\ UNCHANGED <<pendingResp, waiterActive, reply>>
             \/ GiveUp(c, "spawn_failed")
    /\ UNCHANGED <<handleVars, pendingInit, pendingInv, fwdVars,
                   child, declared, asked, ready, callVars, response, spawnQ,
                   spawnerVars, waitVars, sleepers, shutVars>>

Wakes(c) == dispatch[c] = "waiting"

(* The waiter: a response, or its own timeout, which withdraws the entry.  *)
WaiterReplies(c) ==
    /\ Wakes(c)
    /\ IF response[c] # None
       THEN reply' = Replied(c, response[c]) /\ UNCHANGED pendingResp
       ELSE /\ reply' = Replied(c, "action_timeout")
            /\ pendingResp' = pendingResp \ {c}
    /\ response' = [response EXCEPT ![c] = None]
    /\ Dispatching(c, "replied")
    /\ UNCHANGED <<handleVars, pendingInit, pendingInv, fwdVars,
                   childVars, callVars, waiterActive, spawnQ,
                   spawnerVars, waitVars, sleepers, shutVars>>

(* The thread ends and its WaiterPermit drops, after the caller was woken. *)
WaiterExits(c) ==
    /\ dispatch[c] = "replied"
    /\ waiterActive' = waiterActive - 1
    /\ Dispatching(c, "over")
    /\ UNCHANGED <<handleVars, pendingVars, pendingInv, fwdVars,
                   childVars, callVars, response, reply, spawnQ, spawnerVars,
                   waitVars, sleepers, shutVars>>

----------------------------------------------------------------------------
(* The spawner thread: spawner_loop, start_service, start_service_inner.   *)

SpawnerReceives ==
    /\ spPc = "recv"
    /\ \/ /\ spawnQ > 0
          /\ spawnQ' = spawnQ - 1
          /\ spPc' = IF shuttingDown THEN "recv" ELSE "begin"
       \/ /\ spawnQ = 0 /\ ~txOpen
          /\ spPc' = "exited"
          /\ UNCHANGED spawnQ
    /\ UNCHANGED <<handleVars, pendingVars, pendingInv, fwdVars,
                   childVars, callVars, dispatchVars, reply, spInst, initReply,
                   waitVars, sleepers, shutVars>>

StartBegins ==
    /\ spPc = "begin"
    /\ IF state \in {"Running", "Starting"}
       THEN spPc' = "recheck" /\ UNCHANGED state
       ELSE spPc' = "launch" /\ state' = "Starting"
    /\ UNCHANGED <<outgoing, childPid, provides, pendingVars, pendingInv,
                   fwdVars, childVars, callVars, dispatchVars, reply,
                   spawnQ, spInst, initReply, waitVars, sleepers, shutVars>>

(* Command::spawn fails, or yields a child whose pid is stored.            *)
Launch ==
    /\ spPc = "launch"
    /\ \/ spPc' = "fail" /\ UNCHANGED <<childPid, child, spInst, initReply>>
       \/ /\ spInst < MaxInstances
          /\ spInst' = spInst + 1
          /\ childPid' = spInst'
          /\ child' = [child EXCEPT ![spInst'] = "alive"]
          /\ initReply' = None
          /\ spPc' = "wire"
    /\ UNCHANGED <<state, outgoing, provides, pendingVars, pendingInv,
                   fwdVars, declared, asked, ready, sent, callVars,
                   dispatchVars, reply, spawnQ, waitVars, sleepers, shutVars>>

(* `outgoing` and the writer, reader and wait threads of the new child.    *)
Wire ==
    /\ spPc = "wire"
    /\ outgoing' = spInst
    /\ waitPc' = [waitPc EXCEPT ![spInst] = "waiting"]
    /\ spPc' = "initialize"
    /\ UNCHANGED <<state, childPid, provides, pendingVars, pendingInv,
                   fwdVars, childVars, callVars, dispatchVars, reply,
                   spawnQ, spInst, initReply, taken, restarting, sleepers,
                   shutVars>>

(* A send that fails here leaves the entry behind and the child unkilled.  *)
SendInitialize ==
    /\ spPc = "initialize"
    /\ pendingInit' = pendingInit \union {spInst}
    /\ \/ SendErr /\ spPc' = "fail" /\ UNCHANGED asked
       \/ /\ SendOk
          /\ spPc' = "await"
          /\ asked' = IF Alive(outgoing) THEN asked \union {outgoing} ELSE asked
    /\ UNCHANGED <<handleVars, pendingResp, pendingInv, fwdVars,
                   child, declared, ready, sent, callVars, dispatchVars, reply, spawnQ, spInst,
                   initReply, waitVars, sleepers, shutVars>>

(* InitNeverTimesOut is a mutant: recv in place of recv_timeout.           *)
InitNeverTimesOut == FALSE
InitTimesOut == initReply = None

(* recv_timeout(init_timeout) on the reply channel, and what follows it up *)
(* to the `initialized` notification.                                      *)
AwaitInit ==
    /\ spPc = "await"
    /\ \/ /\ InitTimesOut
          /\ pendingInit' = pendingInit \ {spInst}
          /\ child' = Killed(spInst)
          /\ spPc' = "fail"
       \/ /\ initReply \in {"rejected", "service_unavailable"}
          /\ child' = Killed(spInst)
          /\ spPc' = "fail"
          /\ UNCHANGED pendingInit
       \/ /\ initReply = "accepted"
          /\ spPc' = "initialized"
          /\ UNCHANGED <<pendingInit, child>>
    /\ UNCHANGED <<handleVars, pendingResp, pendingInv, fwdVars,
                   declared, asked, ready, sent, callVars, dispatchVars, reply,
                   spawnQ, spInst, initReply, waitVars, sleepers, shutVars>>

SendInitialized ==
    /\ spPc = "initialized"
    /\ \/ SendErr /\ spPc' = "fail" /\ UNCHANGED ready
       \/ SendOk /\ spPc' = "commit" /\ ready' = ready \union {outgoing}
    /\ UNCHANGED <<handleVars, pendingVars, pendingInv, fwdVars,
                   child, declared, asked, sent, callVars, dispatchVars, reply,
                   spawnQ, spInst, initReply, waitVars, sleepers, shutVars>>

(* StillStartingUnchecked is a mutant: no re-check of the state.           *)
StillStartingUnchecked == TRUE
StillStarting == state = "Starting"

(* Starting -> Running under the state lock.                               *)
Commit ==
    /\ spPc = "commit"
    /\ IF StillStarting
       THEN /\ provides' = declared[spInst]
            /\ state' = "Running"
            /\ spPc' = IF Subscribes THEN "rearm" ELSE "drain"
       ELSE spPc' = "fail" /\ UNCHANGED <<provides, state>>
    /\ UNCHANGED <<outgoing, childPid, pendingVars, pendingInv,
                   fwdVars, childVars, callVars, dispatchVars, reply, spawnQ,
                   spInst, initReply, waitVars, sleepers, shutVars>>

(* forwarder_stop.store(false), and the stale handles are dropped. Without *)
(* subscriptions the flag and the handles tell nobody anything.            *)
RearmForwarders ==
    /\ spPc = "rearm"
    /\ fwdStop' = FALSE
    /\ fwdHandles' = {}
    /\ spPc' = "forward"
    /\ UNCHANGED <<handleVars, pendingVars, pendingInv, forwarders,
                   childVars, callVars, dispatchVars, reply, spawnQ, spInst,
                   initReply, waitVars, sleepers, shutVars>>

StartForwarder ==
    /\ spPc = "forward"
    /\ forwarders' = forwarders \union {spInst}
    /\ fwdHandles' = fwdHandles \union {spInst}
    /\ spPc' = "drain"
    /\ UNCHANGED <<handleVars, pendingVars, pendingInv, fwdStop,
                   childVars, callVars, dispatchVars, reply, spawnQ, spInst,
                   initReply, waitVars, sleepers, shutVars>>

SpawnerDispatching == \E c \in Calls : pc[c] # "dispatch" /\ InDispatch(c)

(* One turn of the drain loop, under the lock of the buffer: the head is   *)
(* past its deadline, as it must be when its caller has given up, or it is *)
(* dispatched before the next one is popped.                               *)
DrainBuffer ==
    /\ spPc = "drain"
    /\ ~SpawnerDispatching
    /\ IF pendingInv = <<>>
       THEN spPc' = "recheck" /\ UNCHANGED <<pendingInv, dispatch, reply>>
       ELSE LET c == Head(pendingInv) IN
            /\ pendingInv' = Tail(pendingInv)
            /\ \/ /\ reply' = Replied(c, "service_unavailable")
                  /\ UNCHANGED dispatch
               \/ /\ outcome[c] # "action_timeout"
                  /\ Dispatching(c, "admit")
                  /\ UNCHANGED reply
            /\ UNCHANGED spPc
    /\ UNCHANGED <<handleVars, pendingVars, fwdVars, childVars,
                   callVars, response, waiterActive, spawnQ, spInst, initReply,
                   waitVars, sleepers, shutVars>>

(* start_service on an error: Failed first, whatever the state is by now,  *)
(* then the channel is closed and the buffer drained with the error.       *)
StartFails ==
    /\ spPc = "fail"
    /\ state' = "Failed"
    /\ spPc' = "flush"
    /\ UNCHANGED <<outgoing, childPid, provides, pendingVars, pendingInv,
                   fwdVars, childVars, callVars, dispatchVars, reply,
                   spawnQ, spInst, initReply, waitVars, sleepers, shutVars>>

FlushBuffer ==
    /\ spPc = "flush"
    /\ outgoing' = 0
    /\ pendingInv' = <<>>
    /\ reply' = [c \in Calls |->
                   IF pc[c] # "done" /\ \E i \in DOMAIN pendingInv : pendingInv[i] = c
                   THEN "service_unavailable" ELSE reply[c]]
    /\ spPc' = "recheck"
    /\ UNCHANGED <<state, childPid, provides, pendingVars, fwdVars,
                   childVars, callVars, dispatchVars, spawnQ, spInst,
                   initReply, waitVars, sleepers, shutVars>>

(* The re-check of shutting_down after start_service.                      *)
Recheck ==
    /\ spPc = "recheck"
    /\ child' = IF shuttingDown THEN Killed(childPid) ELSE child
    /\ spPc' = "recv"
    /\ UNCHANGED <<handleVars, pendingVars, pendingInv, fwdVars,
                   declared, asked, ready, sent, callVars, dispatchVars, reply,
                   spawnQ, spInst, initReply, waitVars, sleepers, shutVars>>

----------------------------------------------------------------------------
(* The children, and handle_inbound on the reader thread of each. What a   *)
(* child wrote before it died may still be read after.                     *)

(* The exit status only matters to onCrash.                                *)
ChildExits(k) ==
    /\ child[k] = "alive"
    /\ \/ child' = [child EXCEPT ![k] = "crashed"]
       \/ Restart = "onCrash" /\ child' = [child EXCEPT ![k] = "clean"]
    /\ UNCHANGED <<handleVars, pendingVars, pendingInv, fwdVars,
                   declared, asked, ready, sent, callVars, dispatchVars, reply,
                   spawnQ, spawnerVars, waitVars, sleepers, shutVars>>

(* The initialize reply; provides the manifest does not approve are ignored *)
(* when it is read, so a reply is taken to list approved ones only.         *)
ReplyInit(k, list) ==
    /\ k \in pendingInit /\ k \in asked
    /\ k = spInst /\ spPc = "await" /\ initReply = None
    /\ pendingInit' = pendingInit \ {k}
    /\ \/ /\ declared' = [declared EXCEPT ![k] = list]
          /\ initReply' = "accepted"
       \/ initReply' = "rejected" /\ UNCHANGED declared
    /\ UNCHANGED <<handleVars, pendingResp, pendingInv, fwdVars,
                   child, asked, ready, sent, callVars, dispatchVars, reply, spawnQ,
                   spPc, spInst, waitVars, sleepers, shutVars>>

(* The service's own response, a result or an error, if it is still wanted. *)
ReplyInvoke(k, c) ==
    /\ c \in sent[k] /\ c \in pendingResp
    /\ pendingResp' = pendingResp \ {c}
    /\ response' = [response EXCEPT ![c] = "answered"]
    /\ UNCHANGED <<handleVars, pendingInit, pendingInv, fwdVars,
                   childVars, callVars, dispatch, waiterActive, reply, spawnQ,
                   spawnerVars, waitVars, sleepers, shutVars>>

(* A forwarder sees the stop flag within 200 ms, or the bus hands it an    *)
(* event the writer of a dead child refuses.                               *)
ForwarderExits(k) ==
    /\ k \in forwarders
    /\ fwdStop \/ ~Alive(k)
    /\ forwarders' = forwarders \ {k}
    /\ UNCHANGED <<handleVars, pendingVars, pendingInv, fwdStop,
                   fwdHandles, childVars, callVars, dispatchVars, reply,
                   spawnQ, spawnerVars, waitVars, sleepers, shutVars>>

----------------------------------------------------------------------------
(* The wait thread of an instance: handle_exit.                            *)

(* PolicyOfOwn is a mutant: only the exit of the current instance restarts. *)
PolicyOfOwn(k) ==
    /\ state = "Running" /\ childPid = k
    /\ \/ Restart = "always"
       \/ Restart = "onCrash" /\ child[k] = "crashed"

(* was_running, the exit status and RestartPolicy.                         *)
PolicyRestarts(k) ==
    /\ state = "Running"
    /\ \/ Restart = "always"
       \/ Restart = "onCrash" /\ child[k] = "crashed"

(* The critical section of the state lock.                                 *)
ExitClears(k) ==
    /\ waitPc[k] = "waiting"
    /\ child[k] \in {"clean", "crashed"}
    /\ state' = "Stopped"
    /\ outgoing' = 0 /\ childPid' = 0 /\ provides' = None
    /\ restarting' = [restarting EXCEPT ![k] = PolicyRestarts(k)]
    /\ waitPc' = [waitPc EXCEPT ![k] = IF Subscribes THEN "stop" ELSE "join"]
    /\ UNCHANGED <<pendingVars, pendingInv, fwdVars, childVars,
                   callVars, dispatchVars, reply, spawnQ, spawnerVars, taken,
                   sleepers, shutVars>>

ExitStopsForwarders(k) ==
    /\ waitPc[k] = "stop"
    /\ fwdStop' = TRUE
    /\ waitPc' = [waitPc EXCEPT ![k] = "take"]
    /\ UNCHANGED <<handleVars, pendingVars, pendingInv, fwdHandles,
                   forwarders, childVars, callVars, dispatchVars, reply,
                   spawnQ, spawnerVars, taken, restarting, sleepers, shutVars>>

ExitTakesHandles(k) ==
    /\ waitPc[k] = "take"
    /\ taken' = [taken EXCEPT ![k] = fwdHandles]
    /\ fwdHandles' = {}
    /\ waitPc' = [waitPc EXCEPT ![k] = "join"]
    /\ UNCHANGED <<handleVars, pendingVars, pendingInv, fwdStop,
                   forwarders, childVars, callVars, dispatchVars, reply,
                   spawnQ, spawnerVars, restarting, sleepers, shutVars>>

(* The joins are over: every request still pending is answered, and then   *)
(* should_restart starts a thread that sleeps next_delay. (A shutdown that  *)
(* begins between the two leaves a sleeper whose request goes nowhere.)    *)
ExitDrains(k) ==
    /\ waitPc[k] = "join"
    /\ taken[k] \intersect forwarders = {}
    /\ pendingInit' = {} /\ pendingResp' = {}
    /\ response' = [c \in Calls |-> IF c \in pendingResp
                                    THEN "service_unavailable" ELSE response[c]]
    /\ initReply' = IF spInst \in pendingInit THEN "service_unavailable" ELSE initReply
    /\ sleepers' = IF restarting[k] /\ ~shuttingDown THEN sleepers + 1 ELSE sleepers
    /\ waitPc' = [waitPc EXCEPT ![k] = "done"]
    /\ UNCHANGED <<handleVars, pendingInv, fwdVars, childVars,
                   callVars, dispatch, waiterActive, reply, spawnQ, spPc,
                   spInst, taken, restarting, shutVars>>

SleeperWakes ==
    /\ sleepers > 0
    /\ sleepers' = sleepers - 1
    /\ RequestSpawn
    /\ UNCHANGED <<handleVars, pendingVars, pendingInv, fwdVars,
                   childVars, callVars, dispatchVars, reply, spawnerVars,
                   waitVars, shutVars>>

(* The thread of an onEvent rule, on a matching bus event.                 *)
EventActivates ==
    /\ Activation = "onEvent"
    /\ state \in {"Stopped", "Failed"}
    /\ spawnQ < MaxQueue /\ spInst < MaxInstances
    /\ RequestSpawn
    /\ UNCHANGED <<handleVars, pendingVars, pendingInv, fwdVars,
                   childVars, callVars, dispatchVars, reply, spawnerVars,
                   waitVars, sleepers, shutVars>>

----------------------------------------------------------------------------
(* shutdown_all, for this service.                                         *)

shutOthers == <<outgoing, childPid, provides, pendingVars, pendingInv,
                fwdVars, declared, asked, ready, sent, callVars,
                dispatchVars, reply, spawnQ, spawnerVars, waitVars, sleepers>>

ShutdownFlags ==
    /\ shutPc = "idle" /\ ShutsDown
    /\ shuttingDown' = TRUE
    /\ shutPc' = "notify"
    /\ UNCHANGED <<state, child, txOpen, shutOthers>>

(* The state is read, then `shutdown` is sent, then the state is written:  *)
(* three locks. The notification itself only makes ChildExits more likely. *)
ShutdownNotifies ==
    /\ shutPc = "notify"
    /\ shutPc' = IF state = "Running" THEN "mark" ELSE "grace"
    /\ UNCHANGED <<state, child, shuttingDown, txOpen, shutOthers>>

ShutdownMarks ==
    /\ shutPc = "mark"
    /\ state' = "Stopped"
    /\ shutPc' = "grace"
    /\ UNCHANGED <<child, shuttingDown, txOpen, shutOthers>>

ShutdownCloses ==
    /\ shutPc = "grace"
    /\ txOpen' = FALSE
    /\ shutPc' = "join"
    /\ UNCHANGED <<state, child, shuttingDown, shutOthers>>

(* NotJoined is a mutant: the sweep does not wait for the spawner.         *)
NotJoined == TRUE
SpawnerJoined == spPc = "exited"

(* The spawner is joined and the SIGKILL sweep runs.                       *)
ShutdownSweeps ==
    /\ shutPc = "join"
    /\ SpawnerJoined
    /\ child' = Killed(childPid)
    /\ shutPc' = "done"
    /\ UNCHANGED <<state, shuttingDown, txOpen, shutOthers>>

----------------------------------------------------------------------------
Caller(c) == Snapshot(c) \/ Route(c) \/ CallerSpawns(c) \/ CallerReturns(c)
Dispatch(c) == Admit(c) \/ Reject(c) \/ Register(c) \/ SendInvoke(c)
Waiter(c) == WaiterReplies(c) \/ WaiterExits(c)
Spawner ==
    \/ SpawnerReceives \/ StartBegins \/ Launch \/ Wire \/ SendInitialize
    \/ AwaitInit \/ SendInitialized \/ Commit
    \/ RearmForwarders \/ StartForwarder \/ DrainBuffer
    \/ StartFails \/ FlushBuffer \/ Recheck
WaitThread(k) ==
    \/ ExitClears(k) \/ ExitStopsForwarders(k) \/ ExitTakesHandles(k)
    \/ ExitDrains(k)
Shutdown ==
    \/ ShutdownFlags \/ ShutdownNotifies \/ ShutdownMarks
    \/ ShutdownCloses \/ ShutdownSweeps
Child(k) ==
    \/ ChildExits(k)
    \/ \E list \in SUBSET Approved : ReplyInit(k, list)
    \/ \E c \in Calls : ReplyInvoke(k, c)

Next ==
    \/ \E c \in Calls : Caller(c) \/ Dispatch(c) \/ Waiter(c)
    \/ \E k \in Instances : Child(k) \/ ForwarderExits(k) \/ WaitThread(k)
    \/ Spawner \/ SleeperWakes \/ EventActivates \/ Shutdown

Spec == Init /\ [][Next]_vars

(* Every daemon thread is scheduled, and the timers of a call, of init and *)
(* of a backoff run out. Children owe nothing; a forwarder polls its stop   *)
(* flag; nobody has to invoke an action or to shut the daemon down.        *)
Fairness ==
    /\ \A c \in Calls :
         /\ WF_vars(pc[c] # "idle" /\ Caller(c))
         /\ WF_vars(Dispatch(c))
         /\ WF_vars(Waiter(c))
    /\ \A k \in Instances :
         /\ WF_vars(fwdStop /\ ForwarderExits(k))
         /\ WF_vars(WaitThread(k))
    /\ WF_vars(Spawner)
    /\ WF_vars(SleeperWakes)
    /\ WF_vars(shuttingDown /\ Shutdown)

FairSpec == Spec /\ Fairness

----------------------------------------------------------------------------
(* Type invariant.                                                         *)
CallPcs == {"idle", "route", "spawn", "wait", "dispatch", "done"}
DispatchPcs == {"none", "admit", "rejecting", "admitted", "registered",
                "waiting", "replied", "over"}
SpawnerPcs == {"recv", "begin", "launch", "wire", "initialize", "await",
               "initialized", "commit", "rearm", "forward", "drain",
               "fail", "flush", "recheck", "exited"}
WaitPcs == {"none", "waiting", "stop", "take", "join", "done"}
ShutPcs == {"idle", "notify", "mark", "grace", "join", "done"}

TypeOK ==
    /\ state \in {"Stopped", "Starting", "Running", "Failed"}
    /\ outgoing \in 0 .. MaxInstances
    /\ childPid \in 0 .. MaxInstances
    /\ provides \in {None} \union SUBSET Approved
    /\ pendingInit \subseteq Instances
    /\ pendingResp \subseteq Calls
    /\ pendingInv \in Seq(Calls)
    /\ fwdStop \in BOOLEAN
    /\ fwdHandles \subseteq Instances
    /\ forwarders \subseteq Instances
    /\ child \in [Instances -> {"unborn", "alive", "clean", "crashed"}]
    /\ declared \in [Instances -> SUBSET Approved]
    /\ asked \subseteq Instances
    /\ ready \subseteq Instances
    /\ sent \in [Instances -> SUBSET Calls]
    /\ pc \in [Calls -> CallPcs]
    /\ dispatch \in [Calls -> DispatchPcs]
    /\ reply \in [Calls -> Outcomes \union {None}]
    /\ response \in [Calls -> {None, "answered", "service_unavailable"}]
    /\ outcome \in [Calls -> Outcomes \union {None}]
    /\ waiterActive \in Int
    /\ spawnQ \in Nat
    /\ spPc \in SpawnerPcs
    /\ spInst \in 0 .. MaxInstances
    /\ initReply \in {None, "accepted", "rejected", "service_unavailable"}
    /\ waitPc \in [Instances -> WaitPcs]
    /\ taken \in [Instances -> SUBSET Instances]
    /\ restarting \in [Instances -> BOOLEAN]
    /\ sleepers \in Nat
    /\ shutPc \in ShutPcs
    /\ shuttingDown \in BOOLEAN
    /\ txOpen \in BOOLEAN

----------------------------------------------------------------------------
(* Safety.                                                                 *)

(* The spawner is in a start that ends by emptying the buffer.             *)
StartInProgress ==
    \/ spPc \in {"launch", "wire", "initialize", "await", "initialized",
                 "commit", "rearm", "forward", "drain", "fail", "flush"}
    \/ spPc = "begin" /\ state \notin {"Running", "Starting"}

(* A call parked in pending_invocations is never forgotten: a start that   *)
(* will drain it is running, requested, or about to be requested by the    *)
(* caller that parked it (invoke_remote's three places to buffer against   *)
(* start_service's two places to drain, with exits in between).            *)
NoStrandedCall ==
    pendingInv # <<>> /\ ~shuttingDown =>
        \/ StartInProgress
        \/ spawnQ > 0
        \/ \E c \in Calls : pc[c] = "spawn"

(* What callers route on as Running is one instance throughout: the one    *)
(* just handshaken, whose channel, pid and negotiated actions the handle   *)
(* holds. No exit of an earlier child leaves a half-cleared Running handle. *)
RunningIsWired ==
    state = "Running" =>
        /\ spInst # 0
        /\ outgoing = spInst /\ childPid = spInst
        /\ provides = declared[spInst]
        /\ spInst \in ready

(* What every caller is promised: ServiceSupervisor implements             *)
(* InvocationContract. The races are between a caller that gives up, the   *)
(* drain of the buffer, the exit of the child and the next instance.       *)
Contract == INSTANCE InvocationContract WITH
    Failures <- {"service_unavailable", "spawn_failed"},
    status <- [c \in Calls |-> CASE pc[c] = "idle" -> "new"
                                 [] pc[c] = "done" -> "closed"
                                 [] OTHER -> "open"],
    deliveries <- [c \in Calls |-> Cardinality({k \in Instances : c \in sent[k]})],
    told <- outcome
ImplementsContract == Contract!ContractSpec

Holders == {c \in Calls : dispatch[c] \in {"admitted", "registered", "waiting", "replied"}}
Rejecters == {c \in Calls : dispatch[c] = "rejecting"}

(* Permits, waiters and entries agree. The counter is exactly the           *)
(* admissions in flight, whichever of the five ways out each took, and      *)
(* never admits more than waiter_max. No waiter waits on a channel nobody   *)
(* can write to, and no entry of pending_responses outlives its waiter:     *)
(* handle_exit's drain, the reply, the timeout and the failed send each     *)
(* settle both sides. Likewise the spawner never waits out init_timeout for *)
(* a reply whose entry is gone.                                             *)
WaitersAndEntries ==
    /\ waiterActive = Cardinality(Holders) + Cardinality(Rejecters)
    /\ Cardinality(Holders) <= WaiterMax
    /\ spPc = "await" /\ initReply = None => spInst \in pendingInit
    /\ \A c \in Calls :
         /\ dispatch[c] = "waiting" /\ response[c] = None => c \in pendingResp
         /\ c \in pendingResp => /\ dispatch[c] \in {"registered", "waiting"}
                                 /\ response[c] = None

(* Once the spawner has been joined nothing starts the service again: not  *)
(* a sleeper, not an event, not a call that was already routing.           *)
NoStartAfterJoin == [][shutPc = "done" => spInst' = spInst]_vars

----------------------------------------------------------------------------
(* Liveness, under FairSpec.                                               *)

(* shutdown_all returns, whatever the spawner is in the middle of.         *)
ShutdownReturns == shuttingDown ~> shutPc = "done"

(* Every invocation returns to its caller, whatever locks it meets, and     *)
(* every waiter ends and gives its permit back.                             *)
CallsReturn ==
    \A c \in Calls :
        /\ pc[c] = "route" ~> pc[c] = "done"
        /\ dispatch[c] = "waiting" ~> dispatch[c] = "over"

(* handle_exit waits for a forwarder that start_service_inner, arming the flag anew, told to go on. *)
JoinsForever(k) == waitPc[k] = "join" /\ ~fwdStop /\ taken[k] \intersect forwarders # {}

(* A death while the handle says Running, whose exit is still to be handled. *)
DiesRunning(k) ==
    /\ state = "Running"
    /\ waitPc[k] = "waiting" /\ child[k] \in {"clean", "crashed"}

(* A death met by a handle that says Running is one to recover from, whichever exit meets it: that *)
(* of the instance itself, or a late one of an earlier instance, which takes the state of the next  *)
(* one for its own was_running. Under "always" another start follows, unless the daemon shuts down  *)
(* first, or a join of handle_exit is left waiting for an event of the bus.                         *)
RestartHappens ==
    \A k \in Instances :
        Restart = "always" /\ DiesRunning(k)
            ~> state = "Starting" \/ shuttingDown \/ (\E j \in Instances : JoinsForever(j))
=============================================================================
