---------------------------- MODULE ThreadManager ----------------------------
(***************************************************************************)
(* The worker pool of ThreadManager.cpp and its collective shutdown.       *)
(*                                                                         *)
(* initialize() starts one WorkerThread per CPU of the process mask.  A    *)
(* thread is starting (threadStartup has not yet suspended it), running,   *)
(* or idle in _idleThreads.  shutdown() is run by the main (non-worker)    *)
(* thread, the initiator: it sets _mustExit, seeds _shutdownThreads and    *)
(* designates one idle thread per CPU that accepts work as that CPU's      *)
(* shutdown controller, the first one as the main controller, then joins   *)
(* the controllers in reverse order.  Each resumed thread runs             *)
(* threadShutdownSequence.                                                 *)
(*                                                                         *)
(* A busy-wait (sched_yield loops, the controllers' retry loop) is an      *)
(* action whose guard is the loop's exit condition, so a state where       *)
(* every thread waits is a deadlock TLC reports.  getIdleThread, the       *)
(* worker loop that parks a thread and CPUActivation are not in the source *)
(* tree; they are modelled from the design document.                       *)
(***************************************************************************)
EXTENDS Naturals, Sequences, FiniteSets

CONSTANTS
  NCPUs,       \* CPUs initialize() started a thread on, numbered 1..NCPUs
  TotalThreads, \* _totalThreads, as preinitialize() counted the mask
  Accepting,   \* the CPUs for which CPUActivation::acceptsWork holds
  None         \* nullptr

CPUs == 1..NCPUs
Threads == 1..NCPUs   \* thread i is the one initialize() created for CPU i

ASSUME /\ NCPUs \in Nat \ {0}
       /\ Accepting \subseteq CPUs /\ Accepting # {}
       /\ TotalThreads \in Nat
       /\ None \notin CPUs

VARIABLES
  mustExit,         \* _mustExit
  shutdownThreads,  \* _shutdownThreads
  mainController,   \* _mainShutdownControllerThread
  controller,       \* per CPU: cpu->_shutdownControlerThread
  idleThreads,      \* _idleThreads, the set of suspended idle threads
  state,            \* per thread: where it is (see TypeOK)
  cpu,              \* per thread: _cpu, the CPU it runs on
  isMain,           \* per thread: isMainController in threadShutdownSequence
  next,             \* per thread: the thread a controller is joining
  joins,            \* per thread: how many times pthread_join was called on it
  ipc,              \* the initiator's position in shutdown()
  icpu,             \* the initiator's loop index over _cpus
  participating     \* participatingCPUs, in the order they are joined

vars == <<mustExit, shutdownThreads, mainController, controller, idleThreads,
          state, cpu, isMain, next, joins, ipc, icpu, participating>>

-----------------------------------------------------------------------------
(* getIdleThread(cpu, true): the idle threads it may pop, preferring one   *)
(* that last ran on cpu.                                                   *)
IdleCandidates(c) ==
  LET onC == {t \in idleThreads : cpu[t] = c}
  IN IF onC # {} THEN onC ELSE idleThreads

(* Resuming t on CPU c with the shutdown signal: _cpuToBeResumedOn = c,    *)
(* bindThread if it migrates, signalShutdown, resume; after resumption     *)
(* the thread sets _cpu from _cpuToBeResumedOn.                            *)
ResumeForShutdown(t, c) ==
  /\ idleThreads' = idleThreads \ {t}
  /\ cpu' = [cpu EXCEPT ![t] = c]

-----------------------------------------------------------------------------
(* The workers before they take part in the shutdown.                      *)

(* threadStartup: after threadInitialization the thread suspends itself.   *)
StartupDone(t) ==
  /\ state[t] = "starting"
  /\ state' = [state EXCEPT ![t] = "idle"]
  /\ idleThreads' = idleThreads \cup {t}
  /\ UNCHANGED <<mustExit, shutdownThreads, mainController, controller, cpu,
                 isMain, next, joins, ipc, icpu, participating>>

(* Before shutdown the scheduler resumes idle threads to run tasks, on any *)
(* CPU (ThreadManager::resumeIdle migrates them).                          *)
ResumeForWork(t, c) ==
  /\ ~mustExit
  /\ t \in idleThreads
  /\ idleThreads' = idleThreads \ {t}
  /\ state' = [state EXCEPT ![t] = "running"]
  /\ cpu' = [cpu EXCEPT ![t] = c]
  /\ UNCHANGED <<mustExit, shutdownThreads, mainController, controller, isMain,
                 next, joins, ipc, icpu, participating>>

(* A running thread that finds no work parks in the idle queue.  A thread  *)
(* still running when shutdown starts lags behind the collective.          *)
Park(t) ==
  /\ state[t] = "running"
  /\ state' = [state EXCEPT ![t] = "idle"]
  /\ idleThreads' = idleThreads \cup {t}
  /\ UNCHANGED <<mustExit, shutdownThreads, mainController, controller, cpu,
                 isMain, next, joins, ipc, icpu, participating>>
-----------------------------------------------------------------------------
(* ThreadManager::shutdown(), run by the initiator.                        *)

(* Mutant of ShutdownStart: the initiating thread is counted as well.     *)
ShutdownStartCountsInitiator ==
  /\ ipc = "idle"
  /\ mustExit' = TRUE
  /\ shutdownThreads' = TotalThreads + 1
  /\ ipc' = "loop"
  /\ UNCHANGED <<mainController, controller, idleThreads, state, cpu, isMain,
                 next, joins, icpu, participating>>

ShutdownStart ==
  /\ ipc = "idle"
  /\ mustExit' = TRUE
  /\ shutdownThreads' = TotalThreads
  /\ ipc' = "loop"
  /\ UNCHANGED <<mainController, controller, idleThreads, state, cpu, isMain,
                 next, joins, icpu, participating>>

(* Mutant of ShutdownVisitCPU: the initiator waits for an idle thread     *)
(* even when every worker has already exited.                              *)
ShutdownVisitCPUAlwaysWaits ==
  /\ ipc = "loop"
  /\ icpu <= NCPUs
  /\ LET c == icpu IN
     \/ /\ c \notin Accepting
        /\ icpu' = icpu + 1
        /\ UNCHANGED <<mainController, controller, idleThreads, state, cpu,
                       participating>>
     \/ /\ c \in Accepting
        /\ state[c] # "starting"
        /\ \E t \in IdleCandidates(c) :
             /\ controller' = [controller EXCEPT ![c] = t]
             /\ mainController' = IF mainController = None THEN t ELSE mainController
             /\ ResumeForShutdown(t, c)
             /\ state' = [state EXCEPT ![t] = "resumed"]
             /\ participating' = <<c>> \o participating
             /\ icpu' = icpu + 1
  /\ UNCHANGED <<mustExit, shutdownThreads, isMain, next, joins, ipc>>

(* One iteration of the loop over _cpus: skip a CPU that does not accept   *)
(* work; wait while it is being initialized; spin on getIdleThread while   *)
(* none is idle and _shutdownThreads > 0; designate and resume the         *)
(* controller, the first one being the main controller.                    *)
ShutdownVisitCPU ==
  /\ ipc = "loop"
  /\ icpu <= NCPUs
  /\ LET c == icpu IN
     \/ /\ c \notin Accepting
        /\ icpu' = icpu + 1
        /\ UNCHANGED <<mainController, controller, idleThreads, state, cpu,
                       participating>>
     \/ /\ c \in Accepting
        /\ state[c] # "starting"
        /\ idleThreads = {}
        /\ shutdownThreads = 0
        /\ icpu' = icpu + 1
        /\ UNCHANGED <<mainController, controller, idleThreads, state, cpu,
                       participating>>
     \/ /\ c \in Accepting
        /\ state[c] # "starting"
        /\ \E t \in IdleCandidates(c) :
             /\ controller' = [controller EXCEPT ![c] = t]
             /\ mainController' = IF mainController = None THEN t ELSE mainController
             /\ ResumeForShutdown(t, c)
             /\ state' = [state EXCEPT ![t] = "resumed"]
             /\ participating' = <<c>> \o participating
             /\ icpu' = icpu + 1
  /\ UNCHANGED <<mustExit, shutdownThreads, isMain, next, joins, ipc>>

ShutdownEndLoop ==
  /\ ipc = "loop"
  /\ icpu > NCPUs
  /\ ipc' = "join"
  /\ UNCHANGED <<mustExit, shutdownThreads, mainController, controller,
                 idleThreads, state, cpu, isMain, next, joins, icpu, participating>>

(* pthread_join of each controller, the main controller last.              *)
ShutdownJoin ==
  /\ ipc = "join"
  /\ \/ /\ participating # <<>>
        /\ state[controller[Head(participating)]] = "exited"
        /\ joins' = [joins EXCEPT ![controller[Head(participating)]] = @ + 1]
        /\ participating' = Tail(participating)
        /\ UNCHANGED ipc
     \/ /\ participating = <<>>
        /\ ipc' = "done"
        /\ UNCHANGED <<joins, participating>>
  /\ UNCHANGED <<mustExit, shutdownThreads, mainController, controller,
                 idleThreads, state, cpu, isMain, next, icpu>>

-----------------------------------------------------------------------------
(* threadShutdownSequence(currentThread), run by each resumed thread.      *)

(* _shutdownThreads--; currentThread->exit().                              *)
Exit(t) ==
  /\ shutdownThreads' = shutdownThreads - 1
  /\ state' = [state EXCEPT ![t] = "exited"]

ShutdownSequence(t) ==
  /\ state[t] = "resumed"
  /\ \/ /\ controller[cpu[t]] = t
        /\ isMain' = [isMain EXCEPT ![t] = (mainController = t)]
        /\ state' = [state EXCEPT ![t] = "control"]
        /\ UNCHANGED shutdownThreads
     \/ /\ controller[cpu[t]] # t
        /\ Exit(t)
        /\ UNCHANGED isMain
  /\ UNCHANGED <<mustExit, mainController, controller, idleThreads, cpu, next,
                 joins, ipc, icpu, participating>>

(* Mutant of ControllerStep: the main controller leaves as soon as no     *)
(* thread is idle, like the others.                                        *)
ControllerStepNoMopUp(t) ==
  /\ state[t] = "control"
  /\ \/ \E n \in IdleCandidates(cpu[t]) :
          /\ ResumeForShutdown(n, cpu[t])
          /\ state' = [state EXCEPT ![n] = "resumed", ![t] = "joining"]
          /\ next' = [next EXCEPT ![t] = n]
          /\ UNCHANGED shutdownThreads
     \/ /\ idleThreads = {}
        /\ Exit(t)
        /\ UNCHANGED <<idleThreads, cpu, next>>
  /\ UNCHANGED <<mustExit, mainController, controller, isMain, joins, ipc, icpu,
                 participating>>

(* One iteration of the controller loop: resume the next idle thread with  *)
(* the shutdown signal and join it; with none idle, a non-main controller  *)
(* leaves and the main controller leaves once it is the last thread.       *)
ControllerStep(t) ==
  /\ state[t] = "control"
  /\ \/ \E n \in IdleCandidates(cpu[t]) :
          /\ ResumeForShutdown(n, cpu[t])
          /\ state' = [state EXCEPT ![n] = "resumed", ![t] = "joining"]
          /\ next' = [next EXCEPT ![t] = n]
          /\ UNCHANGED shutdownThreads
     \/ /\ idleThreads = {}
        /\ ~isMain[t] \/ shutdownThreads = 1
        /\ Exit(t)
        /\ UNCHANGED <<idleThreads, cpu, next>>
  /\ UNCHANGED <<mustExit, mainController, controller, isMain, joins, ipc, icpu,
                 participating>>

ControllerJoin(t) ==
  /\ state[t] = "joining"
  /\ state[next[t]] = "exited"
  /\ joins' = [joins EXCEPT ![next[t]] = @ + 1]
  /\ state' = [state EXCEPT ![t] = "control"]
  /\ UNCHANGED <<mustExit, shutdownThreads, mainController, controller,
                 idleThreads, cpu, isMain, next, ipc, icpu, participating>>

-----------------------------------------------------------------------------
(* preinitialize() and initialize(): one thread per CPU of the mask, on    *)
(* its CPU, each still in threadStartup.                                   *)
Init ==
  /\ mustExit = FALSE
  /\ shutdownThreads = 0
  /\ mainController = None
  /\ controller = [c \in CPUs |-> None]
  /\ idleThreads = {}
  /\ state = [t \in Threads |-> "starting"]
  /\ cpu = [t \in Threads |-> t]
  /\ isMain = [t \in Threads |-> FALSE]
  /\ next = [t \in Threads |-> None]
  /\ joins = [t \in Threads |-> 0]
  /\ ipc = "idle"
  /\ icpu = 1
  /\ participating = <<>>

ThreadStep(t) ==
  \/ StartupDone(t) \/ Park(t) \/ ShutdownSequence(t)
  \/ ControllerStep(t) \/ ControllerJoin(t)

InitiatorStep ==
  ShutdownStart \/ ShutdownVisitCPU \/ ShutdownEndLoop \/ ShutdownJoin

Next ==
  \/ \E t \in Threads : ThreadStep(t)
  \/ \E t \in Threads, c \in CPUs : ResumeForWork(t, c)
  \/ InitiatorStep

(* Every OS thread keeps being scheduled; the program eventually calls     *)
(* shutdown().                                                             *)
Fairness ==
  /\ \A t \in Threads : WF_vars(ThreadStep(t))
  /\ WF_vars(InitiatorStep)

Spec == Init /\ [][Next]_vars /\ Fairness

-----------------------------------------------------------------------------
(* Properties                                                              *)

TypeOK ==
  /\ mustExit \in BOOLEAN
  /\ shutdownThreads \in 0..NCPUs
  /\ mainController \in Threads \cup {None}
  /\ controller \in [CPUs -> Threads \cup {None}]
  /\ idleThreads \subseteq Threads
  /\ state \in [Threads -> {"starting", "running", "idle", "resumed",
                            "control", "joining", "exited"}]
  /\ cpu \in [Threads -> CPUs]
  /\ isMain \in [Threads -> BOOLEAN]
  /\ next \in [Threads -> Threads \cup {None}]
  /\ joins \in [Threads -> 0..NCPUs]
  /\ ipc \in {"idle", "loop", "join", "done"}
  /\ icpu \in 1..(NCPUs + 1)
  /\ participating \in Seq(CPUs)

(* No thread is joined twice, and when shutdown() returns every worker has *)
(* exited and been joined exactly once and _shutdownThreads is 0, the      *)
(* assertion at the end of shutdown().                                     *)
JoinedExactlyOnce ==
  /\ \A t \in Threads : joins[t] <= 1
  /\ ipc = "done" =>
       /\ shutdownThreads = 0
       /\ \A t \in Threads : state[t] = "exited" /\ joins[t] = 1

(* The collective shutdown terminates: threads still starting or lagging   *)
(* behind, and controllers racing each other for idle threads, never leave *)
(* the initiator or a controller spinning forever.                         *)
ShutdownTerminates == <>(ipc = "done")
=============================================================================
