----------------------------- MODULE PyBinding -----------------------------
(***************************************************************************)
(* The Python binding (bindings/binding_python) over TargetEvents: Target  *)
(* and Container objects with their reference counts, the methods that     *)
(* release the GIL while they are in the library, and the callbacks, which *)
(* take the GIL while the message thread holds crit_sec.  What a thread    *)
(* does with the GIL between two releases is one step.                     *)
(***************************************************************************)
EXTENDS TargetEvents, FiniteSets

CONSTANTS Threads,       \* threads that run Python code
          Containers,    \* addresses of Container objects
          Dispatcher,    \* the message thread, as a holder of the GIL
          NoThread, NoContainer,
          SharedTargets  \* threads may pass one target to spawn at a time

ASSUME PythonAssumption ==
  /\ Dispatcher \notin Threads /\ NoThread \notin Threads \cup {Dispatcher}
  /\ NoContainer \notin Containers
  /\ SharedTargets \in BOOLEAN
  /\ IsFiniteSet(Threads) /\ IsFiniteSet(Targets)

VARIABLES
  gil,              \* who holds the interpreter lock
  object,           \* the Python object around each target
  refcnt,           \* ob_refcnt of each target object
  names,            \* targets a variable of the program refers to
  container_object, \* container_object of each target
  container_refcnt, \* ob_refcnt of each container object, 0 if there is none
  container_names,  \* containers a variable of the program refers to
  pc,               \* how far each thread is in a method
  self,             \* the target its method works on
  via,              \* the container whose spawn it is in
  py_mt             \* how far the message thread is in a callback

target_objects == <<object, refcnt, names, container_object>>
container_objects == <<container_refcnt, container_names>>
calls == <<pc, self, via>>
py_vars == <<gil, target_objects, container_objects, calls, py_mt>>
all_vars == <<vars, py_vars>>

Locations == {"python", "spawn", "spawned", "refused", "attach", "start",
              "started", "failed", "wait", "dealloc", "reclaim"}

PyTypeOK ==
  /\ TypeOK
  /\ gil \in Threads \cup {Dispatcher, NoThread}
  /\ object \in [Targets -> {"none", "object", "dealloc"}]
  /\ refcnt \in [Targets -> Nat]
  /\ names \in SUBSET Targets
  /\ container_object \in [Targets -> Containers \cup {NoContainer}]
  /\ container_refcnt \in [Containers -> Nat]
  /\ container_names \in SUBSET Containers
  /\ pc \in [Threads -> Locations]
  /\ self \in [Threads -> Targets \cup {NoTarget}]
  /\ via \in [Threads -> Containers \cup {NoContainer}]
  /\ py_mt \in {"none", "ensure", "method", "dealloc"}
  /\ \A t \in Targets : object[t] = "none" => life[t] = "free"

PyInit ==
  /\ Init
  /\ gil = NoThread
  /\ object = [t \in Targets |-> "none"]
  /\ refcnt = [t \in Targets |-> 0]
  /\ names = {}
  /\ container_object = [t \in Targets |-> NoContainer]
  /\ container_refcnt = [c \in Containers |-> 0]
  /\ container_names = {}
  /\ pc = [th \in Threads |-> "python"]
  /\ self = [th \in Threads |-> NoTarget]
  /\ via = [th \in Threads |-> NoContainer]
  /\ py_mt = "none"

At(th, where) == pc' = [pc EXCEPT ![th] = where]

(* A thread takes the GIL, or has never given it up. *)
TakeGil(th) == gil \in {NoThread, th}

(* Py_BEGIN_ALLOW_THREADS, or the end of what the interpreter ran. *)
KeptBy(th) == th               \* mutant: no Py_BEGIN_ALLOW_THREADS
ReleasedBy(th) == NoThread

(***************************************************************************)
(* Objects                                                                 *)
(***************************************************************************)

(* Py_DECREF by a thread, k times, as its method returns: the last one *)
(* enters DeleteTargetObject, which releases the GIL for ~Target.      *)
ReturnDropping(th, t, k) ==
  /\ refcnt' = [refcnt EXCEPT ![t] = @ - k]
  /\ IF refcnt[t] = k
     THEN /\ object' = [object EXCEPT ![t] = "dealloc"]
          /\ At(th, "dealloc")
          /\ self' = [self EXCEPT ![th] = t]
          /\ gil' = ReleasedBy(th)
     ELSE /\ UNCHANGED object
          /\ At(th, "python")
          /\ self' = [self EXCEPT ![th] = NoTarget]
          /\ gil' = NoThread
  /\ via' = [via EXCEPT ![th] = NoContainer]

(* CreateTargetObject: a constructed target, referred to once. *)
NewObject(t) ==
  /\ object[t] = "none"
  /\ Construct(t)
  /\ object' = [object EXCEPT ![t] = "object"]
  /\ refcnt' = [refcnt EXCEPT ![t] = 1]
  /\ container_object' = [container_object EXCEPT ![t] = NoContainer]

(* target = winc.Target() *)
NewTarget(th, t) ==
  /\ pc[th] = "python" /\ TakeGil(th)
  /\ NewObject(t)
  /\ names' = names \cup {t}
  /\ UNCHANGED <<gil, container_objects, calls, py_mt>>

(* del target *)
DropTarget(th, t) ==
  /\ pc[th] = "python" /\ TakeGil(th)
  /\ t \in names
  /\ names' = names \ {t}
  /\ ReturnDropping(th, t, 1)
  /\ UNCHANGED <<vars, container_object, container_objects, py_mt>>

(* CreateContainerObject; when GetPolicy fails nothing is left. *)
NewContainer(th, c) ==
  /\ pc[th] = "python" /\ TakeGil(th)
  /\ container_refcnt[c] = 0
  /\ container_refcnt' = [container_refcnt EXCEPT ![c] = 1]
  /\ container_names' = container_names \cup {c}
  /\ UNCHANGED <<vars, gil, target_objects, calls, py_mt>>

DropContainer(th, c) ==
  /\ pc[th] = "python" /\ TakeGil(th)
  /\ c \in container_names
  /\ container_names' = container_names \ {c}
  /\ container_refcnt' = [container_refcnt EXCEPT ![c] = @ - 1]
  /\ UNCHANGED <<vars, gil, target_objects, calls, py_mt>>

(* DeleteTargetObject by a thread: ~TargetDirector without the GIL ... *)
Destroy(th) ==
  LET t == self[th] IN
  /\ \/ /\ pc[th] = "dealloc" /\ step[t] = "idle"
        /\ BeginDestroy(t)
        /\ UNCHANGED pc
     \/ /\ pc[th] = "dealloc"
        /\ Deassociate(t)
        /\ UNCHANGED pc
     \/ /\ pc[th] = "dealloc"
        /\ Free(t)
        /\ At(th, "reclaim")
  /\ UNCHANGED <<gil, target_objects, container_objects, self, via, py_mt>>

(* ... then, with it, Py_XDECREF of the container and tp_free. *)
ContainerReleased(t) ==
  IF container_object[t] = NoContainer THEN container_refcnt
  ELSE [container_refcnt EXCEPT ![container_object[t]] = @ - 1]

Reclaimed(t) ==
  /\ container_refcnt' = ContainerReleased(t)
  /\ container_object' = [container_object EXCEPT ![t] = NoContainer]
  /\ object' = [object EXCEPT ![t] = "none"]

Reclaim(th) ==
  /\ pc[th] = "reclaim" /\ TakeGil(th)
  /\ Reclaimed(self[th])
  /\ gil' = NoThread
  /\ At(th, "python")
  /\ self' = [self EXCEPT ![th] = NoTarget]
  /\ UNCHANGED <<vars, refcnt, names, container_names, via, py_mt>>

(***************************************************************************)
(* SpawnContainerObject                                                    *)
(***************************************************************************)

(* No other thread has a method of t under way. *)
Alone(th, t) == \A other \in Threads \ {th} : self[other] # t

InUseIgnored(t) == TRUE        \* mutant: container_object is not tested
NotInUse(t) == container_object[t] = NoContainer

(* A target that was passed gets a reference for the call, a new one is    *)
(* made with one; then the GIL is released.  The call refers to its        *)
(* container.                                                              *)
SpawnBegin(th, c, t) ==
  /\ pc[th] = "python" /\ TakeGil(th)
  /\ c \in container_names
  /\ \/ /\ t \in names
        /\ NotInUse(t)
        /\ SharedTargets \/ Alone(th, t)
        /\ refcnt' = [refcnt EXCEPT ![t] = @ + 1]
        /\ UNCHANGED <<vars, object, container_object>>
     \/ NewObject(t)
  /\ At(th, "spawn")
  /\ self' = [self EXCEPT ![th] = t]
  /\ via' = [via EXCEPT ![th] = c]
  /\ container_refcnt' = [container_refcnt EXCEPT ![c] = @ + 1]
  /\ gil' = ReleasedBy(th)
  /\ UNCHANGED <<names, container_names, py_mt>>

(* Container::Spawn, which ends in Target::Assign or fails. *)
SpawnLibrary(th) ==
  /\ pc[th] = "spawn"
  /\ \/ Assign(self[th]) /\ At(th, "spawned")
     \/ UNCHANGED vars /\ At(th, "refused")
  /\ UNCHANGED <<gil, target_objects, container_objects, self, via, py_mt>>

(* The target is returned: the caller binds it, or drops the reference when *)
(* it has one already.                                                      *)
NoReference(c) == [container_refcnt EXCEPT ![c] = @ - 1] \* mutant: no Py_INCREF(cobj)
ReferenceKept(c) == container_refcnt

SpawnEnd(th) ==
  LET t == self[th] IN
  /\ pc[th] = "spawned" /\ TakeGil(th)
  /\ container_object' = [container_object EXCEPT ![t] = via[th]]
  /\ container_refcnt' = ReferenceKept(via[th])
  /\ names' = names \cup {t}
  /\ ReturnDropping(th, t, IF t \in names THEN 1 ELSE 0)
  /\ UNCHANGED <<vars, container_names, py_mt>>

SpawnRefused(th) ==
  /\ pc[th] = "refused" /\ TakeGil(th)
  /\ container_refcnt' = [container_refcnt EXCEPT ![via[th]] = @ - 1]
  /\ ReturnDropping(th, self[th], 1)
  /\ UNCHANGED <<vars, names, container_object, container_names, py_mt>>

(***************************************************************************)
(* StartTargetObject and TerminateJobTargetObject                          *)
(***************************************************************************)

(* The call's own reference, and the dispatcher's. *)
CallOnly == 1                  \* mutant: Py_INCREF(self) is missing
CallAndDispatcher == 2

StartBegin(th, t) ==
  /\ pc[th] = "python" /\ TakeGil(th)
  /\ t \in names
  /\ job[t] # NoJob
  /\ Alone(th, t)
  /\ refcnt' = [refcnt EXCEPT ![t] = @ + CallAndDispatcher]
  /\ At(th, "attach")
  /\ self' = [self EXCEPT ![th] = t]
  /\ gil' = ReleasedBy(th)
  /\ UNCHANGED <<vars, object, names, container_object, container_objects, via, py_mt>>

(* Target::Start(true) *)
StartLibrary(th) ==
  LET t == self[th] IN
  /\ \/ /\ pc[th] = "attach"
        /\ Attach(t)
        /\ At(th, "start")
     \/ /\ pc[th] = "start"
        /\ Associate(t)
        /\ At(th, IF step'[t] = "resume" THEN "start" ELSE "failed")
     \/ /\ pc[th] = "start"
        /\ Resume(t)
        /\ At(th, IF has_thread'[t] = has_thread[t] THEN "failed" ELSE "started")
  /\ UNCHANGED <<gil, target_objects, container_objects, self, via, py_mt>>

(* On success self is returned with a reference of its own, which the  *)
(* caller drops, and the call's; on failure the dispatcher's goes too. *)
KeptByDispatcher == 1          \* mutant: no Py_DECREF when Start fails
TakenBack == 2

StartEnd(th) ==
  /\ TakeGil(th)
  /\ \/ pc[th] = "started" /\ ReturnDropping(th, self[th], 1)
     \/ pc[th] = "failed" /\ ReturnDropping(th, self[th], TakenBack)
  /\ UNCHANGED <<vars, names, container_object, container_objects, py_mt>>

(* WaitForProcessTargetObject: without the GIL until the first process of   *)
(* the job has exited (WaitEnd) or the time is over.                        *)
WaitBegin(th, t) ==
  /\ pc[th] = "python" /\ TakeGil(th)
  /\ t \in names
  /\ job[t] # NoJob
  /\ Alone(th, t)
  /\ refcnt' = [refcnt EXCEPT ![t] = @ + 1]
  /\ At(th, "wait")
  /\ self' = [self EXCEPT ![th] = t]
  /\ gil' = ReleasedBy(th)
  /\ UNCHANGED <<vars, object, names, container_object, container_objects, via, py_mt>>

WaitReturns(th) ==
  /\ pc[th] = "wait" /\ TakeGil(th)
  /\ ReturnDropping(th, self[th], 1)
  /\ UNCHANGED <<vars, names, container_object, container_objects, py_mt>>

WaitEnd(th) ==
  /\ pc[th] = "wait"
  /\ 1 \notin active[job[self[th]]]
  /\ WaitReturns(th)

(* With the GIL throughout; a callback of the message thread may do it too. *)
Terminate(th, t) ==
  /\ IF th = Dispatcher THEN gil = Dispatcher ELSE pc[th] = "python" /\ TakeGil(th)
  /\ t \in names \/ (th = Dispatcher /\ Entry.key = t)
  /\ TerminateJob(t)
  /\ UNCHANGED py_vars

(***************************************************************************)
(* Callbacks: TargetDirector, on the message thread                        *)
(***************************************************************************)
py_unchanged == <<gil, target_objects, container_objects, calls>>

(* The virtual call; PyGILState_Ensure waits. *)
PyDispatch ==
  /\ Dispatch
  /\ py_mt' = "ensure"
  /\ UNCHANGED py_unchanged

EnsureGil ==
  /\ py_mt = "ensure"
  /\ gil = NoThread
  /\ gil' = Dispatcher
  /\ py_mt' = "method"
  /\ UNCHANGED <<vars, target_objects, container_objects, calls>>

(* The method has run; PyGILState_Release. *)
CallbackReturns ==
  /\ py_mt = "method"
  /\ Entry.notice.kind # "zero"
  /\ Return
  /\ gil' = NoThread
  /\ py_mt' = "none"
  /\ UNCHANGED <<target_objects, container_objects, calls>>

(* OnExitAll: the dispatcher's reference goes, and perhaps the object. *)
NotReleased(t) == refcnt       \* mutant: OnExitAll keeps the reference
DispatcherReleased(t) == [refcnt EXCEPT ![t] = @ - 1]

OnExitAll ==
  LET t == Entry.key IN
  /\ py_mt = "method"
  /\ Entry.notice.kind = "zero"
  /\ refcnt' = DispatcherReleased(t)
  /\ gil' = NoThread
  /\ IF refcnt'[t] = 0
     THEN /\ object' = [object EXCEPT ![t] = "dealloc"]
          /\ py_mt' = "dealloc"
          /\ UNCHANGED vars
     ELSE /\ Return
          /\ py_mt' = "none"
          /\ UNCHANGED object
  /\ UNCHANGED <<names, container_object, container_objects, calls>>

(* DeleteTargetObject inside OnExitAll.  ~Target runs under crit_sec, which *)
(* the thread keeps until the GIL has come back and the object is gone, so  *)
(* the two are one step.                                                    *)
ReclaimInside ==
  /\ py_mt = "dealloc"
  /\ gil = NoThread
  /\ Reclaimed(Entry.key)
  /\ ReturnDestroyed
  /\ py_mt' = "none"
  /\ UNCHANGED <<gil, refcnt, names, container_names, calls>>

-----------------------------------------------------------------------------
InCall(th) ==
  \/ Destroy(th) \/ Reclaim(th)
  \/ SpawnLibrary(th) \/ SpawnEnd(th) \/ SpawnRefused(th)
  \/ StartLibrary(th) \/ StartEnd(th)
  \/ WaitEnd(th)

Program(th) ==
  \/ \E t \in Targets : \/ NewTarget(th, t) \/ DropTarget(th, t)
                        \/ StartBegin(th, t) \/ WaitBegin(th, t) \/ Terminate(th, t)
                        \/ \E c \in Containers : SpawnBegin(th, c, t)
  \/ \E c \in Containers : NewContainer(th, c) \/ DropContainer(th, c)

PyMessageThread ==
  \/ (Dequeue \/ Discard) /\ UNCHANGED py_vars
  \/ PyDispatch \/ EnsureGil \/ CallbackReturns \/ OnExitAll \/ ReclaimInside

(* A program may stop, here with nothing on its way to it. *)
PyAtRest ==
  /\ \A th \in Threads : pc[th] = "python"
  /\ queue = <<>> /\ batch = <<>>
  /\ UNCHANGED all_vars

PyNext ==
  \/ \E th \in Threads : Program(th) \/ InCall(th) \/ WaitReturns(th)
  \/ \E t \in Targets : Terminate(Dispatcher, t)
  \/ PyMessageThread
  \/ \E j \in Jobs : System(j) /\ UNCHANGED py_vars
  \/ PyAtRest

(* Strong fairness where a lock is waited for: the GIL is handed over, and *)
(* crit_sec wakes whoever waits for it.                                    *)
PyFairness ==
  /\ SF_all_vars(PyMessageThread)
  /\ \A th \in Threads : SF_all_vars(InCall(th))
  /\ \A j \in Jobs : WF_all_vars(mode[j] = "killed" /\ System(j) /\ UNCHANGED py_vars)

PySpec == PyInit /\ [][PyNext]_all_vars /\ PyFairness
-----------------------------------------------------------------------------
(***************************************************************************)
(* Properties                                                              *)
(***************************************************************************)

(* The references to t that the program and its calls in progress hold. *)
ProgramRefs(t) ==
  (IF t \in names THEN 1 ELSE 0) +
  Cardinality({th \in Threads : self[th] = t /\ pc[th] \notin {"dealloc", "reclaim"}})

(* A Start that has not given its reference to the dispatcher yet. *)
InFlight(t) ==
  \E th \in Threads : /\ self[th] = t
                      /\ \/ pc[th] \in {"attach", "failed"}
                         \/ pc[th] = "start" /\ step[t] = "associate"

(* The job of t reports to it, and OnExitAll has not released t yet. *)
Reporting(t) ==
  /\ life[t] # "free" /\ job[t] # NoJob
  /\ port_key[job[t]] = t
  /\ SawExitAll(job[t]) =>
       py_mt \in {"ensure", "method"} /\ Entry.key = t /\ Entry.notice.kind = "zero"

(* "The event dispatcher owns the target object": while a callback is made  *)
(* the object has a reference that is neither the program's nor a call's,   *)
(* so nothing a Python thread does meanwhile deallocates it.                *)
DispatcherOwnsTarget ==
  py_mt \in {"ensure", "method"} =>
    object[Entry.key] = "object" /\ refcnt[Entry.key] > ProgramRefs(Entry.key)

(* Each count is the number of references there are, so OnExitAll and the   *)
(* error paths of start and spawn drop no reference twice and keep none: a  *)
(* target's are the program's, those of a callback and of a job that still  *)
(* reports; a container's are its names, its spawns and its targets.        *)
RefsAreCounted ==
  /\ \A t \in Targets :
       refcnt[t] = ProgramRefs(t) + (IF InFlight(t) THEN 1 ELSE 0)
                                  + (IF Reporting(t) THEN 1 ELSE 0)
  /\ \A c \in Containers :
       container_refcnt[c] = (IF c \in container_names THEN 1 ELSE 0)
         + Cardinality({th \in Threads : via[th] = c})
         + Cardinality({t \in Targets : container_object[t] = c})

(* "The lifecycle of the container must be longer than the target": from    *)
(* Assign to the end of ~Target a container that made its job exists.       *)
ContainerOutlivesTarget ==
  \A t \in Targets : life[t] # "free" /\ job[t] # NoJob =>
    \E c \in Containers :
      /\ container_refcnt[c] > 0
      /\ \/ container_object[t] = c
         \/ \E th \in Threads : self[th] = t /\ via[th] = c

(* "target already in use": a target is spawned into once. *)
SpawnedOnce ==
  [][\A t \in Targets : life[t] = "live" /\ job[t] # NoJob => job'[t] = job[t]]_all_vars

(* Whatever Python programs do, the library is used as its own clients use  *)
(* it: the binding spawns into fresh targets and destroys a listening one   *)
(* only after its OnExitAll, so what TargetEvents promises careful clients  *)
(* it promises Python programs.                                             *)
Disciplined == INSTANCE TargetEvents WITH Careful <- TRUE
KeepsDiscipline == Disciplined!Init /\ [][Disciplined!Next]_vars

(* Every method returns: none waits for ever for the GIL or for crit_sec,  *)
(* and wait_for_process no longer than the processes of a terminated job   *)
(* take to exit, whichever thread or callback has terminated it.           *)
CallsEnd ==
  \A th \in Threads :
    pc[th] # "python" /\ (pc[th] = "wait" => mode[job[self[th]]] = "killed")
      ~> pc[th] = "python"

(* A target without a name whose job has reported to it and is terminated  *)
(* is deallocated: OnExitAll comes and releases it.                         *)
Abandoned(t) ==
  /\ object[t] = "object" /\ t \notin names
  /\ job[t] # NoJob /\ mode[job[t]] = "killed" /\ posted[job[t]] # <<>>

TargetsReleased ==
  \A t \in Targets : Abandoned(t) ~> object[t] = "none" \/ t \in names
=============================================================================
