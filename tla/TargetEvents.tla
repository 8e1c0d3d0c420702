---------------------------- MODULE TargetEvents ----------------------------
(***************************************************************************)
(* The life of a Target (core/target.cc) and the delivery of the events of *)
(* its job: AssociateCompletionPort, DeassociateCompletionPort and         *)
(* MessageThread of core/job_object.cc.  Client threads construct, assign, *)
(* start and destroy targets while the message thread calls back into      *)
(* them.  A target is known to the library, and to the system, by its      *)
(* address only, and an address is used again after a destruction.         *)
(***************************************************************************)
EXTENDS JobKernel

CONSTANTS NoJob,      \* a null job_object_
          BatchMax,   \* ENTRY_PER_CALL
          Faults,     \* the system calls of Start that may fail
          Careful     \* clients follow the discipline of the tests

ASSUME TargetAssumption ==
  /\ NoJob \notin Jobs
  /\ BatchMax \in Nat \ {0}
  /\ Faults \subseteq {"associate", "resume"}
  /\ Careful \in BOOLEAN

VARIABLES
  life,       \* the object at each address
  step,       \* how far its thread is in Start or in the destructor
  job,        \* job_object_
  has_thread, \* thread_handle_ is not null
  listening,  \* listening_
  attached,   \* attached_target of the shared resource
  mt,         \* the message thread: between two entries, or calling back
  batch,      \* entries it has dequeued and not handled
  delivered   \* history: the notices of each job a callback was made for

object_vars == <<life, step, job, has_thread, listening>>
thread_vars == <<mt, batch, delivered>>
vars == <<kernel_vars, object_vars, attached, thread_vars>>

TypeOK ==
  /\ KernelTypeOK
  /\ life \in [Targets -> {"free", "live", "dying"}]
  /\ step \in [Targets -> {"idle", "associate", "resume", "deassociate", "close"}]
  /\ job \in [Targets -> Jobs \cup {NoJob}]
  /\ has_thread \in [Targets -> BOOLEAN]
  /\ listening \in [Targets -> BOOLEAN]
  /\ attached \in SUBSET Targets
  /\ mt \in {"next", "callback"}
  /\ batch \in Seq(Packet) /\ Len(batch) <= BatchMax
  /\ mt = "callback" => batch # <<>>
  /\ delivered \in [Jobs -> Seq(Notice)]

Init ==
  /\ KernelInit
  /\ life = [t \in Targets |-> "free"]
  /\ step = [t \in Targets |-> "idle"]
  /\ job = [t \in Targets |-> NoJob]
  /\ has_thread = [t \in Targets |-> FALSE]
  /\ listening = [t \in Targets |-> FALSE]
  /\ attached = {}
  /\ mt = "next"
  /\ batch = <<>>
  /\ delivered = [j \in Jobs |-> <<>>]

Goto(t, from, to) == step[t] = from /\ step' = [step EXCEPT ![t] = to]

Usable(t) == life[t] = "live" /\ step[t] = "idle"

(* The message thread holds crit_sec for as long as a callback runs. *)
Unlocked == TRUE               \* mutant: crit_sec is not taken
LockFree == mt # "callback"

SawExitAll(j) == \E n \in ToSet(delivered[j]) : n.kind = "zero"

(***************************************************************************)
(* Constructor, Assign and Start                                           *)
(***************************************************************************)
Construct(t) ==
  /\ life[t] = "free"
  /\ life' = [life EXCEPT ![t] = "live"]
  /\ job' = [job EXCEPT ![t] = NoJob]
  /\ has_thread' = [has_thread EXCEPT ![t] = FALSE]
  /\ listening' = [listening EXCEPT ![t] = FALSE]
  /\ UNCHANGED <<kernel_vars, step, attached, thread_vars>>

(* Container::Spawn hands a new job and its suspended process over; a job   *)
(* the target already had is deleted with its handle.  A careful client     *)
(* spawns into a fresh target.                                              *)
Assign(t) ==
  /\ Usable(t)
  /\ Careful => job[t] = NoJob
  /\ \E j \in Jobs :
       /\ CreateSuspended(j)
       /\ IF job[t] = NoJob
          THEN /\ mode' = [mode EXCEPT ![j] = "suspended"]
               /\ UNCHANGED port_key
          ELSE /\ mode' = [Killed(job[t]) EXCEPT ![j] = "suspended"]
               /\ port_key' \in Orphaned(job[t])
       /\ job' = [job EXCEPT ![t] = j]
  /\ has_thread' = [has_thread EXCEPT ![t] = TRUE]
  /\ UNCHANGED <<queue, posted, life, step, listening, attached, thread_vars>>

(* Start(true): the target enters attached_target under the lock ... *)
Inserted(t) == attached \cup {t}

Attach(t) ==
  /\ Usable(t)
  /\ job[t] # NoJob
  /\ LockFree
  /\ attached' = Inserted(t)
  /\ Goto(t, "idle", "associate")
  /\ UNCHANGED <<kernel_vars, life, job, has_thread, listening, thread_vars>>

(* ... then the job is told to post to the port; on failure Start returns  *)
(* and the entry stays.  The second association of a job always fails.     *)
NeverListening(t) == listening \* mutant: listening_ is not set
NowListening(t) == [listening EXCEPT ![t] = TRUE]

Associate(t) ==
  /\ \/ /\ Goto(t, "associate", "resume")
        /\ AssociatePort(job[t], t)
        /\ listening' = NowListening(t)
     \/ /\ Goto(t, "associate", "idle")
        /\ port_key[job[t]] # NoTarget \/ "associate" \in Faults
        /\ UNCHANGED <<port_key, queue, posted, listening>>
  /\ UNCHANGED <<mode, active, born, life, job, has_thread, attached, thread_vars>>

(* Start(false) *)
StartUnheard(t) ==
  /\ Usable(t)
  /\ job[t] # NoJob
  /\ Goto(t, "idle", "resume")
  /\ UNCHANGED <<kernel_vars, life, job, has_thread, listening, attached,
                 thread_vars>>

(* ResumeThread; a handle that was reset, or a fault, makes Start fail. *)
Resume(t) ==
  /\ Goto(t, "resume", "idle")
  /\ \/ /\ has_thread[t]
        /\ has_thread' = [has_thread EXCEPT ![t] = FALSE]
        /\ mode' = [mode EXCEPT ![job[t]] = IF @ = "suspended" THEN "running" ELSE @]
     \/ /\ ~has_thread[t] \/ "resume" \in Faults
        /\ UNCHANGED <<has_thread, mode>>
  /\ UNCHANGED <<active, born, port_key, queue, posted, life, job, listening,
                 attached, thread_vars>>

(* TerminateJob only reads job_object_: any thread may call it. *)
TerminateJob(t) ==
  /\ life[t] = "live"
  /\ job[t] # NoJob
  /\ mode' = Killed(job[t])
  /\ UNCHANGED <<active, born, port_key, queue, posted, object_vars, attached,
                 thread_vars>>

(***************************************************************************)
(* Destructor                                                              *)
(***************************************************************************)

(* A careful client destroys a listening target after its OnExitAll, which *)
(* may still be running.                                                   *)
MayDestroy(t) ==
  Careful /\ job[t] # NoJob => (port_key[job[t]] = t => SawExitAll(job[t]))

(* The destructor of the client's class has run: from here on a callback   *)
(* reaches the empty ones of Target.                                       *)
BeginDestroy(t) ==
  /\ life[t] = "live"
  /\ MayDestroy(t)
  /\ Goto(t, "idle", IF listening[t] THEN "deassociate" ELSE "close")
  /\ life' = [life EXCEPT ![t] = "dying"]
  /\ UNCHANGED <<kernel_vars, job, has_thread, listening, attached, thread_vars>>

Erased(t) == attached \ {t}

Deassociate(t) ==
  /\ LockFree
  /\ Goto(t, "deassociate", "close")
  /\ attached' = Erased(t)
  /\ UNCHANGED <<kernel_vars, life, job, has_thread, listening, thread_vars>>

(* The members go, the job handle among them, and the memory is free. *)
NotKilled(t) ==                \* mutant: the job lacks KILL_ON_JOB_CLOSE
  UNCHANGED <<mode, port_key>>
CloseJob(t) ==
  IF job[t] = NoJob
  THEN UNCHANGED <<mode, port_key>>
  ELSE mode' = Killed(job[t]) /\ port_key' \in Orphaned(job[t])

Free(t) ==
  /\ Goto(t, "close", "idle")
  /\ life' = [life EXCEPT ![t] = "free"]
  /\ CloseJob(t)
  /\ UNCHANGED <<active, born, queue, posted, job, has_thread, listening,
                 attached, thread_vars>>

(***************************************************************************)
(* MessageThread                                                           *)
(***************************************************************************)
Entry == Head(batch)

(* GetQueuedCompletionStatusEx returns some of what is queued, in order, no *)
(* more than the array entries holds.                                       *)
OneTooMany == 1..(BatchMax + 1) \* mutant: the count exceeds the array
ActualCount == 1..BatchMax

Dequeue ==
  /\ mt = "next"
  /\ batch = <<>>
  /\ \E n \in ActualCount :
       /\ n <= Len(queue)
       /\ batch' = SubSeq(queue, 1, n)
       /\ queue' = SubSeq(queue, n + 1, Len(queue))
  /\ UNCHANGED <<mode, active, born, port_key, posted, object_vars, attached,
                 mt, delivered>>

(* The switch: OnNewProcess, OnExitProcess, OnExitAll, OnActiveProcessLimit *)
(* and OnMemoryLimit; other messages have no callback.                      *)
NoMemoryCase(n) ==             \* mutant: JOB_OBJECT_MSG_JOB_MEMORY_LIMIT left out
  n.kind \notin {"time_limit", "memory_limit"}
HasCallback(n) == n.kind # "time_limit"

Trusted(t) == TRUE             \* mutant: the key is not looked up
Found(t) == t \in attached

OneEntryOnly == <<>>           \* mutant: the loop handles the first entry
RestOfBatch == Tail(batch)

(* Enter crit_sec, find the target, call it. *)
Dispatch ==
  /\ mt = "next"
  /\ batch # <<>>
  /\ Found(Entry.key)
  /\ HasCallback(Entry.notice)
  /\ mt' = "callback"
  /\ delivered' = [delivered EXCEPT ![Entry.job] = Append(@, Entry.notice)]
  /\ UNCHANGED <<kernel_vars, object_vars, attached, batch>>

(* Nobody to call, or nothing to call. *)
Discard ==
  /\ mt = "next"
  /\ batch # <<>>
  /\ ~(Found(Entry.key) /\ HasCallback(Entry.notice))
  /\ batch' = RestOfBatch
  /\ UNCHANGED <<kernel_vars, object_vars, attached, mt, delivered>>

(* The callback returns and crit_sec is left. *)
NeverLeft ==                   \* mutant: no LeaveCriticalSection
  mt = "callback" /\ UNCHANGED vars
Return ==
  /\ mt = "callback"
  /\ mt' = "next"
  /\ batch' = RestOfBatch
  /\ UNCHANGED <<kernel_vars, object_vars, attached, delivered>>

(* OnExitAll of the Python binding releases the last reference: the target *)
(* is destroyed by the message thread, which owns crit_sec already.        *)
ReturnDestroyed ==
  LET t == Entry.key IN
  /\ mt = "callback"
  /\ Entry.notice.kind = "zero"
  /\ Usable(t)
  /\ MayDestroy(t)
  /\ life' = [life EXCEPT ![t] = "free"]
  /\ attached' = IF listening[t] THEN Erased(t) ELSE attached
  /\ CloseJob(t)
  /\ mt' = "next"
  /\ batch' = RestOfBatch
  /\ UNCHANGED <<active, born, queue, posted, step, job, has_thread, listening,
                 delivered>>

-----------------------------------------------------------------------------
Client(t) ==
  \/ Construct(t) \/ Assign(t) \/ Attach(t) \/ Associate(t) \/ StartUnheard(t)
  \/ Resume(t) \/ TerminateJob(t) \/ BeginDestroy(t) \/ Deassociate(t) \/ Free(t)

System(j) ==
  /\ Fork(j) \/ HitLimit(j) \/ Exit(j)
  /\ UNCHANGED <<object_vars, attached, thread_vars>>

MessageThread == Dequeue \/ Dispatch \/ Discard \/ Return \/ ReturnDestroyed

(* Where everything may come to rest: no call is in progress, no notice is *)
(* on its way and no process can still run.                                *)
AtRest ==
  /\ \A t \in Targets : step[t] = "idle"
  /\ \A j \in Jobs : mode[j] \in {"running", "killed"} => active[j] = {}
  /\ queue = <<>> /\ batch = <<>>
  /\ UNCHANGED vars

Next ==
  \/ \E t \in Targets : Client(t)
  \/ \E j \in Jobs : System(j)
  \/ MessageThread
  \/ AtRest

(* The threads inside the library go on, callbacks return, and the system  *)
(* kills what it was told to kill; nobody is bound to make another call.   *)
Fairness ==
  /\ WF_vars(MessageThread)
  /\ \A t \in Targets : /\ WF_vars(Associate(t) \/ Resume(t))
                        /\ WF_vars(Deassociate(t))
                        /\ WF_vars(Free(t))
  /\ \A j \in Jobs : WF_vars(mode[j] = "killed" /\ System(j))

Spec == Init /\ [][Next]_vars /\ Fairness
-----------------------------------------------------------------------------
(***************************************************************************)
(* Properties                                                              *)
(***************************************************************************)

(* The target t listens to its job j and has not left attached_target. *)
ListensTo(t, j) ==
  /\ job[t] = j /\ j # NoJob
  /\ port_key[j] = t
  /\ life[t] # "free" /\ step[t] # "close"

(* MessageThread never calls into memory that ~Target has given back, and  *)
(* ~Target does not finish while a callback on the object is running.      *)
CallbackOnLiveObject == mt = "callback" => life[Entry.key] # "free"

(* What a target is told is about its own job: the key of a packet is only *)
(* an address, and a packet may outlive the target it was meant for.       *)
NoCrossDelivery == mt = "callback" => job[Entry.key] = Entry.job

(* For a target that listens, every notice of its job that has a callback   *)
(* was delivered, once and in order, or is still on its way: none is lost   *)
(* between Start, which inserts the target before it associates the port,   *)
(* and the destructor.                                                      *)
Undelivered == IF mt = "callback" THEN Tail(batch) \o queue ELSE batch \o queue

Notices(packets) == [i \in DOMAIN packets |-> packets[i].notice]
Coming(j) == Notices(Only(Undelivered, {p \in Packet : p.job = j}))
Heard == {n \in Notice : n.kind # "time_limit"}

NothingLost ==
  \A t \in Targets, j \in Jobs : ListensTo(t, j) =>
    Only(posted[j], Heard) = delivered[j] \o Only(Coming(j), Heard)

(* The callbacks of each job are a story a client can follow: OnExitAll is  *)
(* the last, and comes when every process announced by OnNewProcess has     *)
(* been reported by OnExitProcess; clients release the target there.        *)
Stream == INSTANCE EventStream WITH Pids <- 1..MaxProcs, told <- delivered
ImplementsStream == Stream!Spec

(* No address stays in attached_target after its object is gone. *)
AttachedIsLive == \A t \in attached : life[t] # "free"

(* A listening target whose job is terminated gets its OnExitAll, or is *)
(* destroyed first.                                                     *)
ExitAllDelivered ==
  \A t \in Targets, j \in Jobs :
    ListensTo(t, j) /\ posted[j] # <<>> /\ mode[j] = "killed"
      ~> SawExitAll(j) \/ ~ListensTo(t, j)

(* A destructor that has begun ends: it does not wait for ever for the lock *)
(* that callbacks are made under.                                           *)
DestructionEnds ==
  \A t \in Targets : life[t] = "dying" ~> life[t] = "free"
=============================================================================
