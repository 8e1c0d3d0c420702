--------------------------- MODULE SharedResource ---------------------------
(***************************************************************************)
(* JobObjectSharedResource of core/job_object.cc: the lock-free creation   *)
(* of the global g_shared and the double-checked creation of its message   *)
(* thread.  Every call of AssociateCompletionPort runs both, on the thread *)
(* of its caller; one step here is one access to memory other threads see. *)
(* The heap may give a deleted object's address to a later `new'.          *)
(***************************************************************************)
CONSTANTS Calls,       \* calls of AssociateCompletionPort, each made once
          Resources,   \* addresses a JobObjectSharedResource can be allocated at
          NoResource,  \* nullptr
          NoCall       \* crit_sec is free

ASSUME SentinelAssumption == NoResource \notin Resources /\ NoCall \notin Calls

VARIABLES
  g_shared,        \* the global pointer
  heap,            \* addresses that hold an allocated shared resource
  completion_port, \* those whose completion port is open
  thread_created,  \* those whose thread_created flag is set
  crit_sec,        \* who holds each object's critical section
  message_thread,  \* <<resource, call>>: a MessageThread runs on resource
  pc,              \* where each call is
  sr,              \* its local pointer sr
  loser            \* the object it allocated in vain and has to delete

vars == <<g_shared, heap, completion_port, thread_created, crit_sec,
          message_thread, pc, sr, loser>>

Null == Resources \cup {NoResource}

Locations == {"load", "new", "publish", "delete", "check", "enter", "recheck",
              "mark", "leave", "bail", "served", "failed"}

Returned == {"served", "failed"}

TypeOK ==
  /\ g_shared \in Null
  /\ heap \in SUBSET Resources
  /\ completion_port \in SUBSET heap
  /\ thread_created \in SUBSET Resources
  /\ crit_sec \in [Resources -> Calls \cup {NoCall}]
  /\ message_thread \in SUBSET (Resources \X Calls)
  /\ pc \in [Calls -> Locations]
  /\ sr \in [Calls -> Null]
  /\ loser \in [Calls -> Null]

Init ==
  /\ g_shared = NoResource
  /\ heap = {}
  /\ completion_port = {}
  /\ thread_created = {}
  /\ crit_sec = [r \in Resources |-> NoCall]
  /\ message_thread = {}
  /\ pc = [c \in Calls |-> "load"]
  /\ sr = [c \in Calls |-> NoResource]
  /\ loser = [c \in Calls |-> NoResource]

Goto(c, from, to) == pc[c] = from /\ pc' = [pc EXCEPT ![c] = to]

(***************************************************************************)
(* InitJobObjectSharedResource                                             *)
(***************************************************************************)

(* sr = g_shared, a plain read. *)
LoadGlobal(c) ==
  /\ Goto(c, "load", IF g_shared = NoResource THEN "new" ELSE "check")
  /\ sr' = [sr EXCEPT ![c] = g_shared]
  /\ UNCHANGED <<g_shared, heap, completion_port, thread_created, crit_sec,
                 message_thread, loser>>

(* new JobObjectSharedResource, then Init, which opens the port.  When the *)
(* port cannot be opened the call returns the error and the object stays   *)
(* allocated.                                                              *)
NewResource(c) ==
  \E r \in Resources \ heap :
    /\ heap' = heap \cup {r}
    /\ sr' = [sr EXCEPT ![c] = r]
    /\ thread_created' = thread_created \ {r}
    /\ crit_sec' = [crit_sec EXCEPT ![r] = NoCall]
    /\ \/ /\ Goto(c, "new", "publish")
          /\ completion_port' = completion_port \cup {r}
       \/ /\ Goto(c, "new", "failed")
          /\ UNCHANGED completion_port
    /\ UNCHANGED <<g_shared, message_thread, loser>>

(* InterlockedCompareExchangePointer: install the new object or take the *)
(* one another call has installed.                                       *)
InstallUnchecked == TRUE       \* mutant: a plain store
MayInstall == g_shared = NoResource

KeepOwn(c) == sr[c]            \* mutant: *out_sr = sr after the delete
Original(c) == g_shared

Publish(c) ==
  /\ \/ /\ MayInstall
        /\ Goto(c, "publish", "check")
        /\ g_shared' = sr[c]
        /\ UNCHANGED <<sr, loser>>
     \/ /\ ~MayInstall
        /\ Goto(c, "publish", "delete")
        /\ sr' = [sr EXCEPT ![c] = Original(c)]
        /\ loser' = [loser EXCEPT ![c] = sr[c]]
        /\ UNCHANGED g_shared
  /\ UNCHANGED <<heap, completion_port, thread_created, crit_sec, message_thread>>

(* delete sr: the destructor closes the port. *)
PortLeftOpen(r) == {}          \* mutant: a destructor that closes nothing
ClosedWith(r) == {r}

NothingToDelete(c) == {}       \* mutant: the loser is forgotten
ToDelete(c) == {loser[c]}

DeleteLoser(c) ==
  /\ Goto(c, "delete", "check")
  /\ heap' = heap \ ToDelete(c)
  /\ completion_port' = completion_port \ UNION {ClosedWith(r) : r \in ToDelete(c)}
  /\ loser' = [loser EXCEPT ![c] = NoResource]
  /\ UNCHANGED <<g_shared, thread_created, crit_sec, message_thread, sr>>

(***************************************************************************)
(* JobObjectSharedResource::GuardCompletionPortThread                      *)
(***************************************************************************)

(* The first test of thread_created, outside the lock. *)
ThreadCreated(c) == sr[c] \in thread_created

CheckThread(c) ==
  /\ Goto(c, "check", IF ThreadCreated(c) THEN "served" ELSE "enter")
  /\ UNCHANGED <<g_shared, heap, completion_port, thread_created, crit_sec,
                 message_thread, sr, loser>>

EnterLock(c) ==
  /\ Goto(c, "enter", "recheck")
  /\ crit_sec[sr[c]] = NoCall
  /\ crit_sec' = [crit_sec EXCEPT ![sr[c]] = c]
  /\ UNCHANGED <<g_shared, heap, completion_port, thread_created,
                 message_thread, sr, loser>>

(* The second test, and CreateThread when it is still needed.  When it *)
(* fails the error is returned and the next call tries again.          *)
AlwaysCreate(c) == TRUE        \* mutant: no second test under the lock
StillNeeded(c) == sr[c] \notin thread_created

IgnoreFailure == "leave"       \* mutant: CreateThread's result is not tested
OnCreateFailure == "bail"

RecheckThread(c) ==
  /\ \/ /\ ~StillNeeded(c)
        /\ Goto(c, "recheck", "leave")
        /\ UNCHANGED message_thread
     \/ /\ StillNeeded(c)
        /\ Goto(c, "recheck", "mark")
        /\ message_thread' = message_thread \cup {<<sr[c], c>>}
     \/ /\ StillNeeded(c)
        /\ Goto(c, "recheck", OnCreateFailure)
        /\ UNCHANGED message_thread
  /\ UNCHANGED <<g_shared, heap, completion_port, thread_created, crit_sec,
                 sr, loser>>

MarkCreated(c) ==
  /\ Goto(c, "mark", "leave")
  /\ thread_created' = thread_created \cup {sr[c]}
  /\ UNCHANGED <<g_shared, heap, completion_port, crit_sec, message_thread,
                 sr, loser>>

KeptOnFailure(c) ==            \* mutant: the error path does not leave crit_sec
  IF pc[c] = "bail" THEN crit_sec ELSE [crit_sec EXCEPT ![sr[c]] = NoCall]
Released(c) == [crit_sec EXCEPT ![sr[c]] = NoCall]

LeaveLock(c) ==
  /\ Goto(c, "leave", "served") \/ Goto(c, "bail", "failed")
  /\ crit_sec' = Released(c)
  /\ UNCHANGED <<g_shared, heap, completion_port, thread_created,
                 message_thread, sr, loser>>

-----------------------------------------------------------------------------
Step(c) ==
  \/ LoadGlobal(c) \/ NewResource(c) \/ Publish(c) \/ DeleteLoser(c)
  \/ CheckThread(c) \/ EnterLock(c) \/ RecheckThread(c) \/ MarkCreated(c)
  \/ LeaveLock(c)

(* Every call has returned: the only state the protocol may stop in. *)
AllReturned == (\A c \in Calls : pc[c] \in Returned) /\ UNCHANGED vars

Next == (\E c \in Calls : Step(c)) \/ AllReturned

(* Each call runs on a thread of its own that the scheduler keeps running. *)
Fairness == \A c \in Calls : WF_vars(Step(c))

Spec == Init /\ [][Next]_vars /\ Fairness
-----------------------------------------------------------------------------
(***************************************************************************)
(* Properties                                                              *)
(***************************************************************************)

(* The calls that work on the object they have got from                     *)
(* InitJobObjectSharedResource.                                             *)
Using(c) == pc[c] \in {"check", "enter", "recheck", "mark", "leave", "bail", "served"}

(* A call past InitJobObjectSharedResource works on the object every other *)
(* one works on, and that object is allocated with its port open: losing   *)
(* the race to install g_shared must not leave a call with the object it   *)
(* deletes.                                                                *)
SharedIsAlive ==
  \A c \in Calls : Using(c) =>
    /\ sr[c] = g_shared
    /\ g_shared \in heap \cap completion_port

(* However the calls interleave, a single message thread is ever created,  *)
(* and it drains the port of g_shared: two would deliver the events of one *)
(* target concurrently and out of order.  A call that returned success has *)
(* one draining its port: the unlocked test must not succeed too early.    *)
OneMessageThread ==
  /\ \A m, n \in message_thread : m = n /\ m[1] = g_shared
  /\ \A c \in Calls : pc[c] = "served" => \E d \in Calls : <<sr[c], d>> \in message_thread

(* Every open completion port is that of g_shared, or belongs to a call    *)
(* that is about to install or to delete it: no race leaks a port.         *)
NoPortLeaked ==
  \A r \in completion_port :
    \/ r = g_shared
    \/ \E c \in Calls : \/ pc[c] = "publish" /\ sr[c] = r
                        \/ pc[c] = "delete" /\ loser[c] = r

(* Once installed g_shared never changes and its thread is never forgotten: *)
(* DeassociateCompletionPort and MessageThread rely on it without a lock.   *)
GlobalIsStable ==
  [][g_shared # NoResource =>
       /\ g_shared' = g_shared
       /\ g_shared \in thread_created => g_shared \in thread_created']_vars

(* Every call returns, whoever wins the races and whichever system calls   *)
(* fail: nobody is left waiting for crit_sec.                              *)
EveryCallReturns == \A c \in Calls : <>(pc[c] \in Returned)

(***************************************************************************)
(* The abstract service: the port is the address of the shared resource.   *)
(***************************************************************************)
AnswerOf(c) ==
  [outcome |-> IF pc[c] \in Returned THEN pc[c] ELSE "pending",
   port    |-> IF pc[c] = "served" THEN sr[c] ELSE NoResource]

Service == INSTANCE CompletionService
             WITH Ports <- Resources, NoPort <- NoResource,
                  port <- g_shared, dispatchers <- message_thread,
                  answer <- [c \in Calls |-> AnswerOf(c)]

(* SharedResource implements CompletionService. *)
ImplementsService == Service!Spec
=============================================================================
