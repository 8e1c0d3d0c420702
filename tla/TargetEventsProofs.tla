------------------------ MODULE TargetEventsProofs ------------------------
(***************************************************************************)
(* Theorems of TargetEvents, for any number of targets and jobs and any    *)
(* client, on a system whose associations succeed.  Inv ties three things: *)
(* who is in attached_target, who has listening_ set, and which job's port *)
(* has a key; the destructor trusts the second to know about the first.    *)
(* The second part is on what the targets of a careful client are told,    *)
(* whichever calls fail.                                                   *)
(***************************************************************************)
EXTENDS TargetEvents, FilteringProofs

Shape ==
  /\ mode \in [Jobs -> {"unborn", "suspended", "running", "killed"}]
  /\ port_key \in [Jobs -> Targets \cup {NoTarget}]
  /\ life \in [Targets -> {"free", "live", "dying"}]
  /\ step \in [Targets -> {"idle", "associate", "resume", "deassociate", "close"}]
  /\ job \in [Targets -> Jobs \cup {NoJob}]
  /\ listening \in [Targets -> BOOLEAN]
  /\ attached \in SUBSET Targets

(* Start runs on a live object, the destructor on a dying one. *)
StepFollowsLife ==
  \A t \in Targets :
    /\ step[t] \in {"associate", "resume"} => life[t] = "live" /\ job[t] # NoJob
    /\ step[t] \in {"deassociate", "close"} <=> life[t] = "dying"

(* A job has one owner, and only a job that has had one has a port. *)
JobsAreOwned ==
  /\ \A t \in Targets : job[t] # NoJob => mode[job[t]] # "unborn"
  /\ \A t, u \in Targets :
       /\ life[t] # "free" /\ life[u] # "free"
       /\ job[t] = job[u] /\ job[t] # NoJob
       => t = u
  /\ \A j \in Jobs : mode[j] = "unborn" => port_key[j] = NoTarget

(* An owner whose job has been associated knows that it listens, so that *)
(* the association which fails for having been made before does no harm. *)
AssociatedIsListening ==
  \A t \in Targets :
    life[t] # "free" /\ job[t] # NoJob /\ port_key[job[t]] # NoTarget => listening[t]

(* Whoever is in attached_target will take itself out of it. *)
AttachedWillErase ==
  \A t \in attached :
    /\ life[t] # "free" /\ step[t] # "close"
    /\ listening[t] \/ step[t] = "associate"

(* The target that is called back stays in attached_target meanwhile. *)
CalledIsAttached == mt = "callback" => Entry.key \in attached

Inv == /\ Shape
       /\ StepFollowsLife
       /\ JobsAreOwned
       /\ AssociatedIsListening
       /\ AttachedWillErase
       /\ CalledIsAttached

-----------------------------------------------------------------------------
(* Inv holds initially. *)
LEMMA InvInit == Init => Inv
  BY DEF Init, KernelInit, Inv, Shape, StepFollowsLife, JobsAreOwned,
         AssociatedIsListening, AttachedWillErase, CalledIsAttached

(* A client's step on target t preserves Inv. *)
LEMMA ClientStep ==
  ASSUME "associate" \notin Faults, Inv, NEW t \in Targets, Client(t)
  PROVE  Inv'
<1> USE KernelAssumption, TargetAssumption
        DEF Inv, Shape, Goto, Usable, LockFree, kernel_vars, object_vars,
            thread_vars, Entry
<1>1. CASE Construct(t)
  BY <1>1 DEF Construct, StepFollowsLife, JobsAreOwned, AssociatedIsListening,
              AttachedWillErase, CalledIsAttached
<1>2. CASE Assign(t)
  BY <1>2 DEF Assign, CreateSuspended, Killed, Orphaned, StepFollowsLife,
              JobsAreOwned, AssociatedIsListening, AttachedWillErase,
              CalledIsAttached
<1>3. CASE Attach(t)
  BY <1>3 DEF Attach, Inserted, StepFollowsLife, JobsAreOwned,
              AssociatedIsListening, AttachedWillErase, CalledIsAttached
<1>4. CASE Associate(t)
  <2>1. step[t] = "associate" /\ life[t] = "live" /\ job[t] \in Jobs
    BY <1>4 DEF Associate, StepFollowsLife
  <2>2. CASE step' = [step EXCEPT ![t] = "resume"]
    <3>1. /\ port_key[job[t]] = NoTarget
          /\ port_key' = [port_key EXCEPT ![job[t]] = t]
          /\ listening' = [listening EXCEPT ![t] = TRUE]
      BY <1>4, <2>1, <2>2 DEF Associate, AssociatePort, NowListening
    <3>2. UNCHANGED <<mode, life, job, attached, mt, batch>>
      BY <1>4 DEF Associate
    <3>3. Shape' /\ StepFollowsLife' /\ JobsAreOwned'
      BY <2>1, <2>2, <3>1, <3>2 DEF StepFollowsLife, JobsAreOwned
    <3>4. AssociatedIsListening'
      BY <2>1, <3>1, <3>2 DEF AssociatedIsListening, JobsAreOwned
    <3>5. AttachedWillErase' /\ CalledIsAttached'
      BY <2>1, <2>2, <3>1, <3>2 DEF AttachedWillErase, CalledIsAttached
    <3> QED BY <3>3, <3>4, <3>5
  <2>3. CASE step' = [step EXCEPT ![t] = "idle"]
    <3>1. /\ port_key[job[t]] # NoTarget
          /\ UNCHANGED <<port_key, listening, mode, life, job, attached, mt, batch>>
      BY <1>4, <2>1, <2>3 DEF Associate
    <3>2. listening[t]
      BY <2>1, <3>1 DEF AssociatedIsListening
    <3> QED BY <2>1, <2>3, <3>1, <3>2 DEF StepFollowsLife, JobsAreOwned,
                AssociatedIsListening, AttachedWillErase, CalledIsAttached
  <2> QED BY <1>4, <2>2, <2>3 DEF Associate
<1>5. CASE StartUnheard(t)
  BY <1>5 DEF StartUnheard, StepFollowsLife, JobsAreOwned,
              AssociatedIsListening, AttachedWillErase, CalledIsAttached
<1>6. CASE Resume(t)
  BY <1>6 DEF Resume, StepFollowsLife, JobsAreOwned,
              AssociatedIsListening, AttachedWillErase, CalledIsAttached
<1>7. CASE TerminateJob(t)
  BY <1>7 DEF TerminateJob, Killed, StepFollowsLife, JobsAreOwned,
              AssociatedIsListening, AttachedWillErase, CalledIsAttached
<1>8. CASE BeginDestroy(t)
  BY <1>8 DEF BeginDestroy, StepFollowsLife, JobsAreOwned,
              AssociatedIsListening, AttachedWillErase, CalledIsAttached
<1>9. CASE Deassociate(t)
  BY <1>9 DEF Deassociate, Erased, StepFollowsLife, JobsAreOwned,
              AssociatedIsListening, AttachedWillErase, CalledIsAttached
<1>10. CASE Free(t)
  BY <1>10 DEF Free, CloseJob, Killed, Orphaned, StepFollowsLife, JobsAreOwned,
               AssociatedIsListening, AttachedWillErase, CalledIsAttached
<1> QED BY <1>1, <1>2, <1>3, <1>4, <1>5, <1>6, <1>7, <1>8, <1>9, <1>10 DEF Client

(* A step of the system preserves Inv. *)
LEMMA SystemStep == ASSUME Inv, NEW j \in Jobs, System(j) PROVE Inv'
<1> USE DEF Inv, Shape, object_vars, thread_vars, Entry
<1>1. /\ UNCHANGED <<port_key, object_vars, attached, thread_vars>>
      /\ UNCHANGED mode
  BY DEF System, Fork, HitLimit, Exit
<1> QED
  BY <1>1 DEF StepFollowsLife, JobsAreOwned, AssociatedIsListening,
              AttachedWillErase, CalledIsAttached

(* A step of the message thread preserves Inv: the target that is destroyed *)
(* inside its own OnExitAll leaves attached_target too, for it listens.     *)
LEMMA ThreadStep == ASSUME Inv, MessageThread PROVE Inv'
<1> USE DEF Inv, Shape, Goto, Usable, kernel_vars, object_vars, thread_vars
<1>1. CASE Dequeue
  BY <1>1 DEF Dequeue, StepFollowsLife, JobsAreOwned, AssociatedIsListening,
              AttachedWillErase, CalledIsAttached
<1>2. CASE Dispatch
  BY <1>2 DEF Dispatch, Found, Entry, StepFollowsLife, JobsAreOwned,
              AssociatedIsListening, AttachedWillErase, CalledIsAttached
<1>3. CASE Discard
  BY <1>3 DEF Discard, StepFollowsLife, JobsAreOwned, AssociatedIsListening,
              AttachedWillErase, CalledIsAttached
<1>4. CASE Return
  BY <1>4 DEF Return, StepFollowsLife, JobsAreOwned, AssociatedIsListening,
              AttachedWillErase, CalledIsAttached
<1>5. CASE ReturnDestroyed
  <2> DEFINE t == Entry.key
  <2>1. t \in attached /\ life[t] = "live" /\ step[t] = "idle" /\ listening[t]
    BY <1>5 DEF ReturnDestroyed, CalledIsAttached, AttachedWillErase
  <2>2. /\ life' = [life EXCEPT ![t] = "free"]
        /\ attached' = attached \ {t}
        /\ mt' = "next"
        /\ UNCHANGED <<step, job, listening>>
    BY <1>5, <2>1 DEF ReturnDestroyed, Erased
  <2>3. /\ mode' = mode \/ (job[t] \in Jobs /\ mode' = [mode EXCEPT ![job[t]] = "killed"])
        /\ \/ port_key' = port_key
           \/ job[t] \in Jobs /\ port_key' = [port_key EXCEPT ![job[t]] = NoTarget]
    BY <1>5, <2>1 DEF ReturnDestroyed, CloseJob, Killed, Orphaned
  <2> HIDE DEF t
  <2> QED
    BY <2>1, <2>2, <2>3 DEF StepFollowsLife, JobsAreOwned, AssociatedIsListening,
       AttachedWillErase, CalledIsAttached
<1> QED BY <1>1, <1>2, <1>3, <1>4, <1>5 DEF MessageThread

(* Inv is inductive. *)
LEMMA InvStep ==
  ASSUME "associate" \notin Faults, Inv, [Next]_vars PROVE Inv'
<1>1. CASE UNCHANGED vars
  BY <1>1 DEF vars, kernel_vars, object_vars, thread_vars, Inv, Shape, Entry,
              StepFollowsLife, JobsAreOwned, AssociatedIsListening,
              AttachedWillErase, CalledIsAttached
<1> QED BY <1>1, ClientStep, SystemStep, ThreadStep DEF Next, AtRest

-----------------------------------------------------------------------------
(* No address stays in attached_target after its object is gone, as long as *)
(* no association fails (core/target.cc:39, core/job_object.cc:169-188).    *)
THEOREM AttachedLive ==
  "associate" \notin Faults => (Spec => []AttachedIsLive)
<1> SUFFICES ASSUME "associate" \notin Faults
             PROVE  Spec => []AttachedIsLive
  OBVIOUS
<1>1. Inv => AttachedIsLive
  BY DEF Inv, AttachedWillErase, AttachedIsLive
<1>2. Inv /\ [Next]_vars => Inv'
  BY InvStep
<1> QED BY <1>1, <1>2, InvInit, PTL DEF Spec

(* On such a system MessageThread never calls into memory that ~Target has  *)
(* given back, whatever clients do and in whatever order: the lock that is  *)
(* kept across the callback and the look-up in attached_target suffice.     *)
THEOREM CallbackLive ==
  "associate" \notin Faults => (Spec => []CallbackOnLiveObject)
<1> SUFFICES ASSUME "associate" \notin Faults
             PROVE  Spec => []CallbackOnLiveObject
  OBVIOUS
<1>1. Inv => CallbackOnLiveObject
  BY DEF Inv, AttachedWillErase, CalledIsAttached, CallbackOnLiveObject
<1>2. Inv /\ [Next]_vars => Inv'
  BY InvStep
<1> QED BY <1>1, <1>2, InvInit, PTL DEF Spec

-----------------------------------------------------------------------------
(***************************************************************************)
(* Types, whatever fails and whatever clients do                           *)
(***************************************************************************)
Base == TypeOK /\ StepFollowsLife

(* What is queued and recorded when job j posts notices under a key. *)
Queued(j, key, notices) ==
  /\ queue' = queue \o Packets(key, j, notices)
  /\ posted' = [posted EXCEPT ![j] = @ \o notices]

(* What is posted about a process is a notice.                              *)
LEMMA AboutType ==
  ASSUME NEW kind \in {"new", "exit", "zero"} \cup Limits, NEW p \in 0 .. MaxProcs
  PROVE  About(kind, p) \in Notice
  BY DEF About, Notice

(* Each notice becomes a packet of its own, in order.                       *)
LEMMA PacketsType ==
  ASSUME NEW key \in Targets, NEW j \in Jobs, NEW ns \in Seq(Notice)
  PROVE  /\ Packets(key, j, ns) \in Seq(Packet)
         /\ Len(Packets(key, j, ns)) = Len(ns)
         /\ \A i \in 1 .. Len(ns) :
              Packets(key, j, ns)[i] = [key |-> key, job |-> j, notice |-> ns[i]]
<1>1. \A i \in 1 .. Len(ns) : [key |-> key, job |-> j, notice |-> ns[i]] \in Packet
  BY DEF Packet
<1> QED BY <1>1 DEF Packets

(* The port queues packets, and a job posts notices.                        *)
LEMMA QueuedType ==
  ASSUME TypeOK, NEW key \in Targets, NEW j \in Jobs, NEW ns \in Seq(Notice),
         Queued(j, key, ns)
  PROVE  queue' \in Seq(Packet) /\ posted' \in [Jobs -> Seq(Notice)]
<1>1. Packets(key, j, ns) \in Seq(Packet)
  BY PacketsType
<1>2. queue \in Seq(Packet) /\ posted \in [Jobs -> Seq(Notice)]
  BY DEF TypeOK, KernelTypeOK
<1>3. posted[j] \o ns \in Seq(Notice)
  BY <1>2
<1> QED BY <1>1, <1>2, <1>3 DEF Queued

(* What a system's step posts. *)
LEMMA SystemPosts ==
  ASSUME TypeOK, NEW j \in Jobs, System(j)
  PROVE  /\ UNCHANGED <<mode, port_key, object_vars, attached, thread_vars>>
         /\ active' \in [Jobs -> SUBSET (1 .. MaxProcs)] /\ born' \in [Jobs -> 0 .. MaxProcs]
         /\ active[j] # {}
         /\ \/ port_key[j] = NoTarget /\ UNCHANGED <<queue, posted>>
            \/ port_key[j] \in Targets /\ \E ns \in Seq(Notice) : Queued(j, port_key[j], ns)
<1> USE KernelAssumption DEF TypeOK, KernelTypeOK
<1>1. ASSUME NEW ns, Post(j, ns)
      PROVE  \/ port_key[j] = NoTarget /\ UNCHANGED <<queue, posted>>
             \/ port_key[j] \in Targets /\ Queued(j, port_key[j], ns)
  BY <1>1 DEF Post, Queued
<1>2. UNCHANGED <<mode, port_key, object_vars, attached, thread_vars>>
  BY DEF System, Fork, HitLimit, Exit
<1>3. CASE Fork(j)
  <2>1. About("new", born[j] + 1) \in Notice /\ born[j] + 1 \in 1 .. MaxProcs
    BY <1>3, AboutType DEF Fork
  <2>2. <<About("new", born[j] + 1)>> \in Seq(Notice)
    BY <2>1
  <2>3. active' \in [Jobs -> SUBSET (1 .. MaxProcs)] /\ born' \in [Jobs -> 0 .. MaxProcs]
    BY <1>3, <2>1 DEF Fork
  <2> QED BY <1>1, <1>2, <1>3, <2>2, <2>3 DEF Fork
<1>4. CASE HitLimit(j)
  <2>1. PICK p \in active[j], k \in Limits : Post(j, <<About(k, p)>>)
    BY <1>4 DEF HitLimit
  <2>2. <<About(k, p)>> \in Seq(Notice)
    <3>1. p \in 0 .. MaxProcs
      OBVIOUS
    <3>2. About(k, p) \in Notice
      BY <3>1, AboutType
    <3> QED BY <3>2
  <2> QED BY <1>1, <1>2, <1>4, <2>1, <2>2 DEF HitLimit
<1>5. CASE Exit(j)
  <2>1. PICK p \in active[j] :
          /\ active' = [active EXCEPT ![j] = @ \ {p}]
          /\ Post(j, <<About("exit", p)>> \o
                     IF active[j] = {p} THEN <<About("zero", 0)>> ELSE <<>>)
    BY <1>5 DEF Exit
  <2>2. p \in 0 .. MaxProcs /\ 0 \in 0 .. MaxProcs
    OBVIOUS
  <2>3. About("exit", p) \in Notice /\ About("zero", 0) \in Notice
    BY <2>2, AboutType
  <2>4. <<About("exit", p)>> \o (IF active[j] = {p} THEN <<About("zero", 0)>> ELSE <<>>)
          \in Seq(Notice)
    BY <2>3
  <2>5. active' \in [Jobs -> SUBSET (1 .. MaxProcs)] /\ born' = born
    BY <1>5, <2>1 DEF Exit
  <2> HIDE DEF TypeOK, KernelTypeOK
  <2>6. born' \in [Jobs -> 0 .. MaxProcs] /\ active[j] # {}
    BY <2>1, <2>5 DEF TypeOK, KernelTypeOK
  <2> QED BY <1>1, <1>2, <2>1, <2>4, <2>5, <2>6
<1> QED BY <1>3, <1>4, <1>5 DEF System

(* What an association announces: the processes that are there, in order. *)
Numbered(n) == [i \in 1 .. n |-> About("new", i)]
Announced(j) == Only(Numbered(born[j]), {n \in Notice : n.pid \in active[j]})

(* What is posted when the port is associated are notices.                  *)
LEMMA AnnouncedType ==
  ASSUME TypeOK, NEW j \in Jobs
  PROVE  Numbered(born[j]) \in Seq(Notice) /\ Announced(j) \in Seq(Notice)
<1>1. born[j] \in Nat /\ \A i \in 1 .. born[j] : i \in 0 .. MaxProcs
  BY KernelAssumption DEF TypeOK, KernelTypeOK
<1>2. \A i \in 1 .. born[j] : About("new", i) \in Notice
  BY <1>1, AboutType
<1>3. Numbered(born[j]) \in Seq(Notice)
  BY <1>1, <1>2 DEF Numbered
<1> DEFINE Present == {n \in Notice : n.pid \in active[j]}
<1>4. Announced(j) \in Seq(Notice \cap Present)
  BY <1>3, OnlyType DEF Announced
<1>5. Notice \cap Present \subseteq Notice
  OBVIOUS
<1> HIDE DEF Present
<1> QED BY <1>3, <1>4, <1>5, SeqMonotonic

(* Associating the port posts the processes that are there.                 *)
LEMMA AssociatePosts ==
  ASSUME NEW j \in Jobs, NEW key \in Targets, AssociatePort(j, key)
  PROVE  /\ port_key[j] = NoTarget /\ port_key' = [port_key EXCEPT ![j] = key]
         /\ Queued(j, key, Announced(j))
  BY DEF AssociatePort, Queued, Announced, Numbered

(* Whatever client uses the library, and whichever of its calls fail.       *)
LEMMA BaseClient ==
  ASSUME Base, NEW t \in Targets, Client(t) PROVE Base'
<1> USE KernelAssumption, TargetAssumption
        DEF Goto, Usable, kernel_vars, object_vars, thread_vars
<1>0. TypeOK /\ StepFollowsLife
  BY DEF Base
<1> USE <1>0 DEF TypeOK, KernelTypeOK
<1>1. CASE Construct(t)
  BY <1>1 DEF Construct, Base, StepFollowsLife
<1>2. CASE Assign(t)
  <2>1. 1 \in 0 .. MaxProcs /\ {1} \in SUBSET (1 .. MaxProcs)
    OBVIOUS
  <2>2. PICK j \in Jobs :
          /\ born' = [born EXCEPT ![j] = 1] /\ active' = [active EXCEPT ![j] = {1}]
          /\ mode' \in {[mode EXCEPT ![j] = "suspended"],
                       [[mode EXCEPT ![job[t]] = "killed"] EXCEPT ![j] = "suspended"]}
          /\ port_key' \in {port_key, [port_key EXCEPT ![job[t]] = NoTarget]}
          /\ job' = [job EXCEPT ![t] = j]
    BY <1>2 DEF Assign, CreateSuspended, Killed, Orphaned
  <2>3. /\ UNCHANGED <<queue, posted, life, step, listening, attached, mt, batch, delivered>>
        /\ has_thread' = [has_thread EXCEPT ![t] = TRUE]
    BY <1>2 DEF Assign
  <2>4. KernelTypeOK'
    BY <2>1, <2>2, <2>3
  <2> QED BY <1>2, <2>2, <2>3, <2>4 DEF Base, StepFollowsLife, Assign
<1>3. CASE Attach(t)
  BY <1>3 DEF Attach, Inserted, Base, StepFollowsLife
<1>4. CASE Associate(t)
  <2>1. step[t] = "associate" /\ life[t] = "live" /\ job[t] \in Jobs
    BY <1>4 DEF Associate, StepFollowsLife
  <2>2. /\ step' \in {[step EXCEPT ![t] = "resume"], [step EXCEPT ![t] = "idle"]}
        /\ UNCHANGED <<mode, active, born, life, job, has_thread, attached, mt, batch, delivered>>
    BY <1>4 DEF Associate
  <2>3. /\ queue' \in Seq(Packet) /\ posted' \in [Jobs -> Seq(Notice)]
        /\ port_key' \in [Jobs -> Targets \cup {NoTarget}]
        /\ listening' \in [Targets -> BOOLEAN]
    <3>1. CASE AssociatePort(job[t], t) /\ listening' = NowListening(t)
      <4>1. /\ port_key' = [port_key EXCEPT ![job[t]] = t]
            /\ Queued(job[t], t, Announced(job[t]))
        BY <2>1, <3>1, AssociatePosts
      <4>2. queue' \in Seq(Packet) /\ posted' \in [Jobs -> Seq(Notice)]
        BY <2>1, <4>1, AnnouncedType, QueuedType
      <4> QED BY <2>1, <3>1, <4>1, <4>2 DEF NowListening
    <3>2. CASE UNCHANGED <<port_key, queue, posted, listening>>
      BY <3>2
    <3> QED BY <1>4, <3>1, <3>2 DEF Associate
  <2> QED BY <2>1, <2>2, <2>3 DEF Base, StepFollowsLife
<1>5. CASE StartUnheard(t)
  BY <1>5 DEF StartUnheard, Base, StepFollowsLife
<1>6. CASE Resume(t)
  <2>1. /\ step[t] = "resume" /\ step' = [step EXCEPT ![t] = "idle"]
        /\ has_thread' \in {has_thread, [has_thread EXCEPT ![t] = FALSE]}
        /\ UNCHANGED <<active, born, port_key, queue, posted, life, job, listening, attached,
                       mt, batch, delivered>>
    BY <1>6 DEF Resume
  <2>2. mode' \in {mode, [mode EXCEPT ![job[t]] = "running"]}
    <3>1. mode' = mode \/ mode' = [mode EXCEPT ![job[t]] =
                                     IF @ = "suspended" THEN "running" ELSE @]
      BY <1>6 DEF Resume
    <3>2. [mode EXCEPT ![job[t]] = mode[job[t]]] = mode
      OBVIOUS
    <3> QED BY <3>1, <3>2
  <2>3. /\ mode' \in [Jobs -> {"unborn", "suspended", "running", "killed"}]
        /\ has_thread' \in [Targets -> BOOLEAN]
    BY <2>1, <2>2
  <2>4. KernelTypeOK'
    BY <2>1, <2>3
  <2> QED BY <2>1, <2>3, <2>4 DEF Base, StepFollowsLife
<1>7. CASE TerminateJob(t)
  BY <1>7 DEF TerminateJob, Killed, Base, StepFollowsLife
<1>8. CASE BeginDestroy(t)
  BY <1>8 DEF BeginDestroy, Base, StepFollowsLife
<1>9. CASE Deassociate(t)
  BY <1>9 DEF Deassociate, Erased, Base, StepFollowsLife
<1>10. CASE Free(t)
  BY <1>10 DEF Free, CloseJob, Killed, Orphaned, Base, StepFollowsLife
<1> QED BY <1>1, <1>2, <1>3, <1>4, <1>5, <1>6, <1>7, <1>8, <1>9, <1>10 DEF Client

(* Whatever the processes of a job do.                                      *)
LEMMA BaseSystem == ASSUME Base, NEW j \in Jobs, System(j) PROVE Base'
<1>1. TypeOK /\ StepFollowsLife
  BY DEF Base
<1>2. queue' \in Seq(Packet) /\ posted' \in [Jobs -> Seq(Notice)]
  <2>1. CASE UNCHANGED <<queue, posted>>
    BY <1>1, <2>1 DEF TypeOK, KernelTypeOK
  <2> QED BY <1>1, <2>1, SystemPosts, QueuedType
<1> QED BY <1>1, <1>2, SystemPosts DEF Base, TypeOK, KernelTypeOK, StepFollowsLife, object_vars,
                                       thread_vars

(* Dequeue takes what it puts into entries off the port. *)
LEMMA DequeueSplits ==
  ASSUME TypeOK, Dequeue
  PROVE  /\ mt = "next" /\ batch = <<>>
         /\ batch' \in Seq(Packet) /\ queue' \in Seq(Packet) /\ Len(batch') <= BatchMax
         /\ batch' \o queue' = queue
         /\ UNCHANGED <<mode, active, born, port_key, posted, object_vars, attached, mt, delivered>>
<1>1. PICK n \in 1 .. BatchMax :
        /\ n <= Len(queue)
        /\ batch' = SubSeq(queue, 1, n) /\ queue' = SubSeq(queue, n + 1, Len(queue))
  BY DEF Dequeue, ActualCount
<1>2. queue \in Seq(Packet) /\ BatchMax \in Nat
  BY TargetAssumption DEF TypeOK, KernelTypeOK
<1>3. batch' \in Seq(Packet) /\ queue' \in Seq(Packet) /\ Len(batch') <= BatchMax
  BY <1>1, <1>2
<1>4. SubSeq(queue, 1, n) \o SubSeq(queue, n + 1, Len(queue)) = SubSeq(queue, 1, Len(queue))
  BY <1>1, <1>2, ConcatAdjacentSubSeq
<1>5. SubSeq(queue, 1, Len(queue)) = queue
  BY <1>2
<1> QED BY <1>1, <1>3, <1>4, <1>5 DEF Dequeue

(* The entry in hand and the rest of the batch.                             *)
LEMMA TailType ==
  ASSUME TypeOK, batch # <<>>
  PROVE  /\ Entry \in Packet /\ Tail(batch) \in Seq(Packet) /\ Len(Tail(batch)) <= BatchMax
         /\ batch = <<Entry>> \o Tail(batch)
<1>1. batch \in Seq(Packet) /\ Len(batch) <= BatchMax /\ BatchMax \in Nat
  BY TargetAssumption DEF TypeOK
<1> QED BY <1>1 DEF Entry

(* Whatever the message thread dequeues, handles or discards.               *)
LEMMA BaseThread == ASSUME Base, MessageThread PROVE Base'
<1> USE TargetAssumption DEF Goto, Usable, kernel_vars, object_vars, thread_vars
<1>0. TypeOK /\ StepFollowsLife
  BY DEF Base
<1>1. CASE Dequeue
  BY <1>0, <1>1, DequeueSplits DEF Base, TypeOK, KernelTypeOK, StepFollowsLife
<1>2. CASE Dispatch
  <2>1. batch # <<>> /\ delivered' = [delivered EXCEPT ![Entry.job] = Append(@, Entry.notice)]
        /\ mt' = "callback"
        /\ UNCHANGED <<kernel_vars, object_vars, attached, batch>>
    BY <1>2 DEF Dispatch
  <2>2. Entry.job \in Jobs /\ Entry.notice \in Notice
    BY <1>0, <2>1, TailType DEF Packet
  <2>3. delivered' \in [Jobs -> Seq(Notice)]
    BY <1>0, <2>1, <2>2 DEF TypeOK
  <2> QED BY <1>0, <2>1, <2>3 DEF Base, TypeOK, KernelTypeOK, StepFollowsLife
<1>3. CASE Discard \/ Return
  <2>1. batch # <<>> /\ batch' = Tail(batch) /\ mt' = "next"
        /\ UNCHANGED <<kernel_vars, object_vars, attached, delivered>>
    BY <1>0, <1>3 DEF Discard, Return, RestOfBatch, TypeOK
  <2>2. batch' \in Seq(Packet) /\ Len(batch') <= BatchMax
    BY <1>0, <2>1, TailType
  <2> QED BY <1>0, <2>1, <2>2 DEF Base, TypeOK, KernelTypeOK, StepFollowsLife
<1>4. CASE ReturnDestroyed
  <2> DEFINE t == Entry.key
  <2>1. batch # <<>> /\ batch' = Tail(batch) /\ mt' = "next" /\ life[t] = "live" /\ step[t] = "idle"
    BY <1>0, <1>4 DEF ReturnDestroyed, RestOfBatch, TypeOK
  <2>2. batch' \in Seq(Packet) /\ Len(batch') <= BatchMax
    BY <1>0, <2>1, TailType
  <2>3. t \in Targets
    BY <1>0, <2>1, TailType DEF Packet
  <2>4. /\ life' = [life EXCEPT ![t] = "free"] /\ attached' \in SUBSET Targets
        /\ UNCHANGED <<active, born, queue, posted, step, job, has_thread, listening, delivered>>
        /\ mode' \in [Jobs -> {"unborn", "suspended", "running", "killed"}]
        /\ port_key' \in [Jobs -> Targets \cup {NoTarget}]
    BY <1>0, <1>4, <2>3 DEF ReturnDestroyed, Erased, CloseJob, Killed, Orphaned, TypeOK, KernelTypeOK
  <2> HIDE DEF t
  <2> QED BY <1>0, <2>1, <2>2, <2>3, <2>4 DEF Base, TypeOK, KernelTypeOK, StepFollowsLife
<1> QED BY <1>1, <1>2, <1>3, <1>4 DEF MessageThread

(* The types, and where each call is, hold always.                          *)
LEMMA BaseInvariant == Spec => []Base
<1>1. Init => Base
  BY KernelAssumption, TargetAssumption
  DEF Init, KernelInit, Base, TypeOK, KernelTypeOK, StepFollowsLife
<1>2. ASSUME Base, UNCHANGED vars PROVE Base'
  BY <1>2 DEF vars, kernel_vars, object_vars, thread_vars, Base, TypeOK, KernelTypeOK, StepFollowsLife
<1>3. Base /\ [Next]_vars => Base'
  BY <1>2, BaseClient, BaseSystem, BaseThread DEF Next, AtRest
<1> QED BY <1>1, <1>3, PTL DEF Spec

(* Every variable has its type, whichever calls fail: the entries a call    *)
(* returns fit into the array (core/job_object.cc:196), and no callback is  *)
(* made without one.                                                       *)
THEOREM Types == Spec => []TypeOK
<1>1. Base => TypeOK
  BY DEF Base
<1> QED BY <1>1, BaseInvariant, PTL

-----------------------------------------------------------------------------
(***************************************************************************)
(* What a careful client's targets are told.  What a job posts is a story  *)
(* (Story); what is on its way is the end of that story (Follows); and it  *)
(* finds the target it was posted for, which is there and listens          *)
(* (PacketsFindTarget).                                                    *)
(***************************************************************************)

(* The notices about job j among some packets; of those on their way this *)
(* is Coming(j).                                                          *)
Of(packets, j) == Notices(Only(packets, {p \in Packet : p.job = j}))

(* The notices of a job so far and one that may come next. *)
Zero == About("zero", 0)

MayFollow(before, n) ==
  /\ Zero \notin before
  /\ n.kind = "new" => n.pid \in 1 .. MaxProcs /\ n \notin before
  /\ n.kind = "exit" => About("new", n.pid) \in before /\ n \notin before
  /\ n.kind = "zero" =>
       /\ n = Zero
       /\ \E p \in 1 .. MaxProcs : About("new", p) \in before
       /\ \A p \in 1 .. MaxProcs :
            About("new", p) \in before => About("exit", p) \in before
  /\ n.kind \in Limits =>
       About("new", n.pid) \in before /\ About("exit", n.pid) \notin before

Story(s) == \A i \in 1 .. Len(s) : MayFollow({s[k] : k \in 1 .. i - 1}, s[i])

-----------------------------------------------------------------------------
(* A story goes on with whatever may follow it.                             *)
LEMMA StoryAppend ==
  ASSUME NEW s \in Seq(Notice), NEW n \in Notice, Story(s), MayFollow(ToSet(s), n)
  PROVE  Story(Append(s, n))
<1> DEFINE u == Append(s, n)
<1>1. /\ Len(u) = Len(s) + 1 /\ Len(s) \in Nat /\ u[Len(s) + 1] = n
      /\ DOMAIN s = 1 .. Len(s) /\ \A i \in 1 .. Len(s) : u[i] = s[i]
  OBVIOUS
<1> HIDE DEF u
<1>2. ASSUME NEW i \in 1 .. Len(u) PROVE MayFollow({u[k] : k \in 1 .. i - 1}, u[i])
  <2>1. CASE i <= Len(s)
    <3>1. {u[k] : k \in 1 .. i - 1} = {s[k] : k \in 1 .. i - 1} /\ u[i] = s[i]
      BY <1>1, <2>1
    <3>2. i \in 1 .. Len(s)
      BY <1>1, <2>1
    <3> QED BY <3>1, <3>2 DEF Story
  <2>2. CASE i = Len(s) + 1
    <3>1. {u[k] : k \in 1 .. i - 1} = ToSet(s) /\ u[i] = n
      BY <1>1, <2>2 DEF ToSet
    <3> QED BY <3>1
  <2> QED BY <1>1, <2>1, <2>2
<1> QED BY <1>2 DEF Story, u

(* Whatever occurs in a story may follow what was told before it.           *)
LEMMA StoryAt ==
  ASSUME NEW s \in Seq(Notice), NEW n \in Notice, NEW t \in Seq(Notice),
         Story(s \o (<<n>> \o t))
  PROVE  MayFollow(ToSet(s), n)
<1> DEFINE u == s \o (<<n>> \o t)
<1>1. /\ Len(s) \in Nat /\ DOMAIN s = 1 .. Len(s) /\ Len(s) + 1 \in 1 .. Len(u)
      /\ u[Len(s) + 1] = n /\ \A i \in 1 .. Len(s) : u[i] = s[i]
  OBVIOUS
<1>2. Story(u)
  OBVIOUS
<1> HIDE DEF u
<1>3. MayFollow({u[k] : k \in 1 .. Len(s)}, n)
  <2> DEFINE i == Len(s) + 1
  <2>1. i \in 1 .. Len(u) /\ i - 1 = Len(s) /\ u[i] = n
    BY <1>1
  <2> HIDE DEF i
  <2>2. MayFollow({u[k] : k \in 1 .. i - 1}, u[i])
    BY <1>2, <2>1 DEF Story
  <2> QED BY <2>1, <2>2
<1>4. {u[k] : k \in 1 .. Len(s)} = ToSet(s)
  BY <1>1 DEF ToSet
<1> QED BY <1>3, <1>4

(* Nothing comes after the news that all have gone. *)
LEMMA ZeroIsLast ==
  ASSUME NEW s \in Seq(Notice), NEW t \in Seq(Notice), Story(s \o t), Zero \in ToSet(s)
  PROVE  t = <<>>
<1> SUFFICES ASSUME t # <<>> PROVE FALSE
  OBVIOUS
<1>1. Head(t) \in Notice /\ Tail(t) \in Seq(Notice) /\ t = <<Head(t)>> \o Tail(t)
  OBVIOUS
<1>2. MayFollow(ToSet(s), Head(t))
  BY <1>1, StoryAt
<1> QED BY <1>2 DEF MayFollow

-----------------------------------------------------------------------------
(* A packet names a target, a job and a notice.                             *)
LEMMA PacketFields ==
  ASSUME NEW p \in Packet
  PROVE  p.key \in Targets /\ p.job \in Jobs /\ p.notice \in Notice
  BY DEF Packet

(* The notices of packets are notices, one for each packet.                 *)
LEMMA NoticesType ==
  ASSUME NEW s \in Seq(Packet)
  PROVE  /\ Notices(s) \in Seq(Notice) /\ Len(Notices(s)) = Len(s)
         /\ \A i \in 1 .. Len(s) : Notices(s)[i] = s[i].notice
<1>1. \A i \in 1 .. Len(s) : s[i] \in Packet
  OBVIOUS
<1>2. \A i \in 1 .. Len(s) : s[i].notice \in Notice
  BY <1>1, PacketFields
<1> QED BY <1>2 DEF Notices

(* Packets that come after others carry notices that come after theirs.     *)
LEMMA NoticesConcat ==
  ASSUME NEW s \in Seq(Packet), NEW t \in Seq(Packet)
  PROVE  Notices(s \o t) = Notices(s) \o Notices(t)
<1> DEFINE u == s \o t
<1>3. Notices(s) \in Seq(Notice) /\ Len(Notices(s)) = Len(s)
      /\ \A i \in 1 .. Len(s) : Notices(s)[i] = s[i].notice
  BY NoticesType
<1>4. Notices(t) \in Seq(Notice) /\ Len(Notices(t)) = Len(t)
      /\ \A i \in 1 .. Len(t) : Notices(t)[i] = t[i].notice
  BY NoticesType
<1>5. /\ u \in Seq(Packet) /\ Len(u) = Len(s) + Len(t)
      /\ \A i \in 1 .. Len(s) : u[i] = s[i]
      /\ \A i \in 1 .. Len(t) : u[Len(s) + i] = t[i]
  OBVIOUS
<1> HIDE DEF u
<1>7. Notices(u) \in Seq(Notice) /\ Len(Notices(u)) = Len(u)
      /\ \A i \in 1 .. Len(u) : Notices(u)[i] = u[i].notice
  BY <1>5, NoticesType
<1> DEFINE a == Notices(s)
           b == Notices(t)
           c == Notices(u)
<1> HIDE DEF a, b, c
<1>8. /\ a \in Seq(Notice) /\ b \in Seq(Notice) /\ c \in Seq(Notice)
      /\ Len(a) = Len(s) /\ Len(b) = Len(t) /\ Len(c) = Len(s) + Len(t)
      /\ Len(s) \in Nat /\ Len(t) \in Nat
  BY <1>3, <1>4, <1>5, <1>7 DEF a, b, c
<1>9. ASSUME NEW i \in 1 .. Len(c) PROVE c[i] = (a \o b)[i]
  <2>1. CASE i <= Len(s)
    <3>1. c[i] = s[i].notice /\ a[i] = s[i].notice
      BY <1>3, <1>5, <1>7, <1>8, <2>1 DEF a, c
    <3> QED BY <1>8, <2>1, <3>1
  <2>2. CASE i > Len(s)
    <3> DEFINE k == i - Len(s)
    <3>1. k \in 1 .. Len(t) /\ i = Len(s) + k
      BY <1>8, <2>2
    <3> HIDE DEF k
    <3>2. c[i] = t[k].notice /\ b[k] = t[k].notice
      BY <1>4, <1>5, <1>7, <1>8, <3>1 DEF b, c
    <3>3. (a \o b)[Len(a) + k] = b[k]
      BY <1>8, <3>1
    <3> QED BY <1>8, <3>1, <3>2, <3>3
  <2> QED BY <1>8, <2>1, <2>2
<1>10. a \o b \in Seq(Notice) /\ Len(a \o b) = Len(c)
  <2>1. a \o b \in Seq(Notice) /\ Len(a \o b) = Len(a) + Len(b)
    <3> HIDE DEF u
    <3>1. a \in Seq(Notice) /\ b \in Seq(Notice)
      BY <1>8
    <3> QED BY ONLY <3>1, ConcatProperties, Zenon
  <2> QED BY <1>8, <2>1
<1>11. c = a \o b
  BY <1>8, <1>9, <1>10, SeqEqual
<1> QED BY <1>11 DEF a, b, c, u

(* What packets say about a job are notices.                                *)
LEMMA OfType ==
  ASSUME NEW s \in Seq(Packet), NEW j
  PROVE  Of(s, j) \in Seq(Notice)
<1> DEFINE S == {p \in Packet : p.job = j}
           o == Only(s, S)
<1>1. o \in Seq(Packet \cap S)
  BY OnlyType
<1>2. Packet \cap S \subseteq Packet
  OBVIOUS
<1> HIDE DEF S
<1>3. o \in Seq(Packet)
  BY <1>1, <1>2, SeqMonotonic
<1> HIDE DEF o
<1>5. Notices(o) \in Seq(Notice)
  BY <1>3, NoticesType
<1> QED BY <1>5 DEF Of, S, o

(* What packets say about a job, when some come after others.               *)
LEMMA OfConcat ==
  ASSUME NEW s \in Seq(Packet), NEW t \in Seq(Packet), NEW j
  PROVE  Of(s \o t, j) = Of(s, j) \o Of(t, j)
<1> DEFINE S == {p \in Packet : p.job = j}
<1>1. Only(s \o t, S) = Only(s, S) \o Only(t, S)
  BY OnlyConcat
<1>2. Only(s, S) \in Seq(Packet \cap S) /\ Only(t, S) \in Seq(Packet \cap S)
  BY OnlyType
<1>3. Packet \cap S \subseteq Packet
  OBVIOUS
<1> HIDE DEF S
<1>4. Only(s, S) \in Seq(Packet) /\ Only(t, S) \in Seq(Packet)
  BY <1>2, <1>3, SeqMonotonic
<1>5. Notices(Only(s, S) \o Only(t, S)) = Notices(Only(s, S)) \o Notices(Only(t, S))
  BY <1>4, NoticesConcat
<1> QED BY <1>1, <1>5 DEF Of, S

(* What a job posts is about that job alone.                                *)
LEMMA OfPackets ==
  ASSUME NEW key \in Targets, NEW k \in Jobs, NEW ns \in Seq(Notice), NEW j \in Jobs
  PROVE  Of(Packets(key, k, ns), j) = IF j = k THEN ns ELSE <<>>
<1> DEFINE S == {p \in Packet : p.job = j}
           A == {p \in Packet : p.job = k}
           b == Packets(key, k, ns)
<1>1. /\ b \in Seq(Packet) /\ Len(b) = Len(ns)
      /\ \A i \in 1 .. Len(ns) : b[i] = [key |-> key, job |-> k, notice |-> ns[i]]
  BY PacketsType
<1> HIDE DEF b
<1>2. ASSUME NEW i \in 1 .. Len(b)
      PROVE  b[i] \in Packet /\ b[i].job = k /\ b[i].notice = ns[i]
  <2>1. i \in 1 .. Len(ns) /\ b[i] \in Packet
    BY <1>1
  <2>2. b[i] = [key |-> key, job |-> k, notice |-> ns[i]]
    BY <1>1, <2>1
  <2> QED BY <2>1, <2>2
<1>3. b \in Seq(A)
  <2>1. \A i \in 1 .. Len(b) : b[i] \in A
    BY <1>2
  <2> HIDE DEF A
  <2> QED BY <1>1, <2>1
<1>4. CASE j = k
  <2>1. Only(b, A) = b
    BY <1>3, OnlyAll
  <2>2. \A i \in 1 .. Len(b) : b[i].notice = ns[i]
    BY <1>2
  <2>3. /\ Notices(b) \in Seq(Notice) /\ Len(Notices(b)) = Len(b)
        /\ \A i \in 1 .. Len(b) : Notices(b)[i] = b[i].notice
    BY <1>1, NoticesType
  <2> DEFINE c == Notices(b)
  <2> HIDE DEF c
  <2>4. c = ns
    <3>1. c \in Seq(Notice) /\ Len(c) = Len(ns) /\ \A i \in 1 .. Len(c) : c[i] = ns[i]
      BY <1>1, <2>2, <2>3 DEF c
    <3> QED BY <3>1, SeqEqual
  <2> QED BY <1>4, <2>1, <2>4 DEF Of, b, c
<1>5. CASE j # k
  <2>1. A \cap S = {}
    BY <1>5
  <2> HIDE DEF A, S
  <2>2. Only(b, S) = <<>>
    BY <1>3, <2>1, OnlyNone
  <2>3. Notices(<<>>) = <<>>
    BY DEF Notices
  <2> QED BY <1>5, <2>2, <2>3 DEF Of, b, S
<1> QED BY <1>4, <1>5

(* What packets say about a job, the first one handled by itself.           *)
LEMMA OfCons ==
  ASSUME NEW e \in Packet, NEW s \in Seq(Packet), NEW j \in Jobs
  PROVE  Of(<<e>> \o s, j) = IF e.job = j THEN <<e.notice>> \o Of(s, j) ELSE Of(s, j)
<1>1. e.key \in Targets /\ e.job \in Jobs /\ e.notice \in Notice
  BY PacketFields
<1>2. <<e>> \in Seq(Packet) /\ <<e.notice>> \in Seq(Notice)
  BY <1>1
<1>3. Packets(e.key, e.job, <<e.notice>>) = <<e>>
  <2>1. e = [key |-> e.key, job |-> e.job, notice |-> e.notice]
    BY DEF Packet
  <2> QED BY <2>1 DEF Packets
<1>4. Of(<<e>>, j) = IF j = e.job THEN <<e.notice>> ELSE <<>>
  <2> DEFINE ns == <<e.notice>>
  <2>1. ns \in Seq(Notice) /\ Packets(e.key, e.job, ns) = <<e>>
    BY <1>2, <1>3
  <2> HIDE DEF ns
  <2>2. Of(Packets(e.key, e.job, ns), j) = IF j = e.job THEN ns ELSE <<>>
    BY <1>1, <2>1, OfPackets
  <2> QED BY <2>1, <2>2 DEF ns
<1>5. Of(<<e>> \o s, j) = Of(<<e>>, j) \o Of(s, j)
  BY <1>2, OfConcat
<1>6. Of(s, j) \in Seq(Notice)
  BY OfType
<1>7. <<>> \o Of(s, j) = Of(s, j)
  BY <1>6, ConcatEmptySeq
<1> QED BY <1>4, <1>5, <1>7

-----------------------------------------------------------------------------
(***************************************************************************)
(* What is on its way                                                      *)
(***************************************************************************)
LEMMA UndeliveredType == ASSUME TypeOK PROVE Undelivered \in Seq(Packet)
<1>1. batch \in Seq(Packet) /\ queue \in Seq(Packet)
  BY DEF TypeOK, KernelTypeOK
<1>2. mt = "callback" => Tail(batch) \in Seq(Packet)
  BY TailType DEF TypeOK
<1> QED BY <1>1, <1>2, ConcatProperties DEF Undelivered

(* What is on its way about a job are notices.                              *)
LEMMA ComingType == ASSUME TypeOK, NEW j PROVE Coming(j) \in Seq(Notice)
  BY UndeliveredType, OfType DEF Coming, Of

(* What a job posts comes after what is on its way about it already.        *)
LEMMA ComingQueued ==
  ASSUME TypeOK, NEW key \in Targets, NEW k \in Jobs, NEW ns \in Seq(Notice),
         Queued(k, key, ns), UNCHANGED <<mt, batch>>, NEW j \in Jobs
  PROVE  Coming(j)' = IF j = k THEN Coming(j) \o ns ELSE Coming(j)
<1> DEFINE b == Packets(key, k, ns)
           a == IF mt = "callback" THEN Tail(batch) ELSE batch
<1>1. b \in Seq(Packet)
  BY PacketsType
<1>2. a \in Seq(Packet) /\ queue \in Seq(Packet)
  BY TailType DEF TypeOK, KernelTypeOK
<1>3. Undelivered = a \o queue /\ Undelivered' = a \o (queue \o b)
  BY DEF Undelivered, Queued
<1> HIDE DEF a, b
<1>4. Undelivered' = Undelivered \o b
  BY <1>1, <1>2, <1>3, ConcatAssociative
<1>5. Undelivered \in Seq(Packet)
  BY UndeliveredType
<1>6. Of(Undelivered', j) = Of(Undelivered, j) \o Of(b, j)
  BY <1>1, <1>4, <1>5, OfConcat
<1>7. Of(b, j) = IF j = k THEN ns ELSE <<>>
  BY OfPackets DEF b
<1>8. Of(Undelivered, j) \in Seq(Notice)
  BY <1>5, OfType
<1>9. Of(Undelivered, j) \o <<>> = Of(Undelivered, j)
  BY <1>8, ConcatEmptySeq
<1>10. Coming(j) = Of(Undelivered, j) /\ Coming(j)' = Of(Undelivered', j)
  BY DEF Coming, Of
<1> QED BY <1>6, <1>7, <1>9, <1>10

(* The entry that is dispatched or discarded is the next that was coming. *)
LEMMA ComingNext ==
  ASSUME TypeOK, batch # <<>>, mt = "next", queue' = queue, NEW j \in Jobs,
         \/ mt' = "callback" /\ batch' = batch
         \/ mt' = "next" /\ batch' = Tail(batch)
  PROVE  /\ Coming(j)' \in Seq(Notice)
         /\ Coming(j) = IF Entry.job = j THEN <<Entry.notice>> \o Coming(j)' ELSE Coming(j)'
<1>1. /\ Entry \in Packet /\ Tail(batch) \in Seq(Packet) /\ queue \in Seq(Packet)
      /\ batch = <<Entry>> \o Tail(batch)
  BY TailType DEF TypeOK, KernelTypeOK
<1>2. Undelivered = batch \o queue /\ Undelivered' = Tail(batch) \o queue
  BY DEF Undelivered
<1> DEFINE e == Entry
           a == Tail(batch)
           u == <<e>>
<1>3. u \in Seq(Packet) /\ a \in Seq(Packet) /\ queue \in Seq(Packet)
  <2>1. e \in Packet
    BY <1>1
  <2> HIDE DEF e
  <2>2. u \in Seq(Packet)
    BY <2>1
  <2> QED BY <1>1, <2>2
<1>4. batch = u \o a
  BY <1>1
<1> HIDE DEF u, a
<1>5. (u \o a) \o queue = u \o (a \o queue)
  <2>1. \A x, y, z \in Seq(Packet) : (x \o y) \o z = x \o (y \o z)
    BY ConcatAssociative
  <2> QED BY ONLY <1>3, <2>1, Zenon
<1>6. a \o queue \in Seq(Packet)
  BY ONLY <1>3, ConcatProperties, Zenon
<1>7. Undelivered = u \o (a \o queue)
  BY <1>2, <1>4, <1>5
<1>8. Of(u \o (a \o queue), j) = IF e.job = j THEN <<e.notice>> \o Of(a \o queue, j)
                                ELSE Of(a \o queue, j)
  BY <1>1, <1>6, OfCons DEF u
<1>9. Coming(j) = Of(Undelivered, j) /\ Coming(j)' = Of(Undelivered', j)
  BY DEF Coming, Of
<1>10. Coming(j)' = Of(a \o queue, j)
  BY <1>2, <1>9 DEF a
<1> QED BY <1>6, <1>7, <1>8, <1>9, <1>10, OfType

(* A step that moves no packet changes nothing that is on its way.          *)
LEMMA ComingSame ==
  ASSUME Undelivered' = Undelivered, NEW j PROVE Coming(j)' = Coming(j)
  BY DEF Coming

(* What concerns a job is coming to it. *)
LEMMA ComingSome ==
  ASSUME TypeOK, NEW p \in ToSet(Undelivered)
  PROVE  Coming(p.job) # <<>>
<1> DEFINE S == {q \in Packet : q.job = p.job}
           o == Only(Undelivered, S)
<1>1. Undelivered \in Seq(Packet)
  BY UndeliveredType
<1>2. p \in Packet
  <2>1. \A i \in DOMAIN Undelivered : Undelivered[i] \in Packet
    BY <1>1
  <2> QED BY <2>1 DEF ToSet
<1>3. p \in ToSet(o)
  <2>1. ToSet(o) = ToSet(Undelivered) \cap S
    BY <1>1, OnlyRange
  <2> QED BY <1>2, <2>1
<1>4. o \in Seq(Packet \cap S) /\ Packet \cap S \subseteq Packet
  BY <1>1, OnlyType
<1> HIDE DEF S
<1>5. o \in Seq(Packet)
  BY <1>4, SeqMonotonic
<1> HIDE DEF o
<1>6. Len(o) # 0
  BY <1>3, <1>5 DEF ToSet
<1>7. Notices(o) \in Seq(Notice) /\ Len(Notices(o)) # 0
  BY <1>5, <1>6, NoticesType
<1> QED BY <1>7 DEF Coming, S, o

-----------------------------------------------------------------------------
(***************************************************************************)
(* What a job posts                                                        *)
(***************************************************************************)

(* A job that has told so much, with so many processes there of n. *)
Accounts(told, there, n) ==
  /\ \A p \in there : About("new", p) \in told /\ About("exit", p) \notin told
  /\ \A p \in 1 .. MaxProcs :
       /\ About("new", p) \in told => p <= n /\ (p \in there \/ About("exit", p) \in told)
       /\ About("exit", p) \in told => About("new", p) \in told
  /\ Zero \in told => there = {}

(* Two notices are one only if they say the same of the same process.       *)
LEMMA DistinctNotices ==
  ASSUME NEW k, NEW p, NEW l, NEW q
  PROVE  (About(k, p) = About(l, q) <=> k = l /\ p = q)
         /\ About(k, p).kind = k /\ About(k, p).pid = p
  BY DEF About

(* A new process may be announced, and is then accounted for.               *)
LEMMA TellsFork ==
  ASSUME NEW told, NEW n \in 0 .. MaxProcs - 1, NEW there \in SUBSET (1 .. n), there # {},
         Accounts(told, there, n)
  PROVE  /\ MayFollow(told, About("new", n + 1))
         /\ Accounts(told \cup {About("new", n + 1)}, there \cup {n + 1}, n + 1)
<1> USE KernelAssumption
<1>1. n \in Nat /\ n + 1 \in 1 .. MaxProcs /\ n + 1 \notin there
      /\ \A p \in 1 .. MaxProcs : p <= n => p <= n + 1 /\ p # n + 1
  OBVIOUS
<1>2. About("new", n + 1) \notin told /\ About("exit", n + 1) \notin told /\ Zero \notin told
  BY <1>1 DEF Accounts
<1>3. MayFollow(told, About("new", n + 1))
  BY <1>1, <1>2, DistinctNotices DEF MayFollow, Limits
<1>4. Accounts(told \cup {About("new", n + 1)}, there \cup {n + 1}, n + 1)
  BY <1>1, <1>2, DistinctNotices DEF Accounts, Zero
<1> QED BY <1>3, <1>4

(* A process that is there may exceed its memory.                           *)
LEMMA TellsLimit ==
  ASSUME NEW told, NEW n \in 0 .. MaxProcs, NEW there \in SUBSET (1 .. n),
         Accounts(told, there, n), NEW p \in there, NEW k \in Limits
  PROVE  /\ MayFollow(told, About(k, p))
         /\ Accounts(told \cup {About(k, p)}, there, n)
<1>1. k # "new" /\ k # "exit" /\ k # "zero"
  BY DEF Limits
<1>2. MayFollow(told, About(k, p))
  BY <1>1, DistinctNotices DEF MayFollow, Accounts
<1>3. Accounts(told \cup {About(k, p)}, there, n)
  BY <1>1, DistinctNotices DEF Accounts, Zero
<1> QED BY <1>2, <1>3

(* A process that is there may exit; when it was the last, all are gone.    *)
LEMMA TellsExit ==
  ASSUME NEW told, NEW n \in 0 .. MaxProcs, NEW there \in SUBSET (1 .. n),
         Accounts(told, there, n), NEW p \in there
  PROVE  /\ MayFollow(told, About("exit", p))
         /\ Accounts(told \cup {About("exit", p)}, there \ {p}, n)
         /\ there = {p} =>
              /\ MayFollow(told \cup {About("exit", p)}, Zero)
              /\ Accounts((told \cup {About("exit", p)}) \cup {Zero}, {}, n)
<1>1. p \in 1 .. MaxProcs
  BY KernelAssumption
<1>2. MayFollow(told, About("exit", p))
  BY DistinctNotices DEF MayFollow, Accounts, Limits
<1>3. Accounts(told \cup {About("exit", p)}, there \ {p}, n)
  BY <1>1, DistinctNotices DEF Accounts, Zero
<1>4. ASSUME there = {p} PROVE MayFollow(told \cup {About("exit", p)}, Zero)
  BY <1>1, <1>4, DistinctNotices DEF MayFollow, Accounts, Zero, Limits
<1>5. ASSUME there = {p} PROVE Accounts((told \cup {About("exit", p)}) \cup {Zero}, {}, n)
  BY <1>1, <1>5, DistinctNotices DEF Accounts, Zero
<1> QED BY <1>2, <1>3, <1>4, <1>5

(* Processes announced in the order of their numbers begin a story. *)
LEMMA AnnouncedStory ==
  ASSUME NEW there \in SUBSET (1 .. MaxProcs), NEW n \in 0 .. MaxProcs
  PROVE  LET told == Only(Numbered(n), {m \in Notice : m.pid \in there})
         IN  /\ told \in Seq(Notice) /\ Story(told)
             /\ ToSet(told) = {About("new", p) : p \in there \cap (1 .. n)}
<1> DEFINE S == {m \in Notice : m.pid \in there}
           told(k) == Only(Numbered(k), S)
           Good(k) == /\ told(k) \in Seq(Notice) /\ Story(told(k))
                      /\ ToSet(told(k)) = {About("new", p) : p \in there \cap (1 .. k)}
           P == {k \in Nat : k <= MaxProcs => Good(k)}
<1>0. MaxProcs \in Nat
  BY KernelAssumption
<1>1. 0 \in P
  <2>1. Numbered(0) = <<>>
    BY DEF Numbered
  <2>2. told(0) = <<>>
    BY <2>1, OnlyEmpty
  <2>3. Story(<<>>) /\ <<>> \in Seq(Notice) /\ ToSet(<<>>) = {}
    BY DEF Story, ToSet
  <2>4. {About("new", p) : p \in there \cap (1 .. 0)} = {}
    OBVIOUS
  <2> QED BY <2>2, <2>3, <2>4
<1>2. ASSUME NEW k \in P PROVE k + 1 \in P
  <2> SUFFICES ASSUME k + 1 <= MaxProcs PROVE Good(k + 1)
    BY <1>2
  <2> DEFINE e == About("new", k + 1)
             s == told(k)
  <2>1. k \in Nat /\ k <= MaxProcs /\ k + 1 \in 1 .. MaxProcs
        /\ \A i \in 1 .. k : i \in 1 .. MaxProcs
    BY <1>0, <1>2
  <2>2. s \in Seq(Notice) /\ Story(s)
        /\ ToSet(s) = {About("new", p) : p \in there \cap (1 .. k)}
    BY <2>1
  <2>3. e \in Notice /\ \A i \in 1 .. k : About("new", i) \in Notice
    BY <2>1, AboutType
  <2>4. Numbered(k) \in Seq(Notice) /\ Numbered(k + 1) = Append(Numbered(k), e)
    BY <2>1, <2>3 DEF Numbered
  <2>5. told(k + 1) = IF e \in S THEN Append(s, e) ELSE s
    <3> DEFINE l == Numbered(k)
    <3> HIDE DEF l, e, S
    <3>1. Only(Append(l, e), S) = IF e \in S THEN Append(Only(l, S), e) ELSE Only(l, S)
      BY <2>3, <2>4, OnlyAppend DEF l
    <3> QED BY <2>4, <3>1 DEF l
  <2>6. e \in S <=> k + 1 \in there
    BY <2>3, DistinctNotices
  <2>7. there \cap (1 .. k + 1) = (there \cap (1 .. k)) \cup (IF k + 1 \in there THEN {k + 1} ELSE {})
    BY <2>1
  <2> HIDE DEF s, S, e
  <2>8. CASE k + 1 \in there
    <3>1. MayFollow(ToSet(s), e)
      BY <2>1, <2>2, DistinctNotices DEF MayFollow, e, Zero, Limits
    <3>2. Append(s, e) \in Seq(Notice) /\ Story(Append(s, e))
      <4>1. Append(s, e) \in Seq(Notice)
        BY <2>2, <2>3
      <4> QED BY ONLY <2>2, <2>3, <3>1, <4>1, StoryAppend, Zenon
    <3>3. ToSet(Append(s, e)) = ToSet(s) \cup {e}
      BY <2>2, <2>3, ToSetAppend
    <3>4. ToSet(Append(s, e)) = {About("new", p) : p \in there \cap (1 .. k + 1)}
      BY <2>2, <2>7, <2>8, <3>3 DEF e
    <3> QED BY <2>5, <2>6, <2>8, <3>2, <3>4
  <2>9. CASE k + 1 \notin there
    BY <2>2, <2>5, <2>6, <2>7, <2>9
  <2> QED BY <2>8, <2>9
<1>3. \A k \in Nat : k \in P
  <2> HIDE DEF P
  <2> QED BY <1>1, <1>2, NatSetInduction
<1>4. Good(n)
  BY <1>0, <1>3
<1> QED BY <1>4

(* What each job has told, and is left to tell, is a story of the processes *)
(* it has; a job that has no port yet has told its owner nothing.           *)
Tells(j) ==
  /\ active[j] \in SUBSET (1 .. born[j])
  /\ mode[j] = "unborn" => posted[j] = <<>>
  /\ Story(posted[j])
  /\ port_key[j] # NoTarget => Accounts(ToSet(posted[j]), active[j], born[j])
  /\ port_key[j] = NoTarget =>
       \A t \in Targets : life[t] # "free" /\ job[t] = j => posted[j] = <<>>

(* A notice more, or two, of a system's step. *)
LEMMA OneMore ==
  ASSUME NEW s \in Seq(Notice), Story(s), NEW n \in Notice, MayFollow(ToSet(s), n)
  PROVE  /\ <<n>> \in Seq(Notice) /\ s \o <<n>> \in Seq(Notice)
         /\ Story(s \o <<n>>) /\ ToSet(s \o <<n>>) = ToSet(s) \cup {n}
<1>1. s \o <<n>> = Append(s, n) /\ Append(s, n) \in Seq(Notice) /\ <<n>> \in Seq(Notice)
  BY AppendIsConcat
<1>2. Story(Append(s, n)) /\ ToSet(Append(s, n)) = ToSet(s) \cup {n}
  BY StoryAppend, ToSetAppend
<1> QED BY <1>1, <1>2

(* Whatever a job does, its story goes on, and accounts for its processes.  *)
LEMMA SystemTells ==
  ASSUME TypeOK, NEW j \in Jobs, Tells(j), System(j), port_key[j] # NoTarget
  PROVE  \E ns \in Seq(Notice) :
           /\ Queued(j, port_key[j], ns)
           /\ Story(posted[j] \o ns)
           /\ Accounts(ToSet(posted[j] \o ns), active'[j], born'[j])
<1> DEFINE s == posted[j]
           n == born[j]
           there == active[j]
<1>1. /\ s \in Seq(Notice) /\ Story(s) /\ Accounts(ToSet(s), there, n)
      /\ n \in 0 .. MaxProcs /\ there \in SUBSET (1 .. n) /\ MaxProcs \in Nat
      /\ active \in [Jobs -> SUBSET (1 .. MaxProcs)] /\ born \in [Jobs -> 0 .. MaxProcs]
      /\ 0 \in 0 .. MaxProcs
  BY KernelAssumption DEF TypeOK, KernelTypeOK, Tells
<1>2. ASSUME NEW ns, Post(j, ns) PROVE Queued(j, port_key[j], ns)
  BY <1>2 DEF Post, Queued
<1> HIDE DEF s
<1>3. CASE Fork(j)
  <2> DEFINE e == About("new", n + 1)
  <2>1. n \in 0 .. MaxProcs - 1 /\ n + 1 \in 0 .. MaxProcs /\ there # {}
        /\ active'[j] = there \cup {n + 1} /\ born'[j] = n + 1
        /\ Post(j, <<e>>)
    BY <1>1, <1>3 DEF Fork
  <2>2. e \in Notice
    BY <2>1, AboutType
  <2>3. MayFollow(ToSet(s), e) /\ Accounts(ToSet(s) \cup {e}, there \cup {n + 1}, n + 1)
    BY <1>1, <2>1, TellsFork
  <2> HIDE DEF e
  <2>4. /\ <<e>> \in Seq(Notice) /\ Story(s \o <<e>>)
        /\ ToSet(s \o <<e>>) = ToSet(s) \cup {e}
    BY <1>1, <2>2, <2>3, OneMore
  <2>5. Queued(j, port_key[j], <<e>>)
    BY <1>2, <2>1
  <2> QED BY <2>1, <2>3, <2>4, <2>5 DEF s
<1>4. CASE HitLimit(j)
  <2>1. PICK p \in there, k \in Limits : Post(j, <<About(k, p)>>)
    BY <1>4 DEF HitLimit
  <2> DEFINE e == About(k, p)
  <2>2. e \in Notice
    <3>1. p \in 0 .. MaxProcs
      BY <1>1
    <3> QED BY <3>1, AboutType
  <2>3. MayFollow(ToSet(s), e) /\ Accounts(ToSet(s) \cup {e}, there, n)
    BY <1>1, TellsLimit
  <2>4. Queued(j, port_key[j], <<e>>)
    BY <1>2, <2>1
  <2> HIDE DEF e
  <2>5. /\ <<e>> \in Seq(Notice) /\ Story(s \o <<e>>)
        /\ ToSet(s \o <<e>>) = ToSet(s) \cup {e}
    BY <1>1, <2>2, <2>3, OneMore
  <2> QED BY <1>4, <2>3, <2>4, <2>5 DEF s, HitLimit
<1>5. CASE Exit(j)
  <2>1. PICK p \in there :
          /\ active' = [active EXCEPT ![j] = @ \ {p}]
          /\ Post(j, <<About("exit", p)>> \o
                     IF active[j] = {p} THEN <<About("zero", 0)>> ELSE <<>>)
    BY <1>5 DEF Exit
  <2> DEFINE e == About("exit", p)
             z == Zero
             u == <<e>>
             v == <<z>>
  <2>2. e \in Notice /\ z \in Notice
    <3>1. p \in 0 .. MaxProcs
      BY <1>1
    <3> QED BY <1>1, <3>1, AboutType DEF Zero
  <2>3. active'[j] = there \ {p} /\ born'[j] = n
    BY <1>1, <1>5, <2>1 DEF Exit
  <2>4. /\ MayFollow(ToSet(s), e) /\ Accounts(ToSet(s) \cup {e}, there \ {p}, n)
        /\ there = {p} => /\ MayFollow(ToSet(s) \cup {e}, z)
                          /\ Accounts((ToSet(s) \cup {e}) \cup {z}, {}, n)
    BY <1>1, TellsExit
  <2>5. Post(j, u \o (IF there = {p} THEN v ELSE <<>>))
    BY <2>1 DEF Zero
  <2> HIDE DEF e, z
  <2>6. /\ u \in Seq(Notice) /\ s \o u \in Seq(Notice)
        /\ Story(s \o u) /\ ToSet(s \o u) = ToSet(s) \cup {e}
    BY <1>1, <2>2, <2>4, OneMore
  <2> HIDE DEF u
  <2>7. CASE there = {p}
    <3>1. MayFollow(ToSet(s \o u), z)
      BY <2>4, <2>6, <2>7
    <3>2. /\ v \in Seq(Notice) /\ Story((s \o u) \o v)
          /\ ToSet((s \o u) \o v) = ToSet(s \o u) \cup {z}
      BY <2>2, <2>6, <3>1, OneMore
    <3>3. Post(j, u \o v)
      BY <2>5, <2>7
    <3> HIDE DEF v
    <3>4. (s \o u) \o v = s \o (u \o v)
      <4>1. \A x, y, w \in Seq(Notice) : (x \o y) \o w = x \o (y \o w)
        BY ConcatAssociative
      <4> QED BY ONLY <1>1, <2>6, <3>2, <4>1, Zenon
    <3>5. Queued(j, port_key[j], u \o v) /\ u \o v \in Seq(Notice)
      BY <1>2, <2>6, <3>2, <3>3, ConcatProperties
    <3>6. there \ {p} = {}
      BY <2>7
    <3>7. /\ Story(s \o (u \o v))
          /\ Accounts(ToSet(s \o (u \o v)), active'[j], born'[j])
      BY <2>3, <2>4, <2>6, <2>7, <3>2, <3>4, <3>6
    <3> QED BY <3>5, <3>7 DEF s
  <2>8. CASE there # {p}
    <3>1. u \o <<>> = u
      BY <2>6, ConcatEmptySeq
    <3>2. Queued(j, port_key[j], u)
      BY <1>2, <2>5, <2>8, <3>1
    <3> QED BY <2>3, <2>4, <2>6, <3>2 DEF s
  <2> QED BY <2>7, <2>8
<1> QED BY <1>3, <1>4, <1>5 DEF System

-----------------------------------------------------------------------------
(***************************************************************************)
(* Who owns a job, its port and its packets                                *)
(***************************************************************************)

(* The key of a job's port is its owner, who listens and is attached until *)
(* its destructor has taken it out.                                        *)
PortIsOwners ==
  \A t \in Targets :
    life[t] # "free" /\ job[t] # NoJob => port_key[job[t]] \in {t, NoTarget}

Associated ==
  \A t \in Targets :
    /\ step[t] = "associate" => t \in attached
    /\ life[t] # "free" /\ job[t] # NoJob /\ port_key[job[t]] = t =>
         listening[t] /\ (step[t] # "close" => t \in attached)

Owners == JobsAreOwned /\ PortIsOwners /\ Associated

(* What Careful forbids clients, stated of a step: no target is spawned into *)
(* twice, and none is destroyed before the OnExitAll it waits for.  Programs *)
(* of the Python binding observe it although Careful does not oblige them.   *)
Heeds(t) == job[t] # NoJob => (port_key[job[t]] = t => SawExitAll(job[t]))

Discipline ==
  \A t \in Targets :
    /\ Assign(t) => job[t] = NoJob
    /\ BeginDestroy(t) \/ (ReturnDestroyed /\ Entry.key = t) => Heeds(t)

(* A careful client observes the discipline whatever it does.               *)
LEMMA CarefulIsDisciplined == ASSUME Careful PROVE Discipline
  BY DEF Discipline, Heeds, Assign, BeginDestroy, ReturnDestroyed, MayDestroy

(* No client shares a job with another target, or uses one of a freed one.  *)
LEMMA OwnersClient ==
  ASSUME Discipline, Base, Owners, NEW t \in Targets, Client(t) PROVE Owners'
<1>0. Shape /\ StepFollowsLife /\ JobsAreOwned /\ PortIsOwners /\ Associated
  BY DEF Base, Owners, TypeOK, KernelTypeOK, Shape
<1> USE <1>0, KernelAssumption, TargetAssumption
        DEF Shape, Goto, Usable, kernel_vars, object_vars, thread_vars
<1>1. CASE Construct(t)
  BY <1>1 DEF Construct, StepFollowsLife, Owners, JobsAreOwned, PortIsOwners, Associated
<1>2. CASE Assign(t)
  <2>1. /\ job[t] = NoJob
        /\ UNCHANGED <<port_key, life, step, listening, attached>>
    BY <1>2 DEF Assign, Discipline
  <2>2. PICK j \in Jobs : /\ mode[j] = "unborn" /\ mode' = [mode EXCEPT ![j] = "suspended"]
                          /\ job' = [job EXCEPT ![t] = j]
    BY <1>2, <2>1 DEF Assign, CreateSuspended
  <2>3. JobsAreOwned'
    BY <2>1, <2>2 DEF JobsAreOwned
  <2>4. PortIsOwners' /\ Associated'
    BY <2>1, <2>2 DEF JobsAreOwned, PortIsOwners, Associated
  <2> QED BY <2>3, <2>4 DEF Owners
<1>3. CASE Attach(t)
  BY <1>3 DEF Attach, Inserted, Owners, JobsAreOwned, PortIsOwners, Associated
<1>4. CASE Associate(t)
  <2>1. step[t] = "associate" /\ life[t] = "live" /\ job[t] \in Jobs /\ t \in attached
    BY <1>4 DEF Associate, StepFollowsLife, Associated
  <2>2. /\ UNCHANGED <<mode, life, job, attached>>
        /\ \/ /\ port_key[job[t]] = NoTarget
              /\ port_key' = [port_key EXCEPT ![job[t]] = t]
              /\ listening' = [listening EXCEPT ![t] = TRUE]
              /\ step' = [step EXCEPT ![t] = "resume"]
           \/ /\ UNCHANGED <<port_key, listening>>
              /\ step' = [step EXCEPT ![t] = "idle"]
    BY <1>4 DEF Associate, AssociatePort, NowListening
  <2>3. JobsAreOwned'
    BY <2>1, <2>2 DEF JobsAreOwned
  <2>4. PortIsOwners' /\ Associated'
    BY <2>1, <2>2 DEF JobsAreOwned, PortIsOwners, Associated
  <2> QED BY <2>3, <2>4 DEF Owners
<1>5. CASE StartUnheard(t)
  BY <1>5 DEF StartUnheard, Owners, JobsAreOwned, PortIsOwners, Associated
<1>6. CASE Resume(t)
  BY <1>6 DEF Resume, Owners, JobsAreOwned, PortIsOwners, Associated
<1>7. CASE TerminateJob(t)
  BY <1>7 DEF TerminateJob, Killed, Owners, JobsAreOwned, PortIsOwners, Associated
<1>8. CASE BeginDestroy(t)
  BY <1>8 DEF BeginDestroy, Owners, JobsAreOwned, PortIsOwners, Associated
<1>9. CASE Deassociate(t)
  BY <1>9 DEF Deassociate, Erased, Owners, JobsAreOwned, PortIsOwners, Associated
<1>10. CASE Free(t)
  BY <1>10 DEF Free, CloseJob, Killed, Orphaned, Owners, JobsAreOwned, PortIsOwners, Associated,
               StepFollowsLife
<1> QED BY <1>1, <1>2, <1>3, <1>4, <1>5, <1>6, <1>7, <1>8, <1>9, <1>10 DEF Client

(* The processes of a job change nothing about whose job it is.             *)
LEMMA OwnersSystem == ASSUME Base, Owners, NEW j \in Jobs, System(j) PROVE Owners'
<1>1. UNCHANGED <<mode, port_key, object_vars, attached>>
  BY SystemPosts DEF Base
<1> QED BY <1>1 DEF Owners, JobsAreOwned, PortIsOwners, Associated, object_vars

(* What is left when a callback destroys the target it was made on. *)
LEMMA Destroyed ==
  ASSUME Base, ReturnDestroyed
  PROVE  LET t == Entry.key IN
         /\ t \in Targets /\ life[t] = "live" /\ step[t] = "idle"
         /\ mt = "callback" /\ mt' = "next" /\ batch # <<>> /\ batch' = Tail(batch)
         /\ life' = [life EXCEPT ![t] = "free"]
         /\ attached' = IF listening[t] THEN attached \ {t} ELSE attached
         /\ UNCHANGED <<active, born, queue, posted, step, job, has_thread, listening, delivered>>
         /\ mode' = mode \/ (job[t] \in Jobs /\ mode' = [mode EXCEPT ![job[t]] = "killed"])
         /\ \/ port_key' = port_key
            \/ job[t] \in Jobs /\ port_key' = [port_key EXCEPT ![job[t]] = NoTarget]
<1>1. mt = "callback" /\ batch # <<>>
  BY DEF ReturnDestroyed, Base, TypeOK
<1>2. Entry.key \in Targets
  BY <1>1, TailType, PacketFields DEF Base
<1>3. job[Entry.key] \in Jobs \cup {NoJob}
  BY <1>2 DEF Base, TypeOK
<1> QED BY <1>1, <1>2, <1>3 DEF ReturnDestroyed, RestOfBatch, Usable, Erased, CloseJob, Killed, Orphaned

(* The message thread changes nothing about whose job it is.                *)
LEMMA OwnersThread == ASSUME Base, Owners, MessageThread PROVE Owners'
<1>0. Shape /\ StepFollowsLife /\ JobsAreOwned /\ PortIsOwners /\ Associated
  BY DEF Base, Owners, TypeOK, KernelTypeOK, Shape
<1>1. CASE ReturnDestroyed
  <2> DEFINE t == Entry.key
  <2>1. /\ t \in Targets /\ life[t] = "live" /\ step[t] = "idle"
        /\ life' = [life EXCEPT ![t] = "free"]
        /\ attached' = IF listening[t] THEN attached \ {t} ELSE attached
        /\ UNCHANGED <<step, job, listening>>
        /\ mode' = mode \/ (job[t] \in Jobs /\ mode' = [mode EXCEPT ![job[t]] = "killed"])
        /\ \/ port_key' = port_key
           \/ job[t] \in Jobs /\ port_key' = [port_key EXCEPT ![job[t]] = NoTarget]
    BY <1>1, Destroyed
  <2> HIDE DEF t
  <2> USE <1>0, KernelAssumption, TargetAssumption DEF Shape
  <2>2. JobsAreOwned'
    BY <2>1 DEF JobsAreOwned
  <2>3. PortIsOwners' /\ Associated'
    BY <2>1 DEF JobsAreOwned, PortIsOwners, Associated
  <2> QED BY <2>2, <2>3 DEF Owners
<1>2. CASE Dequeue \/ Dispatch \/ Discard \/ Return
  <2>1. UNCHANGED <<mode, port_key, object_vars, attached>>
    BY <1>2 DEF Dequeue, Dispatch, Discard, Return, kernel_vars
  <2> QED BY <1>0, <2>1 DEF Owners, JobsAreOwned, PortIsOwners, Associated, object_vars
<1> QED BY <1>1, <1>2 DEF MessageThread

-----------------------------------------------------------------------------
(***************************************************************************)
(* The invariant: what is on its way                                       *)
(***************************************************************************)
KernelTells == \A j \in Jobs : Tells(j)

(* A packet on its way finds the target it was posted for. *)
OnItsWay == ToSet(batch) \cup ToSet(queue)

PacketsFindTarget ==
  \A p \in OnItsWay :
    /\ life[p.key] # "free" /\ step[p.key] # "close"
    /\ job[p.key] = p.job /\ port_key[p.job] = p.key

(* A job that may still post has its listener. *)
PortIsLive ==
  \A j \in Jobs : port_key[j] # NoTarget /\ active[j] # {} =>
    /\ life[port_key[j]] # "free" /\ step[port_key[j]] # "close"
    /\ job[port_key[j]] = j

(* A listening target is destroyed after the last of its callbacks. *)
AllTold ==
  \A t \in Targets : life[t] = "dying" /\ job[t] # NoJob =>
    port_key[job[t]] = NoTarget \/ SawExitAll(job[t])

(* What was posted is what was handled and what is coming, in this order. *)
Follows ==
  \A j \in Jobs : \E done \in Seq(Notice) :
    posted[j] = done \o Coming(j) /\ delivered[j] = Only(done, Heard)

Reach == PacketsFindTarget /\ PortIsLive /\ AllTold

Delivery == Base /\ Owners /\ KernelTells /\ Reach /\ Follows

(* A job that nothing happens to, and that gets no owner, tells as before. *)
LEMMA TellsKept ==
  ASSUME NEW j \in Jobs, Tells(j),
         active'[j] = active[j], born'[j] = born[j], posted'[j] = posted[j],
         mode'[j] = "unborn" => mode[j] = "unborn",
         \A t \in Targets : life'[t] # "free" /\ job'[t] = j =>
           life[t] # "free" /\ job[t] = j /\ port_key'[j] = port_key[j],
         port_key'[j] \in {port_key[j], NoTarget}
  PROVE  Tells(j)'
  BY DEF Tells

(* A careful client starts the story of a job, or leaves it alone.          *)
LEMMA TellsClient ==
  ASSUME Discipline, Base, Owners, KernelTells, NEW t \in Targets, Client(t)
  PROVE  KernelTells'
<1>0. Shape /\ StepFollowsLife /\ JobsAreOwned /\ TypeOK
  BY DEF Base, Owners, TypeOK, KernelTypeOK, Shape
<1> SUFFICES ASSUME NEW j \in Jobs PROVE Tells(j)'
  BY DEF KernelTells
<1>1. Tells(j)
  BY DEF KernelTells
<1>2. CASE Assign(t)
  <2>1. /\ job[t] = NoJob
        /\ UNCHANGED <<port_key, life, posted>>
    BY <1>2 DEF Assign, Discipline
  <2>2. PICK k \in Jobs : /\ mode[k] = "unborn" /\ mode' = [mode EXCEPT ![k] = "suspended"]
                          /\ job' = [job EXCEPT ![t] = k]
                          /\ born' = [born EXCEPT ![k] = 1]
                          /\ active' = [active EXCEPT ![k] = {1}]
    BY <1>2, <2>1 DEF Assign, CreateSuspended
  <2>3. CASE j = k
    <3>1. born'[j] = 1 /\ active'[j] = {1} /\ posted'[j] = <<>> /\ port_key'[j] = NoTarget
          /\ mode'[j] # "unborn" /\ Story(<<>>)
      BY <1>0, <1>1, <2>1, <2>2, <2>3 DEF Tells, TypeOK, KernelTypeOK, JobsAreOwned, Story
    <3>2. {1} \in SUBSET (1 .. 1)
      OBVIOUS
    <3> QED BY <3>1, <3>2 DEF Tells
  <2>4. CASE j # k
    <3>1. /\ active'[j] = active[j] /\ born'[j] = born[j] /\ mode'[j] = mode[j]
          /\ \A u \in Targets : job'[u] = j => job[u] = j
      BY <1>0, <2>2, <2>4 DEF TypeOK, KernelTypeOK
    <3> QED BY <1>1, <2>1, <3>1, TellsKept
  <2> QED BY <2>3, <2>4
<1>3. CASE Associate(t)
  <2>1. /\ step[t] = "associate" /\ life[t] = "live" /\ job[t] \in Jobs
        /\ UNCHANGED <<mode, active, born, life, job>>
    BY <1>0, <1>3 DEF Associate, Goto, StepFollowsLife, Shape
  <2>2. CASE UNCHANGED <<port_key, posted>>
    BY <1>1, <2>1, <2>2, TellsKept
  <2>3. CASE AssociatePort(job[t], t)
    <3> DEFINE k == job[t]
    <3>1. /\ port_key[k] = NoTarget /\ port_key' = [port_key EXCEPT ![k] = t]
          /\ posted' = [posted EXCEPT ![k] = @ \o Announced(k)]
      BY <2>1, <2>3, AssociatePosts DEF Queued
    <3>2. CASE j = k
      <4>1. posted[j] = <<>>
        BY <1>1, <2>1, <3>1, <3>2 DEF Tells
      <4>2. Announced(j) \in Seq(Notice)
        BY <1>0, AnnouncedType
      <4>3. posted'[j] = Announced(j)
        <5>1. <<>> \o Announced(j) = Announced(j)
          BY <4>2, ConcatEmptySeq
        <5>2. posted \in [Jobs -> Seq(Notice)]
          BY <1>0 DEF TypeOK, KernelTypeOK
        <5> QED BY <3>1, <3>2, <4>1, <5>1, <5>2
      <4>4. active[j] \in SUBSET (1 .. born[j]) /\ active[j] \in SUBSET (1 .. MaxProcs)
            /\ born[j] \in 0 .. MaxProcs
        BY <1>0, <1>1 DEF Tells, TypeOK, KernelTypeOK
      <4>5. /\ Story(Announced(j))
            /\ ToSet(Announced(j)) = {About("new", p) : p \in active[j] \cap (1 .. born[j])}
        BY <4>4, AnnouncedStory DEF Announced
      <4>6. active[j] \cap (1 .. born[j]) = active[j]
        BY <4>4
      <4>7. Accounts(ToSet(Announced(j)), active[j], born[j])
        <5>1. \A p \in active[j] : p <= born[j]
          BY <4>4
        <5> QED BY <4>5, <4>6, <5>1, DistinctNotices DEF Accounts, Zero
      <4>8. port_key'[j] = t /\ t # NoTarget /\ mode[j] # "unborn"
        BY <1>0, <2>1, <3>1, <3>2, KernelAssumption, TargetAssumption
        DEF TypeOK, KernelTypeOK, JobsAreOwned
      <4> QED BY <2>1, <4>3, <4>4, <4>5, <4>7, <4>8 DEF Tells
    <3>3. CASE j # k
      <4>1. port_key'[j] = port_key[j] /\ posted'[j] = posted[j]
        BY <1>0, <2>1, <3>1, <3>3 DEF TypeOK, KernelTypeOK
      <4> QED BY <1>1, <2>1, <4>1, TellsKept
    <3> QED BY <3>2, <3>3
  <2> QED BY <1>3, <2>2, <2>3 DEF Associate
<1>4. CASE Free(t)
  <2>1. /\ UNCHANGED <<active, born, posted, job>> /\ life' = [life EXCEPT ![t] = "free"]
        /\ life[t] = "dying"
        /\ mode' = mode \/ (job[t] \in Jobs /\ mode' = [mode EXCEPT ![job[t]] = "killed"])
        /\ \/ port_key' = port_key
           \/ job[t] \in Jobs /\ port_key' = [port_key EXCEPT ![job[t]] = NoTarget]
    BY <1>0, <1>4 DEF Free, CloseJob, Killed, Orphaned, Goto, StepFollowsLife, Shape
  <2>2. \A u \in Targets : life'[u] # "free" /\ job'[u] = j =>
          life[u] # "free" /\ job[u] = j /\ port_key'[j] = port_key[j]
    BY <1>0, <2>1, TargetAssumption DEF Shape, JobsAreOwned
  <2>3. (mode'[j] = "unborn" => mode[j] = "unborn") /\ port_key'[j] \in {port_key[j], NoTarget}
    BY <1>0, <2>1 DEF Shape
  <2> QED BY <1>1, <2>1, <2>2, <2>3, TellsKept
<1>5. CASE Construct(t)
  <2>1. /\ UNCHANGED <<mode, active, born, posted, port_key>>
        /\ life' = [life EXCEPT ![t] = "live"] /\ job' = [job EXCEPT ![t] = NoJob]
    BY <1>5 DEF Construct, kernel_vars
  <2>2. \A u \in Targets : life'[u] # "free" /\ job'[u] = j => life[u] # "free" /\ job[u] = j
    BY <1>0, <2>1, TargetAssumption DEF Shape
  <2> QED BY <1>1, <2>1, <2>2, TellsKept
<1>6. CASE Resume(t) \/ TerminateJob(t)
  <2>1. UNCHANGED <<active, born, posted, port_key, life, job>>
    BY <1>6 DEF Resume, TerminateJob, object_vars
  <2>2. mode'[j] = "unborn" => mode[j] = "unborn"
    BY <1>0, <1>6 DEF Resume, TerminateJob, Killed, Shape
  <2> QED BY <1>1, <2>1, <2>2, TellsKept
<1>7. CASE Attach(t) \/ StartUnheard(t) \/ BeginDestroy(t) \/ Deassociate(t)
  <2>1. UNCHANGED <<mode, active, born, posted, port_key, job>>
    BY <1>7 DEF Attach, StartUnheard, BeginDestroy, Deassociate, kernel_vars
  <2>2. \A u \in Targets : life'[u] # "free" => life[u] # "free"
    BY <1>0, <1>7 DEF Attach, StartUnheard, BeginDestroy, Deassociate, Shape
  <2> QED BY <1>1, <2>1, <2>2, TellsKept
<1> QED BY <1>2, <1>3, <1>4, <1>5, <1>6, <1>7 DEF Client

(* Only the job whose processes take a step tells more.                     *)
LEMMA TellsSystem ==
  ASSUME Base, KernelTells, NEW k \in Jobs, System(k) PROVE KernelTells'
<1> SUFFICES ASSUME NEW j \in Jobs PROVE Tells(j)'
  BY DEF KernelTells
<1>1. Tells(j) /\ TypeOK
  BY DEF KernelTells, Base
<1>2. /\ UNCHANGED <<mode, port_key, life, job>>
      /\ port_key[k] = NoTarget => UNCHANGED posted
  BY <1>1, SystemPosts, KernelAssumption DEF object_vars
<1>3. CASE j # k
  <2>1. active'[j] = active[j] /\ born'[j] = born[j]
    BY <1>1, <1>3 DEF System, Fork, HitLimit, Exit, TypeOK, KernelTypeOK
  <2>2. posted'[j] = posted[j]
    BY <1>1, <1>2, <1>3, SystemTells DEF Queued, TypeOK, KernelTypeOK, KernelTells
  <2> QED BY <1>1, <1>2, <2>1, <2>2, TellsKept
<1>4. CASE j = k
  <2>1. mode[j] # "unborn"
    BY <1>4 DEF System, Fork, HitLimit, Exit
  <2>2. active'[j] \in SUBSET (1 .. born'[j])
    <3>1. active[j] \in SUBSET (1 .. born[j]) /\ born[j] \in Nat
      BY <1>1 DEF Tells, TypeOK, KernelTypeOK
    <3>2. \/ active'[j] = active[j] \cup {born[j] + 1} /\ born'[j] = born[j] + 1
          \/ active'[j] \subseteq active[j] /\ born'[j] = born[j]
      BY <1>1, <1>4 DEF System, Fork, HitLimit, Exit, TypeOK, KernelTypeOK
    <3> QED BY <3>1, <3>2
  <2>3. CASE port_key[j] = NoTarget
    BY <1>1, <1>2, <1>4, <2>1, <2>2, <2>3 DEF Tells
  <2>4. CASE port_key[j] # NoTarget
    <3>1. PICK ns \in Seq(Notice) :
            /\ Queued(j, port_key[j], ns)
            /\ Story(posted[j] \o ns)
            /\ Accounts(ToSet(posted[j] \o ns), active'[j], born'[j])
      BY <1>1, <1>4, <2>4, SystemTells
    <3>2. posted'[j] = posted[j] \o ns
      BY <1>1, <3>1 DEF Queued, TypeOK, KernelTypeOK
    <3> QED BY <1>2, <2>1, <2>2, <2>4, <3>1, <3>2 DEF Tells
  <2> QED BY <2>3, <2>4
<1> QED BY <1>3, <1>4

(* The message thread adds nothing to what a job has told.                  *)
LEMMA TellsThread ==
  ASSUME Base, Owners, KernelTells, MessageThread PROVE KernelTells'
<1> SUFFICES ASSUME NEW j \in Jobs PROVE Tells(j)'
  BY DEF KernelTells
<1>1. Tells(j) /\ Shape /\ JobsAreOwned
  BY DEF KernelTells, Base, Owners, TypeOK, KernelTypeOK, Shape
<1>2. CASE ReturnDestroyed
  <2> DEFINE t == Entry.key
  <2>1. /\ t \in Targets /\ life[t] = "live"
        /\ life' = [life EXCEPT ![t] = "free"]
        /\ UNCHANGED <<active, born, posted, job>>
        /\ mode' = mode \/ (job[t] \in Jobs /\ mode' = [mode EXCEPT ![job[t]] = "killed"])
        /\ \/ port_key' = port_key
           \/ job[t] \in Jobs /\ port_key' = [port_key EXCEPT ![job[t]] = NoTarget]
    BY <1>2, Destroyed
  <2> HIDE DEF t
  <2>2. \A u \in Targets : life'[u] # "free" /\ job'[u] = j =>
          life[u] # "free" /\ job[u] = j /\ port_key'[j] = port_key[j]
    BY <1>1, <2>1, TargetAssumption DEF Shape, JobsAreOwned
  <2>3. (mode'[j] = "unborn" => mode[j] = "unborn") /\ port_key'[j] \in {port_key[j], NoTarget}
    BY <1>1, <2>1 DEF Shape
  <2> QED BY <1>1, <2>1, <2>2, <2>3, TellsKept
<1>3. CASE Dequeue \/ Dispatch \/ Discard \/ Return
  <2>1. UNCHANGED <<mode, active, born, posted, port_key, life, job>>
    BY <1>3 DEF Dequeue, Dispatch, Discard, Return, kernel_vars, object_vars
  <2> QED BY <1>1, <2>1, TellsKept
<1> QED BY <1>2, <1>3 DEF MessageThread

-----------------------------------------------------------------------------
(* A notice of the kind "zero" in a story is about no process.              *)
LEMMA StoryZero ==
  ASSUME NEW s \in Seq(Notice), Story(s), NEW n \in ToSet(s), n.kind = "zero"
  PROVE  n = Zero
<1>1. PICK i \in 1 .. Len(s) : s[i] = n
  BY DEF ToSet
<1> QED BY <1>1 DEF Story, MayFollow

(* Once OnExitAll was called, the job is empty and nothing is on its way. *)
LEMMA SawAll ==
  ASSUME Delivery, NEW j \in Jobs, SawExitAll(j)
  PROVE  /\ Coming(j) = <<>>
         /\ port_key[j] # NoTarget => active[j] = {}
<1>1. TypeOK /\ Tells(j)
  BY DEF Delivery, Base, KernelTells
<1>2. PICK done \in Seq(Notice) :
        posted[j] = done \o Coming(j) /\ delivered[j] = Only(done, Heard)
  BY DEF Delivery, Follows
<1>3. Coming(j) \in Seq(Notice) /\ posted[j] \in Seq(Notice)
  BY <1>1, ComingType DEF TypeOK, KernelTypeOK
<1>4. PICK n \in ToSet(delivered[j]) : n.kind = "zero"
  BY DEF SawExitAll
<1>5. n \in ToSet(done)
  BY <1>2, <1>4, OnlyRange
<1>6. ToSet(posted[j]) = ToSet(done) \cup ToSet(Coming(j))
  BY <1>2, <1>3, ToSetConcat
<1>7. n = Zero
  BY <1>1, <1>3, <1>4, <1>5, <1>6, StoryZero DEF Tells
<1>8. Coming(j) = <<>>
  <2> DEFINE c == Coming(j)
  <2>1. Story(done \o c) /\ Zero \in ToSet(done) /\ c \in Seq(Notice)
    BY <1>1, <1>2, <1>3, <1>5, <1>7 DEF Tells
  <2> HIDE DEF c
  <2>2. c = <<>>
    BY <2>1, ZeroIsLast
  <2> QED BY <2>2 DEF c
<1>9. port_key[j] # NoTarget => active[j] = {}
  BY <1>1, <1>5, <1>6, <1>7 DEF Tells, Accounts
<1> QED BY <1>8, <1>9

(* What is on its way are packets.                                          *)
LEMMA OnItsWayType == ASSUME TypeOK PROVE OnItsWay \subseteq Packet
<1>1. batch \in Seq(Packet) /\ queue \in Seq(Packet)
  BY DEF TypeOK, KernelTypeOK
<1> QED BY <1>1 DEF OnItsWay, ToSet

(* Between two entries what is in flight is what is on its way. *)
LEMMA OnItsWayUndelivered ==
  ASSUME TypeOK
  PROVE  /\ mt = "next" => OnItsWay = ToSet(Undelivered)
         /\ mt = "callback" => /\ OnItsWay = {Entry} \cup ToSet(Undelivered)
                              /\ ToSet(Undelivered) = ToSet(Tail(batch)) \cup ToSet(queue)
<1>1. batch \in Seq(Packet) /\ queue \in Seq(Packet)
  BY DEF TypeOK, KernelTypeOK
<1>2. ToSet(batch \o queue) = ToSet(batch) \cup ToSet(queue)
  BY <1>1, ToSetConcat
<1>3. ASSUME batch # <<>>
      PROVE  /\ ToSet(Tail(batch) \o queue) = ToSet(Tail(batch)) \cup ToSet(queue)
             /\ ToSet(batch) = {Entry} \cup ToSet(Tail(batch))
  <2> DEFINE a == Tail(batch)
             u == <<Entry>>
  <2>1. a \in Seq(Packet) /\ Entry \in Packet /\ batch = u \o a
    BY <1>3, TailType
  <2>2. u \in Seq(Packet) /\ ToSet(u) = {Entry}
    <3> DEFINE e == Entry
    <3>1. e \in Packet
      BY <2>1
    <3> HIDE DEF e
    <3>2. <<e>> \in Seq(Packet) /\ ToSet(<<e>>) = {e}
      BY <3>1 DEF ToSet
    <3> QED BY <3>2 DEF e
  <2> HIDE DEF a, u
  <2>3. ToSet(a \o queue) = ToSet(a) \cup ToSet(queue) /\ ToSet(u \o a) = ToSet(u) \cup ToSet(a)
    BY <1>1, <2>1, <2>2, ToSetConcat
  <2> QED BY <2>1, <2>2, <2>3 DEF a
<1> QED BY <1>2, <1>3 DEF OnItsWay, Undelivered, TypeOK

(* What is on its way was, or is of the job that posts now.                 *)
LEMMA QueuedFlight ==
  ASSUME TypeOK, NEW key \in Targets, NEW j \in Jobs, NEW ns \in Seq(Notice),
         Queued(j, key, ns), batch' = batch
  PROVE  \A p \in OnItsWay' : p \in OnItsWay \/ (p.key = key /\ p.job = j)
<1> DEFINE b == Packets(key, j, ns)
<1>1. /\ b \in Seq(Packet) /\ Len(b) = Len(ns) /\ DOMAIN b = 1 .. Len(b)
      /\ \A i \in 1 .. Len(ns) : b[i] = [key |-> key, job |-> j, notice |-> ns[i]]
  BY PacketsType
<1> HIDE DEF b
<1>2. ASSUME NEW i \in DOMAIN b PROVE b[i].key = key /\ b[i].job = j
  <2>1. b[i] = [key |-> key, job |-> j, notice |-> ns[i]]
    BY <1>1
  <2> QED BY <2>1
<1>3. \A p \in ToSet(b) : p.key = key /\ p.job = j
  BY <1>2 DEF ToSet
<1>4. queue \in Seq(Packet) /\ queue' = queue \o b
  BY DEF TypeOK, KernelTypeOK, Queued, b
<1>5. ToSet(queue \o b) = ToSet(queue) \cup ToSet(b)
  BY <1>1, <1>4, ToSetConcat
<1>6. OnItsWay' = OnItsWay \cup ToSet(b)
  BY <1>4, <1>5 DEF OnItsWay
<1> QED BY <1>3, <1>6

(* A careful client takes no target away that a packet is for.              *)
LEMMA ReachClient ==
  ASSUME Discipline, Delivery, NEW t \in Targets, Client(t) PROVE Reach'
<1>0. /\ Shape /\ StepFollowsLife /\ JobsAreOwned /\ PortIsOwners /\ Associated
      /\ PacketsFindTarget /\ PortIsLive /\ AllTold /\ TypeOK
      /\ \A p \in OnItsWay : p.key \in Targets /\ p.job \in Jobs
      /\ active \in [Jobs -> SUBSET (1 .. MaxProcs)]
  BY OnItsWayType, PacketFields
  DEF Delivery, Reach, Owners, Base, TypeOK, KernelTypeOK, Shape
<1>1. UNCHANGED <<mt, batch, delivered>>
  BY DEF Client, Construct, Assign, Attach, Associate, StartUnheard, Resume, TerminateJob,
         BeginDestroy, Deassociate, Free, thread_vars
<1>2. \A j : SawExitAll(j)' = SawExitAll(j)
  BY <1>1 DEF SawExitAll
<1>3. ASSUME queue' = queue PROVE OnItsWay' = OnItsWay
  BY <1>1, <1>3 DEF OnItsWay
<1> USE KernelAssumption, TargetAssumption
<1>4. CASE Construct(t)
  <2>1. /\ UNCHANGED <<queue, active, port_key, step>> /\ life[t] = "free"
        /\ life' = [life EXCEPT ![t] = "live"] /\ job' = [job EXCEPT ![t] = NoJob]
    BY <1>4 DEF Construct, kernel_vars
  <2>2. PacketsFindTarget'
    BY <1>0, <1>3, <2>1 DEF PacketsFindTarget, Shape
  <2>3. PortIsLive'
    BY <1>0, <2>1 DEF PortIsLive, Shape
  <2>4. AllTold'
    BY <1>0, <1>2, <2>1 DEF AllTold, Shape
  <2> QED BY <2>2, <2>3, <2>4 DEF Reach
<1>5. CASE Assign(t)
  <2>1. job[t] = NoJob /\ UNCHANGED <<queue, port_key, life, step>> /\ life[t] = "live"
    BY <1>5 DEF Assign, Usable, Discipline
  <2>2. PICK j \in Jobs : /\ mode[j] = "unborn" /\ active' = [active EXCEPT ![j] = {1}]
                          /\ job' = [job EXCEPT ![t] = j]
    BY <1>5, <2>1 DEF Assign, CreateSuspended
  <2>3. PacketsFindTarget'
    BY <1>0, <1>3, <2>1, <2>2 DEF PacketsFindTarget, Shape
  <2>4. PortIsLive'
    BY <1>0, <2>1, <2>2 DEF PortIsLive, Shape, JobsAreOwned
  <2>5. AllTold'
    BY <1>0, <1>2, <2>1, <2>2 DEF AllTold, Shape
  <2> QED BY <2>3, <2>4, <2>5 DEF Reach
<1>6. CASE Associate(t)
  <2>1. /\ step[t] = "associate" /\ life[t] = "live" /\ job[t] \in Jobs
        /\ UNCHANGED <<active, life, job>>
        /\ step' \in {[step EXCEPT ![t] = "resume"], [step EXCEPT ![t] = "idle"]}
    BY <1>0, <1>6 DEF Associate, Goto, StepFollowsLife, Shape
  <2>2. CASE UNCHANGED <<port_key, queue>>
    <3>1. PacketsFindTarget'
      BY <1>0, <1>3, <2>1, <2>2 DEF PacketsFindTarget, Shape
    <3>2. PortIsLive' /\ AllTold'
      BY <1>0, <1>2, <2>1, <2>2 DEF PortIsLive, AllTold, Shape
    <3> QED BY <3>1, <3>2 DEF Reach
  <2>3. CASE AssociatePort(job[t], t)
    <3> DEFINE k == job[t]
    <3>1. /\ port_key[k] = NoTarget /\ port_key' = [port_key EXCEPT ![k] = t]
          /\ Queued(k, t, Announced(k))
      BY <2>1, <2>3, AssociatePosts
    <3>2. \A p \in OnItsWay' : p \in OnItsWay \/ (p.key = t /\ p.job = k)
      BY <1>0, <1>1, <2>1, <3>1, AnnouncedType, QueuedFlight
    <3>5. PacketsFindTarget'
      BY <1>0, <2>1, <3>1, <3>2 DEF PacketsFindTarget, Shape
    <3>6. PortIsLive' /\ AllTold'
      BY <1>0, <1>2, <2>1, <3>1 DEF PortIsLive, AllTold, Shape, JobsAreOwned
    <3> QED BY <3>5, <3>6 DEF Reach
  <2> QED BY <1>6, <2>2, <2>3 DEF Associate
<1>7. CASE Attach(t) \/ StartUnheard(t) \/ Resume(t) \/ TerminateJob(t)
  <2>1. /\ UNCHANGED <<queue, active, port_key, life, job>>
        /\ \A u \in Targets : step'[u] = "close" <=> step[u] = "close"
    BY <1>0, <1>7 DEF Attach, StartUnheard, Resume, TerminateJob, Goto, Usable, kernel_vars,
                      object_vars, Shape
  <2> QED BY <1>0, <1>2, <1>3, <2>1 DEF Reach, PacketsFindTarget, PortIsLive, AllTold, Shape
<1>8. CASE BeginDestroy(t)
  <2>1. /\ UNCHANGED <<queue, active, port_key, job>>
        /\ life[t] = "live" /\ step[t] = "idle" /\ life' = [life EXCEPT ![t] = "dying"]
        /\ step' = [step EXCEPT ![t] = IF listening[t] THEN "deassociate" ELSE "close"]
        /\ Heeds(t)
    BY <1>8 DEF BeginDestroy, Goto, kernel_vars, Discipline
  <2>2. ASSUME NEW j \in Jobs, job[t] = j, port_key[j] = t PROVE listening[t]
    BY <1>0, <2>1, <2>2 DEF Associated
  <2>3. PacketsFindTarget'
    BY <1>0, <1>3, <2>1, <2>2 DEF PacketsFindTarget, Shape
  <2>4. PortIsLive'
    BY <1>0, <2>1, <2>2 DEF PortIsLive, Shape
  <2>5. AllTold'
    BY <1>0, <1>2, <2>1 DEF AllTold, PortIsOwners, Heeds, Shape
  <2> QED BY <2>3, <2>4, <2>5 DEF Reach
<1>9. CASE Deassociate(t)
  <2>1. /\ UNCHANGED <<queue, active, port_key, life, job>>
        /\ life[t] = "dying" /\ mt = "next" /\ step' = [step EXCEPT ![t] = "close"]
    BY <1>0, <1>9 DEF Deassociate, Goto, kernel_vars, LockFree, StepFollowsLife, TypeOK
  <2>2. ASSUME NEW j \in Jobs, job[t] = j, port_key[j] = t
        PROVE  active[j] = {} /\ \A p \in OnItsWay : p.job # j
    <3>1. SawExitAll(j)
      BY <1>0, <2>1, <2>2, TargetAssumption DEF AllTold
    <3>2. Coming(j) = <<>> /\ active[j] = {}
      BY <2>2, <3>1, SawAll
    <3> QED BY <1>0, <2>1, <3>2, ComingSome, OnItsWayUndelivered
  <2>3. PacketsFindTarget'
    <3>1. \A p \in OnItsWay : p.key # t
      BY <1>0, <2>2 DEF PacketsFindTarget
    <3> QED BY <1>0, <1>3, <2>1, <3>1 DEF PacketsFindTarget, Shape
  <2>4. PortIsLive'
    BY <1>0, <2>1, <2>2 DEF PortIsLive, Shape
  <2>5. AllTold'
    BY <1>0, <1>2, <2>1 DEF AllTold
  <2> QED BY <2>3, <2>4, <2>5 DEF Reach
<1>10. CASE Free(t)
  <2>1. /\ UNCHANGED <<queue, active, job>> /\ step[t] = "close"
        /\ life[t] = "dying" /\ life' = [life EXCEPT ![t] = "free"]
        /\ step' = [step EXCEPT ![t] = "idle"]
        /\ \/ port_key' = port_key
           \/ job[t] \in Jobs /\ port_key' = [port_key EXCEPT ![job[t]] = NoTarget]
    BY <1>0, <1>10 DEF Free, CloseJob, Orphaned, Goto, StepFollowsLife, Shape
  <2>2. PacketsFindTarget'
    BY <1>0, <1>3, <2>1 DEF PacketsFindTarget, JobsAreOwned, Shape
  <2>3. PortIsLive'
    BY <1>0, <2>1 DEF PortIsLive, Shape
  <2>4. AllTold'
    BY <1>0, <1>2, <2>1 DEF AllTold, JobsAreOwned, Shape
  <2> QED BY <2>2, <2>3, <2>4 DEF Reach
<1> QED BY <1>4, <1>5, <1>6, <1>7, <1>8, <1>9, <1>10 DEF Client

(* What a job posts is for the target that has it, and that one is there.   *)
LEMMA ReachSystem ==
  ASSUME Delivery, NEW j \in Jobs, System(j) PROVE Reach'
<1>0. PacketsFindTarget /\ PortIsLive /\ AllTold /\ TypeOK
  BY DEF Delivery, Reach, Base
<1>1. /\ UNCHANGED <<port_key, life, step, job, batch, delivered>> /\ active[j] # {}
      /\ active' \in [Jobs -> SUBSET (1 .. MaxProcs)]
      /\ \/ queue' = queue
         \/ port_key[j] \in Targets /\ \E ns \in Seq(Notice) : Queued(j, port_key[j], ns)
  BY <1>0, SystemPosts DEF object_vars, thread_vars
<1>2. \A p \in OnItsWay' : p \in OnItsWay \/
        (port_key[j] \in Targets /\ p.key = port_key[j] /\ p.job = j)
  BY <1>0, <1>1, QueuedFlight DEF OnItsWay
<1>3. PacketsFindTarget'
  BY <1>0, <1>1, <1>2, KernelAssumption DEF PacketsFindTarget, PortIsLive
<1>4. \A k \in Jobs : active[k] = {} => active'[k] = {}
  BY <1>0, <1>1 DEF System, Fork, HitLimit, Exit, TypeOK, KernelTypeOK
<1>5. PortIsLive' /\ AllTold'
  BY <1>0, <1>1, <1>4 DEF PortIsLive, AllTold, SawExitAll
<1> QED BY <1>3, <1>5 DEF Reach

(* A packet is of a target that is in attached_target. *)
LEMMA FindsAttached ==
  ASSUME Delivery, NEW p \in OnItsWay
  PROVE  /\ p.key \in attached /\ life[p.key] # "free" /\ job[p.key] = p.job
         /\ port_key[p.job] = p.key /\ p.key \in Targets /\ p.job \in Jobs
<1>1. p.key \in Targets /\ p.job \in Jobs
  BY OnItsWayType, PacketFields DEF Delivery, Base
<1>2. life[p.key] # "free" /\ step[p.key] # "close"
      /\ job[p.key] = p.job /\ port_key[p.job] = p.key
  BY DEF Delivery, Reach, PacketsFindTarget
<1> QED BY <1>1, <1>2, TargetAssumption DEF Delivery, Owners, Associated

(* The message thread brings no new packet on its way.                      *)
LEMMA ThreadFlight ==
  ASSUME TypeOK, MessageThread PROVE OnItsWay' \subseteq OnItsWay
<1>1. CASE Dequeue
  <2>1. batch = <<>> /\ batch' \in Seq(Packet) /\ queue' \in Seq(Packet)
        /\ batch' \o queue' = queue
    BY <1>1, DequeueSplits
  <2>2. ToSet(batch' \o queue') = ToSet(batch') \cup ToSet(queue')
    BY <2>1, ToSetConcat
  <2> QED BY <2>1, <2>2 DEF OnItsWay
<1>2. CASE Dispatch
  BY <1>2 DEF Dispatch, OnItsWay, kernel_vars
<1>3. CASE Discard \/ Return \/ ReturnDestroyed
  <2>1. batch # <<>> /\ batch' = Tail(batch) /\ queue' = queue
    BY <1>3 DEF Discard, Return, ReturnDestroyed, RestOfBatch, kernel_vars, TypeOK
  <2>2. ToSet(Tail(batch)) \subseteq ToSet(batch)
    <3>1. /\ DOMAIN Tail(batch) = 1 .. Len(batch) - 1 /\ DOMAIN batch = 1 .. Len(batch)
          /\ \A i \in 1 .. Len(batch) - 1 : Tail(batch)[i] = batch[i + 1]
      BY <2>1 DEF TypeOK
    <3>2. \A i \in 1 .. Len(batch) - 1 : i + 1 \in 1 .. Len(batch)
      BY DEF TypeOK
    <3> QED BY <3>1, <3>2 DEF ToSet
  <2> QED BY <2>1, <2>2 DEF OnItsWay
<1> QED BY <1>1, <1>2, <1>3 DEF MessageThread

(* What the message thread handles is told to the target it was for.        *)
LEMMA ReachThread ==
  ASSUME Discipline, Delivery, MessageThread PROVE Reach'
<1>0. /\ PacketsFindTarget /\ PortIsLive /\ AllTold /\ TypeOK /\ Shape /\ JobsAreOwned
      /\ \A p \in OnItsWay : p.key \in Targets /\ p.job \in Jobs
  BY OnItsWayType, PacketFields DEF Delivery, Reach, Base, Owners, TypeOK, KernelTypeOK, Shape
<1>1. CASE ReturnDestroyed
  <2> DEFINE t == Entry.key
             k == Entry.job
  <2>1. /\ t \in Targets /\ life[t] = "live" /\ step[t] = "idle" /\ Heeds(t)
        /\ mt = "callback" /\ batch # <<>> /\ batch' = Tail(batch)
        /\ life' = [life EXCEPT ![t] = "free"]
        /\ UNCHANGED <<active, queue, step, job, delivered>>
        /\ \/ port_key' = port_key
           \/ job[t] \in Jobs /\ port_key' = [port_key EXCEPT ![job[t]] = NoTarget]
    BY <1>1, Destroyed DEF Delivery, Discipline
  <2>2. Entry \in OnItsWay
    BY <1>0, <2>1, OnItsWayUndelivered
  <2>3. job[t] = k /\ port_key[k] = t /\ k \in Jobs
    BY <2>2, FindsAttached
  <2>4. SawExitAll(k)
    BY <2>1, <2>3, TargetAssumption DEF Heeds
  <2>5. active[k] = {} /\ Coming(k) = <<>>
    BY <2>1, <2>3, <2>4, SawAll, KernelAssumption
  <2>6. OnItsWay' = ToSet(Undelivered) /\ OnItsWay' \subseteq OnItsWay
    BY <1>0, <2>1, OnItsWayUndelivered DEF OnItsWay
  <2>7. \A p \in OnItsWay' : p \in OnItsWay /\ p.job # k
    BY <1>0, <2>5, <2>6, ComingSome
  <2> HIDE DEF t, k
  <2>8. PacketsFindTarget'
    <3>1. \A p \in OnItsWay' : p.key # t
      BY <2>3, <2>7 DEF PacketsFindTarget, Delivery, Reach
    <3> QED BY <1>0, <2>1, <2>3, <2>7, <3>1 DEF PacketsFindTarget, Shape
  <2>9. PortIsLive'
    BY <1>0, <2>1, <2>3, <2>5, KernelAssumption DEF PortIsLive, Shape
  <2>10. AllTold'
    BY <1>0, <2>1, TargetAssumption DEF AllTold, SawExitAll, Shape, JobsAreOwned
  <2> QED BY <2>8, <2>9, <2>10 DEF Reach
<1>2. CASE Dequeue \/ Dispatch \/ Discard \/ Return
  <2>1. UNCHANGED <<active, port_key, life, step, job>>
    BY <1>2 DEF Dequeue, Dispatch, Discard, Return, kernel_vars, object_vars
  <2>2. OnItsWay' \subseteq OnItsWay
    BY <1>0, <1>2, ThreadFlight DEF MessageThread
  <2>3. \A j \in Jobs : SawExitAll(j) => SawExitAll(j)'
    <3>1. CASE delivered' = delivered
      BY <3>1 DEF SawExitAll
    <3>2. CASE Dispatch
      <4>1. Entry.job \in Jobs /\ Entry.notice \in Notice
            /\ delivered' = [delivered EXCEPT ![Entry.job] = Append(@, Entry.notice)]
        BY <1>0, <3>2, TailType, PacketFields DEF Dispatch
      <4>2. delivered \in [Jobs -> Seq(Notice)]
        BY <1>0 DEF TypeOK
      <4>3. ToSet(Append(delivered[Entry.job], Entry.notice)) =
              ToSet(delivered[Entry.job]) \cup {Entry.notice}
        BY <4>1, <4>2, ToSetAppend
      <4>4. \A j \in Jobs : ToSet(delivered[j]) \subseteq ToSet(delivered'[j])
        BY <4>1, <4>2, <4>3
      <4> QED BY <4>4 DEF SawExitAll
    <3> QED BY <1>2, <3>1, <3>2 DEF Dequeue, Discard, Return
  <2>4. PacketsFindTarget' /\ PortIsLive'
    BY <1>0, <2>1, <2>2 DEF PacketsFindTarget, PortIsLive
  <2>5. AllTold'
    BY <1>0, <2>1, <2>3 DEF AllTold, Shape
  <2> QED BY <2>4, <2>5 DEF Reach
<1> QED BY <1>1, <1>2 DEF MessageThread

-----------------------------------------------------------------------------
(* A step that moves no packet, and tells nothing, keeps the order.         *)
LEMMA FollowsKept ==
  ASSUME Follows, Undelivered' = Undelivered, UNCHANGED <<posted, delivered>>
  PROVE  Follows'
<1> SUFFICES ASSUME NEW j \in Jobs
             PROVE  \E done \in Seq(Notice) :
                      posted'[j] = done \o Coming(j)' /\ delivered'[j] = Only(done, Heard)
  BY DEF Follows
<1>1. PICK done \in Seq(Notice) :
        posted[j] = done \o Coming(j) /\ delivered[j] = Only(done, Heard)
  BY DEF Follows
<1>2. Coming(j)' = Coming(j)
  BY ComingSame
<1> QED BY <1>1, <1>2

(* What a job posts comes at the end of what it has told.                   *)
LEMMA FollowsQueued ==
  ASSUME TypeOK, Follows, NEW key \in Targets, NEW k \in Jobs, NEW ns \in Seq(Notice),
         Queued(k, key, ns), UNCHANGED <<mt, batch, delivered>>
  PROVE  Follows'
<1> SUFFICES ASSUME NEW j \in Jobs
             PROVE  \E done \in Seq(Notice) :
                      posted'[j] = done \o Coming(j)' /\ delivered'[j] = Only(done, Heard)
  BY DEF Follows
<1>1. PICK done \in Seq(Notice) :
        posted[j] = done \o Coming(j) /\ delivered[j] = Only(done, Heard)
  BY DEF Follows
<1>2. Coming(j)' = IF j = k THEN Coming(j) \o ns ELSE Coming(j)
  BY ComingQueued
<1>3. posted'[j] = IF j = k THEN posted[j] \o ns ELSE posted[j]
  BY DEF Queued, TypeOK, KernelTypeOK
<1>4. (done \o Coming(j)) \o ns = done \o (Coming(j) \o ns)
  <2>1. Coming(j) \in Seq(Notice)
    BY ComingType
  <2>2. \A x, y, z \in Seq(Notice) : (x \o y) \o z = x \o (y \o z)
    BY ConcatAssociative
  <2> QED BY <2>1, <2>2
<1> QED BY <1>1, <1>2, <1>3, <1>4

(* What associating the port posts comes at the end of the story too.       *)
LEMMA FollowsClient ==
  ASSUME Delivery, NEW t \in Targets, Client(t) PROVE Follows'
<1>0. TypeOK /\ StepFollowsLife /\ Follows /\ job \in [Targets -> Jobs \cup {NoJob}]
      /\ step \in [Targets -> {"idle", "associate", "resume", "deassociate", "close"}]
  BY DEF Delivery, Base, TypeOK
<1>1. UNCHANGED <<mt, batch, delivered>>
  BY DEF Client, Construct, Assign, Attach, Associate, StartUnheard, Resume, TerminateJob,
         BeginDestroy, Deassociate, Free, thread_vars
<1>2. CASE UNCHANGED <<queue, posted>>
  BY <1>0, <1>1, <1>2, FollowsKept DEF Undelivered
<1>3. CASE Associate(t) /\ AssociatePort(job[t], t)
  <2>1. job[t] \in Jobs
    BY <1>0, <1>3 DEF Associate, Goto, StepFollowsLife
  <2>2. Queued(job[t], t, Announced(job[t])) /\ Announced(job[t]) \in Seq(Notice)
    BY <1>0, <1>3, <2>1, AssociatePosts, AnnouncedType
  <2> QED BY <1>0, <1>1, <2>1, <2>2, FollowsQueued
<1> QED BY <1>2, <1>3 DEF Client, Construct, Assign, Attach, Associate, StartUnheard, Resume,
           TerminateJob, BeginDestroy, Deassociate, Free, kernel_vars

(* The processes of a job post at the end of its story.                     *)
LEMMA FollowsSystem ==
  ASSUME Delivery, NEW j \in Jobs, System(j) PROVE Follows'
<1>0. TypeOK /\ Follows
  BY DEF Delivery, Base
<1>1. /\ UNCHANGED <<mt, batch, delivered>>
      /\ \/ UNCHANGED <<queue, posted>>
         \/ port_key[j] \in Targets /\ \E ns \in Seq(Notice) : Queued(j, port_key[j], ns)
  BY <1>0, SystemPosts DEF thread_vars
<1> QED BY <1>0, <1>1, FollowsKept, FollowsQueued DEF Undelivered

(* The entry that the message thread takes up is the next of its job. *)
LEMMA TakesNext ==
  ASSUME TypeOK, Follows, Dispatch \/ Discard, NEW k, NEW n, k = Entry.job, n = Entry.notice
  PROVE  /\ k \in Jobs /\ n \in Notice /\ Entry \in OnItsWay
         /\ \A j \in Jobs : j # k => Coming(j)' = Coming(j)
         /\ \E done \in Seq(Notice) :
              /\ posted[k] = done \o (<<n>> \o Coming(k)') /\ Coming(k)' \in Seq(Notice)
              /\ posted[k] = Append(done, n) \o Coming(k)'
              /\ delivered[k] = Only(done, Heard)
              /\ Only(Append(done, n), Heard) =
                   IF n \in Heard THEN Append(delivered[k], n) ELSE delivered[k]
<1> DEFINE c == Coming(k)'
           u == <<n>>
<1>1. /\ mt = "next" /\ batch # <<>> /\ queue' = queue
      /\ \/ mt' = "callback" /\ batch' = batch
         \/ mt' = "next" /\ batch' = Tail(batch)
  BY DEF Dispatch, Discard, RestOfBatch, kernel_vars
<1>2. k \in Jobs /\ n \in Notice /\ Entry \in OnItsWay
  <2>1. Entry \in Packet
    BY <1>1, TailType
  <2>2. 1 \in DOMAIN batch /\ Entry = batch[1]
    BY <1>1 DEF TypeOK, Entry
  <2>3. Entry \in OnItsWay
    BY <2>2 DEF OnItsWay, ToSet
  <2> QED BY <2>1, <2>3, PacketFields
<1>3. ASSUME NEW j \in Jobs
      PROVE  /\ Coming(j)' \in Seq(Notice)
             /\ Coming(j) = IF k = j THEN <<n>> \o Coming(j)' ELSE Coming(j)'
  <2>1. /\ Coming(j)' \in Seq(Notice)
        /\ Coming(j) = IF Entry.job = j THEN <<Entry.notice>> \o Coming(j)' ELSE Coming(j)'
    BY <1>1, ComingNext
  <2> QED BY <2>1
<1>4. PICK done \in Seq(Notice) :
        posted[k] = done \o Coming(k) /\ delivered[k] = Only(done, Heard)
  BY <1>2 DEF Follows
<1>5. posted[k] = done \o (u \o c) /\ c \in Seq(Notice)
  <2>1. Coming(k) = u \o c /\ c \in Seq(Notice)
    BY <1>2, <1>3
  <2> HIDE DEF u, c
  <2> QED BY <1>4, <2>1
<1>6. u \in Seq(Notice) /\ Append(done, n) = done \o u
  BY <1>2, AppendIsConcat
<1>7. Only(Append(done, n), Heard) =
        IF n \in Heard THEN Append(delivered[k], n) ELSE delivered[k]
  <2>1. Only(Append(done, n), Heard) =
          IF n \in Heard THEN Append(Only(done, Heard), n) ELSE Only(done, Heard)
    <3>1. \A s \in Seq(Notice), e \in Notice :
            Only(Append(s, e), Heard) = IF e \in Heard THEN Append(Only(s, Heard), e) ELSE Only(s, Heard)
      BY OnlyAppend
    <3> QED BY ONLY <1>2, <1>4, <3>1, Zenon
  <2> QED BY <1>4, <2>1
<1>8. (done \o u) \o c = done \o (u \o c)
  <2>1. \A x, y, z \in Seq(Notice) : (x \o y) \o z = x \o (y \o z)
    BY ConcatAssociative
  <2> HIDE DEF u, c
  <2> QED BY <1>5, <1>6, <2>1
<1>9. posted[k] = Append(done, n) \o c
  BY <1>5, <1>6, <1>8
<1>10. \A j \in Jobs : j # k => Coming(j)' = Coming(j)
  BY <1>3
<1> QED BY <1>2, <1>4, <1>5, <1>7, <1>9, <1>10

(* No entry is dropped that has a callback, as long as all find their target. *)
LEMMA FollowsThread ==
  ASSUME TypeOK, Follows, \A p \in OnItsWay : p.key \in attached, MessageThread
  PROVE  Follows'
<1>0. TypeOK /\ Follows /\ delivered \in [Jobs -> Seq(Notice)]
  BY DEF TypeOK
<1>1. CASE Dequeue
  <2>1. Undelivered' = Undelivered /\ UNCHANGED <<posted, delivered>>
    <3>1. /\ mt = "next" /\ mt' = mt /\ batch = <<>> /\ batch' \o queue' = queue
          /\ UNCHANGED <<posted, delivered>>
      BY <1>0, <1>1, DequeueSplits
    <3>2. <<>> \o queue = queue
      BY <1>0, ConcatEmptySeq DEF TypeOK, KernelTypeOK
    <3> QED BY <3>1, <3>2 DEF Undelivered
  <2> QED BY <1>0, <2>1, FollowsKept
<1>2. CASE Return \/ ReturnDestroyed
  <2>1. /\ mt = "callback" /\ mt' = "next" /\ batch' = Tail(batch)
        /\ UNCHANGED <<queue, posted, delivered>>
    BY <1>2 DEF Return, ReturnDestroyed, RestOfBatch, kernel_vars
  <2>2. Undelivered' = Undelivered
    BY <2>1 DEF Undelivered
  <2> QED BY <1>0, <2>1, <2>2, FollowsKept
<1>3. CASE Dispatch \/ Discard
  <2>0. PICK k, n : k = Entry.job /\ n = Entry.notice
    OBVIOUS
  <2>1. k \in Jobs /\ n \in Notice /\ Entry \in OnItsWay
        /\ \A j \in Jobs : j # k => Coming(j)' = Coming(j)
    BY <1>3, <2>0, TakesNext
  <2>2. PICK done \in Seq(Notice) :
          /\ posted[k] = Append(done, n) \o Coming(k)'
          /\ Only(Append(done, n), Heard) =
               IF n \in Heard THEN Append(delivered[k], n) ELSE delivered[k]
    BY <1>3, <2>0, TakesNext
  <2>3. posted' = posted
    BY <1>3 DEF Dispatch, Discard, kernel_vars
  <2>4. /\ delivered'[k] = Only(Append(done, n), Heard)
        /\ \A j \in Jobs : j # k => delivered'[j] = delivered[j]
    <3>1. CASE Dispatch
      <4>1. n \in Heard
        BY <2>0, <2>1, <3>1 DEF Dispatch, HasCallback, Heard
      <4> QED BY <1>0, <2>0, <2>1, <2>2, <3>1, <4>1 DEF Dispatch
    <3>2. CASE Discard
      <4>1. Entry.key \in attached
        BY <2>1
      <4>2. n \notin Heard
        BY <2>0, <3>2, <4>1 DEF Discard, Found, HasCallback, Heard
      <4> QED BY <2>2, <3>2, <4>2 DEF Discard
    <3> QED BY <1>3, <3>1, <3>2
  <2>5. Append(done, n) \in Seq(Notice)
    BY <2>1
  <2>6. ASSUME NEW j \in Jobs
        PROVE  \E d \in Seq(Notice) :
                 posted'[j] = d \o Coming(j)' /\ delivered'[j] = Only(d, Heard)
    <3>1. CASE j = k
      <4> DEFINE d == Append(done, n)
      <4>1. d \in Seq(Notice) /\ posted'[j] = d \o Coming(j)' /\ delivered'[j] = Only(d, Heard)
        BY <2>2, <2>3, <2>4, <2>5, <3>1
      <4> HIDE DEF d
      <4> QED BY <4>1
    <3>2. CASE j # k
      BY <1>0, <2>1, <2>3, <2>4, <3>2 DEF Follows
    <3> QED BY <3>1, <3>2
  <2> QED BY <2>6 DEF Follows
<1> QED BY <1>1, <1>2, <1>3 DEF MessageThread

(* Nothing is told or on its way at first.                                  *)
LEMMA DeliveryInit == Init => Delivery
<1> SUFFICES ASSUME Init PROVE Delivery
  OBVIOUS
<1>1. Base /\ Owners
  BY KernelAssumption, TargetAssumption
  DEF Init, KernelInit, Base, TypeOK, KernelTypeOK, StepFollowsLife, Owners, JobsAreOwned,
      PortIsOwners, Associated
<1>2. KernelTells
  BY DEF Init, KernelInit, KernelTells, Tells, Story
<1>3. Reach
  BY DEF Init, KernelInit, Reach, PacketsFindTarget, OnItsWay, ToSet, PortIsLive, AllTold
<1>4. Follows
  <2>1. Undelivered = <<>>
    BY ConcatEmptySeq DEF Init, KernelInit, Undelivered
  <2>2. \A j \in Jobs : Coming(j) = <<>>
    BY <2>1, OnlyEmpty DEF Coming, Notices
  <2>3. Only(<<>>, Heard) = <<>>
    BY OnlyEmpty
  <2>4. <<>> \in Seq(Notice) /\ <<>> \o <<>> = <<>>
    OBVIOUS
  <2> QED BY <2>2, <2>3, <2>4 DEF Init, KernelInit, Follows
<1> QED BY <1>1, <1>2, <1>3, <1>4 DEF Delivery

(* The invariant is inductive.                                              *)
LEMMA DeliveryStep == ASSUME Discipline, Delivery, [Next]_vars PROVE Delivery'
<1>1. CASE UNCHANGED vars
  <2> USE <1>1 DEF vars, kernel_vars, object_vars, thread_vars, Delivery
  <2>1. Base'
    BY DEF Base, TypeOK, KernelTypeOK, StepFollowsLife
  <2>2. Owners'
    BY DEF Owners, JobsAreOwned, PortIsOwners, Associated
  <2>3. KernelTells'
    BY DEF KernelTells, Tells
  <2>4. Reach'
    BY DEF Reach, PacketsFindTarget, OnItsWay, PortIsLive, AllTold, SawExitAll
  <2>5. Follows'
    BY FollowsKept DEF Undelivered
  <2> QED BY <2>1, <2>2, <2>3, <2>4, <2>5
<1>2. ASSUME NEW t \in Targets, Client(t) PROVE Delivery'
  BY <1>2, BaseClient, OwnersClient, TellsClient, ReachClient, FollowsClient DEF Delivery
<1>3. ASSUME NEW j \in Jobs, System(j) PROVE Delivery'
  BY <1>3, BaseSystem, OwnersSystem, TellsSystem, ReachSystem, FollowsSystem DEF Delivery
<1>4. ASSUME MessageThread PROVE Delivery'
  BY <1>4, BaseThread, OwnersThread, TellsThread, ReachThread, FindsAttached, FollowsThread
  DEF Delivery, Base
<1> QED BY <1>1, <1>2, <1>3, <1>4 DEF Next, AtRest

(* It holds always, whichever calls fail.                                   *)
LEMMA DeliveryInvariant == ASSUME Careful PROVE Spec => []Delivery
<1>1. Delivery /\ [Next]_vars => Delivery'
  BY DeliveryStep, CarefulIsDisciplined
<1> QED BY <1>1, DeliveryInit, PTL DEF Spec

-----------------------------------------------------------------------------
(* What the invariant says of what a target has been told.                  *)
LEMMA LosesNothing == ASSUME Delivery PROVE NothingLost
<1> SUFFICES ASSUME NEW j \in Jobs
             PROVE  Only(posted[j], Heard) = delivered[j] \o Only(Coming(j), Heard)
  BY DEF NothingLost
<1>1. PICK done \in Seq(Notice) :
        posted[j] = done \o Coming(j) /\ delivered[j] = Only(done, Heard)
  BY DEF Delivery, Follows
<1> DEFINE c == Coming(j)
<1>2. c \in Seq(Notice)
  BY ComingType DEF Delivery, Base
<1> HIDE DEF c
<1>3. Only(done \o c, Heard) = Only(done, Heard) \o Only(c, Heard)
  BY <1>2, OnlyConcat
<1> QED BY <1>1, <1>3 DEF c

(* A target that listens misses no notice of its job, hears none twice and  *)
(* hears them in order: Start attaches before it associates the port, and   *)
(* what the destructor could cut off has been told by then                  *)
(* (core/target.cc:38-42, core/job_object.cc:169-176).                      *)
THEOREM NoNoticeLost == Careful => (Spec => []NothingLost)
<1> SUFFICES ASSUME Careful PROVE Spec => []NothingLost
  OBVIOUS
<1> QED BY LosesNothing, DeliveryInvariant, PTL

(* The packet in hand is for the target it is handed to.                    *)
LEMMA CallsOwn == ASSUME Delivery PROVE NoCrossDelivery
<1>1. mt = "callback" => Entry \in OnItsWay
  BY OnItsWayUndelivered DEF Delivery, Base
<1> QED BY <1>1, FindsAttached DEF NoCrossDelivery

(* The target it is handed to is there.                                     *)
LEMMA CallsLive == ASSUME Delivery PROVE CallbackOnLiveObject
<1>1. mt = "callback" => Entry \in OnItsWay
  BY OnItsWayUndelivered DEF Delivery, Base
<1> QED BY <1>1 DEF CallbackOnLiveObject, Delivery, Reach, PacketsFindTarget

(* A callback reaches a live object also where an association has failed and *)
(* left its entry in attached_target, as long as clients are careful        *)
(* (core/job_object.cc:160-176, 204-229).                                   *)
THEOREM CarefulCallbackLive == Careful => (Spec => []CallbackOnLiveObject)
<1> SUFFICES ASSUME Careful PROVE Spec => []CallbackOnLiveObject
  OBVIOUS
<1> QED BY CallsLive, DeliveryInvariant, PTL

(* No callback is made for another target's job: no packet of a job outlives *)
(* its target, whose address may be used again (core/job_object.cc:204).    *)
THEOREM CallbacksAreOwn == Careful => (Spec => []NoCrossDelivery)
<1> SUFFICES ASSUME Careful PROVE Spec => []NoCrossDelivery
  OBVIOUS
<1> QED BY CallsOwn, DeliveryInvariant, PTL

(* A process that was announced has a number among the possible ones.       *)
LEMMA StoryNew ==
  ASSUME NEW s \in Seq(Notice), Story(s), NEW p, About("new", p) \in ToSet(s)
  PROVE  p \in 1 .. MaxProcs
<1>1. PICK i \in 1 .. Len(s) : s[i] = About("new", p)
  BY DEF ToSet
<1>2. MayFollow({s[k] : k \in 1 .. i - 1}, About("new", p))
  BY <1>1 DEF Story
<1> QED BY <1>2, DistinctNotices DEF MayFollow

(* A callback is the next of the stream. *)
LEMMA DispatchSays ==
  ASSUME Delivery, Dispatch, NEW k, NEW n, k = Entry.job, n = Entry.notice
  PROVE  k \in Jobs /\ Stream!Say(k)
<1>1. /\ k \in Jobs /\ n \in Notice /\ n.kind # "time_limit"
      /\ delivered' = [delivered EXCEPT ![k] = Append(@, n)]
  BY TakesNext DEF Delivery, Base, Dispatch, HasCallback
<1>2. PICK done \in Seq(Notice) :
        /\ posted[k] = done \o (<<n>> \o Coming(k)') /\ Coming(k)' \in Seq(Notice)
        /\ delivered[k] = Only(done, Heard)
  BY TakesNext DEF Delivery, Base
<1>3. Story(posted[k])
  BY <1>1 DEF Delivery, KernelTells, Tells
<1> DEFINE before == ToSet(done)
<1>4. MayFollow(before, n)
  <2> DEFINE c == Coming(k)'
  <2>1. Story(done \o (<<n>> \o c)) /\ c \in Seq(Notice)
    BY <1>2, <1>3
  <2> HIDE DEF c
  <2> QED BY <1>1, <2>1, StoryAt
<1>5. ToSet(delivered[k]) = before \cap Heard
  BY <1>2, OnlyRange
<1>6. before \subseteq Notice
  BY DEF ToSet
<1>7. \A p : About("new", p) \in before => p \in 1 .. MaxProcs
  <2> SUFFICES ASSUME NEW p, About("new", p) \in before PROVE p \in 1 .. MaxProcs
    OBVIOUS
  <2>1. ToSet(posted[k]) = before \cup ToSet(<<n>> \o Coming(k)')
    <3> DEFINE c == <<n>> \o Coming(k)'
    <3>1. c \in Seq(Notice)
      <4>1. <<n>> \in Seq(Notice)
        BY <1>1
      <4> QED BY <1>2, <4>1, ConcatProperties
    <3> HIDE DEF c
    <3>2. ToSet(done \o c) = before \cup ToSet(c)
      BY <3>1, ToSetConcat
    <3> QED BY <1>2, <3>2 DEF c
  <2>2. posted[k] \in Seq(Notice)
    BY <1>1 DEF Delivery, Base, TypeOK, KernelTypeOK
  <2> QED BY <1>3, <2>1, <2>2, StoryNew
<1>8. n = About(n.kind, n.pid) /\ n.pid \in 0 .. MaxProcs
      /\ n.kind \in {"new", "exit", "zero", "process_limit", "memory_limit"}
  BY <1>1 DEF Notice, About, Limits
<1>9. \A p : /\ About("new", p) \in ToSet(delivered[k]) <=> About("new", p) \in before
             /\ About("exit", p) \in ToSet(delivered[k]) <=> About("exit", p) \in before
             /\ About("zero", p) \in ToSet(delivered[k]) <=> About("zero", p) \in before
  BY <1>5, <1>6, DistinctNotices DEF Heard
<1>10. /\ Stream!Heard(k, "new") = {p \in 1 .. MaxProcs : About("new", p) \in before}
       /\ Stream!Heard(k, "exit") = {p \in 1 .. MaxProcs : About("exit", p) \in before}
       /\ Stream!Ended(k) <=> Zero \in before
  <2> HIDE DEF before
  <2>1. \A kind, p : Stream!About(kind, p) = About(kind, p)
    BY DEF Stream!About, About
  <2>2. /\ Stream!Heard(k, "new") = {p \in 1 .. MaxProcs : About("new", p) \in ToSet(delivered[k])}
        /\ Stream!Heard(k, "exit") = {p \in 1 .. MaxProcs : About("exit", p) \in ToSet(delivered[k])}
        /\ Stream!Ended(k) <=> About("zero", 0) \in ToSet(delivered[k])
    <3>1. Stream!ToSet(delivered[k]) = ToSet(delivered[k])
      BY DEF Stream!ToSet, ToSet
    <3> QED BY <2>1, <3>1 DEF Stream!Heard, Stream!Ended
  <2>3. Stream!Ended(k) <=> Zero \in before
    BY <1>9, <2>2 DEF Zero
  <2>4. Stream!Heard(k, "new") = {p \in 1 .. MaxProcs : About("new", p) \in before}
    BY <1>9, <2>2
  <2>5. Stream!Heard(k, "exit") = {p \in 1 .. MaxProcs : About("exit", p) \in before}
    BY <1>9, <2>2
  <2> QED BY <2>3, <2>4, <2>5
<1> HIDE DEF before
<1>11. ~Stream!Ended(k)
  BY <1>4, <1>10 DEF MayFollow
<1>12. Stream!May(k, n)
  <2>1. CASE n.kind = "new"
    BY <1>4, <1>8, <1>10, <2>1 DEF MayFollow, Stream!May
  <2>2. CASE n.kind = "exit"
    BY <1>4, <1>7, <1>8, <1>10, <2>2 DEF MayFollow, Stream!May, Stream!Present
  <2>3. CASE n.kind = "zero"
    <3>1. n = Zero
      BY <1>4, <2>3 DEF MayFollow
    <3>2. n.pid = 0
      BY <3>1, DistinctNotices DEF Zero
    <3>3. Stream!Heard(k, "new") # {} /\ Stream!Present(k) = {}
      BY <1>4, <1>10, <2>3 DEF MayFollow, Stream!Present
    <3> QED BY <2>3, <3>2, <3>3 DEF Stream!May
  <2>4. CASE n.kind \in {"process_limit", "memory_limit"}
    <3>1. About("new", n.pid) \in before /\ About("exit", n.pid) \notin before
      BY <1>4, <2>4 DEF MayFollow, Limits
    <3> QED BY <1>7, <1>10, <2>4, <3>1 DEF Stream!May, Stream!Present
  <2> QED BY <1>8, <2>1, <2>2, <2>3, <2>4
<1>13. n \in Stream!Notice
  BY <1>1, <1>8 DEF Stream!Notice, Notice
<1>14. delivered'[k] # delivered[k]
  <2>1. delivered \in [Jobs -> Seq(Notice)]
    BY DEF Delivery, Base, TypeOK
  <2>2. delivered[k] \in Seq(Notice) /\ delivered'[k] = Append(delivered[k], n)
    BY <1>1, <2>1
  <2> DEFINE d == delivered[k]
  <2> HIDE DEF d
  <2>3. Len(Append(d, n)) # Len(d)
    BY <1>1, <2>2 DEF d
  <2> QED BY <2>2, <2>3 DEF d
<1> QED BY <1>1, <1>11, <1>12, <1>13, <1>14 DEF Stream!Say

(* A callback is one its client may be told next; no other step tells.      *)
LEMMA StreamStep == ASSUME Delivery, [Next]_vars PROVE [Stream!Next]_delivered
<1>1. CASE Dispatch
  <2>1. PICK k, n : k = Entry.job /\ n = Entry.notice
    OBVIOUS
  <2>2. k \in Jobs /\ Stream!Say(k)
    BY <1>1, <2>1, DispatchSays
  <2> QED BY <2>2 DEF Stream!Next
<1>2. CASE ~Dispatch
  <2>1. ASSUME NEW t \in Targets, Client(t) PROVE delivered' = delivered
    BY <2>1 DEF Client, Construct, Assign, Attach, Associate, StartUnheard, Resume, TerminateJob,
       BeginDestroy, Deassociate, Free, thread_vars
  <2>2. ASSUME NEW j \in Jobs, System(j) PROVE delivered' = delivered
    BY <2>2 DEF System, thread_vars
  <2>3. ASSUME MessageThread PROVE delivered' = delivered
    BY <1>2, <2>3 DEF MessageThread, Dequeue, Discard, Return, ReturnDestroyed
  <2> QED BY <2>1, <2>2, <2>3 DEF Next, AtRest, vars, thread_vars
<1> QED BY <1>1, <1>2

(* What is called back for each job is a stream as EventStream describes it: *)
(* no callback comes after OnExitAll, which comes when every process that    *)
(* was announced has been reported gone (core/job_object.cc:196-229).        *)
THEOREM StreamImplemented == Careful => (Spec => ImplementsStream)
<1> SUFFICES ASSUME Careful PROVE Spec => ImplementsStream
  OBVIOUS
<1>1. Init => Stream!Init
  BY DEF Init, Stream!Init
<1>2. Delivery /\ [Next]_vars => [Stream!Next]_delivered
  BY StreamStep
<1>3. Spec => []Delivery
  BY DeliveryInvariant
<1> QED BY <1>1, <1>2, <1>3, PTL DEF Spec, ImplementsStream, Stream!Spec
=============================================================================
