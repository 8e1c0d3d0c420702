----------------------------- MODULE JobKernel -----------------------------
(***************************************************************************)
(* The Windows job objects the library drives, as core/job_object.cc and   *)
(* core/container.cc use them: a job with its processes, the association   *)
(* of a completion port under a key, the notices the system queues on the  *)
(* port, and KILL_ON_JOB_CLOSE.  Nothing here is code of the repository.   *)
(***************************************************************************)
EXTENDS Naturals, Sequences, SequencesExt, Filtering

CONSTANTS Targets,    \* addresses a Target can be constructed at: the keys
          Jobs,       \* identities of job objects, each created once
          NoTarget,   \* a job that no port is associated with
          MaxProcs,   \* bound on the processes a job ever holds
          MaxNotices  \* bound on the limit notices a job ever posts

ASSUME KernelAssumption ==
  /\ NoTarget \notin Targets
  /\ MaxProcs \in Nat \ {0}
  /\ MaxNotices \in Nat

VARIABLES mode,      \* what may happen in each job
          active,    \* its processes, numbered in order of creation
          born,      \* how many it has ever had
          port_key,  \* the key its port was associated with
          queue,     \* completion packets waiting on the port
          posted     \* history: the notices the job has queued

kernel_vars == <<mode, active, born, port_key, queue, posted>>

Limits == {"process_limit", "memory_limit", "time_limit"}

Notice == [kind : {"new", "exit", "zero"} \cup Limits, pid : 0..MaxProcs]

(* A packet carries the key; the job it is about is known only to us. *)
Packet == [key : Targets, job : Jobs, notice : Notice]

KernelTypeOK ==
  /\ mode \in [Jobs -> {"unborn", "suspended", "running", "killed"}]
  /\ active \in [Jobs -> SUBSET (1..MaxProcs)]
  /\ born \in [Jobs -> 0..MaxProcs]
  /\ port_key \in [Jobs -> Targets \cup {NoTarget}]
  /\ queue \in Seq(Packet)
  /\ posted \in [Jobs -> Seq(Notice)]

KernelInit ==
  /\ mode = [j \in Jobs |-> "unborn"]
  /\ active = [j \in Jobs |-> {}]
  /\ born = [j \in Jobs |-> 0]
  /\ port_key = [j \in Jobs |-> NoTarget]
  /\ queue = <<>>
  /\ posted = [j \in Jobs |-> <<>>]

About(kind, p) == [kind |-> kind, pid |-> p]

Packets(key, j, notices) ==
  [i \in DOMAIN notices |-> [key |-> key, job |-> j, notice |-> notices[i]]]

(* Queue the notices of job j, if a port is associated with it. *)
Post(j, notices) ==
  IF port_key[j] = NoTarget
  THEN UNCHANGED <<queue, posted>>
  ELSE /\ queue' = queue \o Packets(port_key[j], j, notices)
       /\ posted' = [posted EXCEPT ![j] = @ \o notices]

(* A new job holding one suspended process. *)
CreateSuspended(j) ==
  /\ mode[j] = "unborn"
  /\ born' = [born EXCEPT ![j] = 1]
  /\ active' = [active EXCEPT ![j] = {1}]

(* A process of the job creates another one. *)
Fork(j) ==
  /\ mode[j] = "running"
  /\ active[j] # {}
  /\ born[j] < MaxProcs
  /\ born' = [born EXCEPT ![j] = @ + 1]
  /\ active' = [active EXCEPT ![j] = @ \cup {born[j] + 1}]
  /\ Post(j, <<About("new", born[j] + 1)>>)
  /\ UNCHANGED <<mode, port_key>>

(* A limit is hit: the notice tells of it, the process goes on or exits. *)
HitLimit(j) ==
  /\ mode[j] = "running"
  /\ Len(SelectSeq(posted[j], LAMBDA n : n.kind \in Limits)) < MaxNotices
  /\ \E p \in active[j], k \in Limits : Post(j, <<About(k, p)>>)
  /\ UNCHANGED <<mode, active, born, port_key>>

(* A process exits, normally or not; the last one empties the job. *)
Exit(j) ==
  /\ mode[j] \in {"running", "killed"}
  /\ \E p \in active[j] :
       /\ active' = [active EXCEPT ![j] = @ \ {p}]
       /\ Post(j, <<About("exit", p)>> \o
                  IF active[j] = {p} THEN <<About("zero", 0)>> ELSE <<>>)
  /\ UNCHANGED <<mode, born, port_key>>

(* Associating a port announces the processes that are already there.  A   *)
(* job takes one port in its life.                                         *)
AssociatePort(j, key) ==
  /\ port_key[j] = NoTarget
  /\ port_key' = [port_key EXCEPT ![j] = key]
  /\ LET notices == [i \in 1..born[j] |-> About("new", i)]
         present == Only(notices, {n \in Notice : n.pid \in active[j]})
     IN  /\ queue' = queue \o Packets(key, j, present)
         /\ posted' = [posted EXCEPT ![j] = @ \o present]

(* What closing the last handle of job j may leave: its processes die, and *)
(* what they still post may or may not reach the port.                     *)
Orphaned(j) == {port_key, [port_key EXCEPT ![j] = NoTarget]}
Killed(j) == [mode EXCEPT ![j] = "killed"]
=============================================================================
