------------------------------ MODULE Sandbox ------------------------------
(***************************************************************************)
(* What a client of Container may rely on: a spawn takes effect in one     *)
(* step, whatever it caches, makes lazily or fails at on the way.  It gives *)
(* the target a suspended process under the limits that are asked for, or  *)
(* it gives nothing; only the target's owner lets the process execute; only *)
(* the client changes what is asked for, and only between spawns; and what *)
(* is not to be killed with its job may stay behind.                       *)
(***************************************************************************)
CONSTANTS Clients,  \* threads, each with a target of its own
          Jobs,     \* identities of jobs, each with one process
          NoJob,
          Policies  \* what can be asked for: records with a field kill_on_close

VARIABLES asked,    \* what processes are to be spawned as
          calling,  \* the clients whose spawn is under way
          owned,    \* the job of each client's target
          process   \* what there is in each job

vars == <<asked, calling, owned, process>>

Nothing == [state |-> "none"]

Init ==
  /\ asked \in Policies
  /\ calling = {}
  /\ owned = [c \in Clients |-> NoJob]
  /\ process = [j \in Jobs |-> Nothing]

Call(c) ==
  /\ c \notin calling /\ owned[c] = NoJob
  /\ calling' = calling \cup {c}
  /\ UNCHANGED <<asked, owned, process>>

(* The limits of a job: the policy's, and the options' if there are any. *)
Limits(options) ==
  (IF asked.kill_on_close THEN {"kill"} ELSE {}) \cup (IF options THEN {"options"} ELSE {})

New(j) ==
  /\ process[j] = Nothing
  /\ \E options \in BOOLEAN :
       process' = [process EXCEPT ![j] = [state |-> "suspended", limits |-> Limits(options)]]

Spawn(c, j) ==
  /\ c \in calling
  /\ calling' = calling \ {c}
  /\ owned' = [owned EXCEPT ![c] = j]
  /\ New(j)
  /\ UNCHANGED asked

(* A spawn that fails late leaves its process, never to execute, in a job *)
(* that is not to kill it.                                                *)
Fail(c) ==
  /\ c \in calling
  /\ calling' = calling \ {c}
  /\ \/ UNCHANGED process
     \/ ~asked.kill_on_close /\ \E j \in Jobs : New(j)
  /\ UNCHANGED <<asked, owned>>

Start(c) ==
  /\ owned[c] # NoJob
  /\ process[owned[c]].state = "suspended"
  /\ process' = [process EXCEPT ![owned[c]].state = "running"]
  /\ UNCHANGED <<asked, calling, owned>>

(* The job is closed with the target. *)
Destroy(c) ==
  /\ owned[c] # NoJob
  /\ owned' = [owned EXCEPT ![c] = NoJob]
  /\ process' = [process EXCEPT ![owned[c]] = IF "kill" \in @.limits THEN Nothing ELSE @]
  /\ UNCHANGED <<asked, calling>>

ChangePolicy ==
  /\ calling = {}
  /\ asked' \in Policies
  /\ UNCHANGED <<calling, owned, process>>

Next ==
  \/ ChangePolicy
  \/ \E c \in Clients :
       \/ Call(c) \/ Fail(c) \/ Start(c) \/ Destroy(c)
       \/ \E j \in Jobs : Spawn(c, j)

Spec == Init /\ [][Next]_vars
=============================================================================
