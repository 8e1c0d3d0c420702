------------------------- MODULE CompletionService -------------------------
(***************************************************************************)
(* What JobObject::AssociateCompletionPort needs from the process-wide     *)
(* state of core/job_object.cc before it may attach a target: one          *)
(* completion port for the whole process, one message thread draining it,  *)
(* and the same port handed to every call that succeeds.  SharedResource   *)
(* is the lock-free and double-checked code that has to deliver this.      *)
(***************************************************************************)
CONSTANTS Calls,     \* calls of AssociateCompletionPort, each made once
          Ports,     \* identities a completion port can have
          NoPort     \* "no port yet"

VARIABLES port,        \* the port of the process
          dispatchers, \* <<port, call>>: a thread drains port, call created it
          answer       \* what each call has been told

vars == <<port, dispatchers, answer>>

Pending == [outcome |-> "pending", port |-> NoPort]

Init ==
  /\ port = NoPort
  /\ dispatchers = {}
  /\ answer = [c \in Calls |-> Pending]

(* The port is chosen once. *)
Open(p) ==
  /\ port = NoPort
  /\ port' = p
  /\ UNCHANGED <<dispatchers, answer>>

(* One call creates the thread that drains it. *)
StartDispatcher(c) ==
  /\ port # NoPort
  /\ dispatchers = {}
  /\ dispatchers' = {<<port, c>>}
  /\ UNCHANGED <<port, answer>>

(* A call succeeds only once the port is drained, and is given that port. *)
Serve(c) ==
  /\ answer[c] = Pending
  /\ dispatchers # {}
  /\ answer' = [answer EXCEPT ![c] = [outcome |-> "served", port |-> port]]
  /\ UNCHANGED <<port, dispatchers>>

(* A call may fail at any time; the next one starts from what is there. *)
Refuse(c) ==
  /\ answer[c] = Pending
  /\ answer' = [answer EXCEPT ![c] = [outcome |-> "failed", port |-> NoPort]]
  /\ UNCHANGED <<port, dispatchers>>

Next ==
  \/ \E p \in Ports : Open(p)
  \/ \E c \in Calls : StartDispatcher(c) \/ Serve(c) \/ Refuse(c)

Spec == Init /\ [][Next]_vars
=============================================================================
