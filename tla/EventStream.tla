---------------------------- MODULE EventStream ----------------------------
(***************************************************************************)
(* What the client of a listening target is told of its job, as the tests  *)
(* and the binding rely on it: of each process once when it comes and once *)
(* when it goes, of limits while one is there, and once, when every one it *)
(* was told of has gone, that all have; after that of nothing.             *)
(***************************************************************************)
EXTENDS Naturals, Sequences, SequencesExt

CONSTANTS Jobs, Pids

VARIABLE told \* the callbacks made for each job, in order

Notice == [kind : {"new", "exit", "zero", "process_limit", "memory_limit"}, pid : Pids \cup {0}]

About(kind, p) == [kind |-> kind, pid |-> p]
Heard(j, kind) == {p \in Pids : About(kind, p) \in ToSet(told[j])}
Present(j) == Heard(j, "new") \ Heard(j, "exit")
Ended(j) == About("zero", 0) \in ToSet(told[j])

(* Which callback may come next. *)
May(j, n) ==
  CASE n.kind = "new"  -> n.pid \in Pids \ Heard(j, "new")
    [] n.kind = "exit" -> n.pid \in Present(j)
    [] n.kind = "zero" -> n.pid = 0 /\ Heard(j, "new") # {} /\ Present(j) = {}
    [] OTHER           -> n.pid \in Present(j)

Init == told = [j \in Jobs |-> <<>>]

(* The first conjunct follows from the others and spares TLC most of them. *)
Say(j) ==
  /\ told'[j] # told[j]
  /\ ~Ended(j)
  /\ \E n \in Notice :
       /\ told' = [told EXCEPT ![j] = Append(@, n)]
       /\ May(j, n)

Next == \E j \in Jobs : Say(j)

Spec == Init /\ [][Next]_told
=============================================================================
