---------------------------- MODULE CommandLine ----------------------------
(***************************************************************************)
(* The command line winc/main.cc assembles for the process it spawns, from *)
(* the arguments left after its own options, and how the C runtime of that *)
(* process takes it apart again.  A character stands for its class.        *)
(***************************************************************************)
EXTENDS Naturals, Sequences, SequencesExt

CONSTANTS MaxLength,  \* bound on the length of an argument
          MaxArgs     \* bound on the arguments after the program's name

ASSUME BoundAssumption == MaxLength \in Nat \ {0} /\ MaxArgs \in Nat

VARIABLES argv,         \* argv + arg_index: the program's name, its arguments
          command_line  \* the vector, <<>> until it is built

vars == <<argv, command_line>>

Space == " "
Tab == "t"
Quote == "q"
Backslash == "b"
Other == "o"      \* any other character
Nul == "0"

Characters == {Space, Tab, Quote, Backslash, Other}
Strings == SeqOf(Characters, MaxLength)

(* SearchPathW has found a file of that name: no quotes, no tabs, and *)
(* no separator at the end, which would make it a directory.          *)
Programs ==
  {s \in SeqOf({Space, Backslash, Other}, MaxLength) :
     s # <<>> /\ Last(s) = Other}

Init ==
  /\ argv \in {<<p>> \o args : p \in Programs, args \in SeqOf(Strings, MaxArgs)}
  /\ command_line = <<>>

(***************************************************************************)
(* wmain                                                                   *)
(***************************************************************************)
NotEscaped(c) == <<c>>         \* mutant: quotation marks are copied
Escaped(c) == IF c = Quote THEN <<Backslash, Quote>> ELSE <<c>>

Quoted(arg) == Contains(arg, Space)

(* One argument: escaped, and in quotation marks if it has a blank. *)
Argument(arg) ==
  LET text == FlattenSeq([i \in DOMAIN arg |-> Escaped(arg[i])])
  IN  IF Quoted(arg) THEN <<Quote>> \o text \o <<Quote>> ELSE text

(* Every argument is followed by a blank, the last one by the terminator. *)
Terminator(i) == IF i < Len(argv) THEN <<Space>> ELSE <<Nul>>

Build ==
  /\ command_line = <<>>
  /\ command_line' =
       FlattenSeq([i \in DOMAIN argv |-> Argument(argv[i]) \o Terminator(i)])
  /\ UNCHANGED argv

(* CreateProcessAsUserW has taken it. *)
Spawned == command_line # <<>> /\ UNCHANGED vars

Next == Build \/ Spawned

Spec == Init /\ [][Next]_vars
-----------------------------------------------------------------------------
(***************************************************************************)
(* The rules of the C runtime for taking a command line apart.  Not code   *)
(* of the repository.                                                      *)
(***************************************************************************)
Text == SubSeq(command_line, 1, Len(command_line) - 1)

Blank(c) == c \in {Space, Tab}

(* What has been read: the program's name and the arguments before the one *)
(* that is open; the open one, without the backslashes in front of here;   *)
(* whether here is within quotation marks, and whether they end just here. *)
Begun == [args |-> <<>>, arg |-> <<>>, slashes |-> 0,
          open |-> TRUE, quoted |-> FALSE, closed |-> FALSE]

Slashes(k) == [x \in 1..k |-> Backslash]

(* The open argument if no quotation mark follows its backslashes. *)
Held(r) == r.arg \o Slashes(r.slashes)

Goes(r, arg) ==
  [r EXCEPT !.arg = arg, !.slashes = 0, !.open = TRUE, !.closed = FALSE]

Ended(r) ==
  IF r.open THEN [Begun EXCEPT !.args = Append(r.args, Held(r)), !.open = FALSE] ELSE r

(* Quotation marks are dropped from the program's name, backslashes mean *)
(* nothing in it.                                                        *)
InName(r, c) ==
  IF c = Quote THEN [r EXCEPT !.quoted = ~@] ELSE Goes(r, Append(r.arg, c))

(* Backslashes in front of a quotation mark count by pairs, an odd one makes *)
(* the mark a character; so do two marks in a quoted part.                   *)
Mark(r) ==
  LET pairs == r.arg \o Slashes(r.slashes \div 2)
  IN  IF r.slashes % 2 = 1 THEN Goes(r, Append(pairs, Quote))
      ELSE IF r.closed THEN [Goes(r, Append(pairs, Quote)) EXCEPT !.quoted = TRUE]
      ELSE [Goes(r, pairs) EXCEPT !.quoted = ~@, !.closed = r.quoted]

Read(r, c) ==
  IF Blank(c) /\ ~r.quoted THEN Ended(r)
  ELSE IF r.args = <<>> THEN InName(r, c)
  ELSE IF c = Quote THEN Mark(r)
  ELSE IF c = Backslash THEN [Goes(r, r.arg) EXCEPT !.slashes = r.slashes + 1]
  ELSE Goes(r, Append(Held(r), c))

After(s) ==
  LET r[i \in 0..Len(s)] == IF i = 0 THEN Begun ELSE Read(r[i - 1], s[i])
  IN  r[Len(s)]

Parsed == Ended(After(Text)).args
-----------------------------------------------------------------------------
(***************************************************************************)
(* Properties                                                              *)
(***************************************************************************)
(* What wmain's quoting does not provide for: an argument that is empty, a *)
(* tab without a blank, a backslash in front of a quotation mark, the      *)
(* argument's own or the closing one.                                      *)
Fragile(arg) ==
  \/ arg = <<>>
  \/ Contains(arg, Tab) /\ ~Contains(arg, Space)
  \/ \E i \in 1..(Len(arg) - 1) : arg[i] = Backslash /\ arg[i + 1] = Quote
  \/ Contains(arg, Space) /\ Last(arg) = Backslash

(* The process gets exactly the arguments winc was given, unless one of *)
(* them is fragile; whatever they are, it gets its program's name.      *)
ArgumentsArrive ==
  command_line # <<>> =>
    /\ Parsed[1] = argv[1]
    /\ (\A i \in 2..Len(argv) : ~Fragile(argv[i])) => Parsed = argv
=============================================================================
