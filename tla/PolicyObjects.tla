---------------------------- MODULE PolicyObjects ----------------------------
(***************************************************************************)
(* The objects behind a policy, as a Python program shares them: the Logon *)
(* objects of core/logon.cc, reference-counted by the policy and by Python *)
(* Logon objects, with the SIDs they cache; the Sid objects copied from    *)
(* them; and the alternate desktop with its cached name.  Policy has a     *)
(* logon for a value; here it is an object others may refer to.            *)
(***************************************************************************)
EXTENDS Naturals, Sequences, SequencesExt, Filtering

CONSTANTS Sessions,       \* logon sessions: what a token can be of
          CurrentSession, \* the process's own
          Logons,         \* addresses of Logon objects
          LogonObjects,   \* Python objects of type Logon and its subtypes
          SidObjects,     \* Python objects of type Sid
          MaxSids,        \* bound on restricted_sids_
          MaxSlack,       \* bound on how much more than needed a name is given
          None            \* a null pointer, or no session

ASSUME ObjectsAssumption ==
  /\ CurrentSession \in Sessions
  /\ MaxSids \in Nat /\ MaxSids >= 2 \* those of the default policy
  /\ MaxSlack \in Nat
  /\ None \notin Sessions \cup Logons

VARIABLES
  logon,             \* the Logon at each address: its token's session, its caches
  py_logon,          \* each Python Logon: its type and its shared_ptr
  py_sid,            \* the SID in each Python Sid
  policy_logon,      \* logon_ of the policy
  restricted_sids,   \* restricted_sids_
  use_desktop,       \* use_desktop_
  restricted_token,  \* restricted_token_: what it was filtered from and for
  alternate_desktop, \* alternate_desktop_: who is let in, full_name_cache_
  means,             \* history: the session each Python Logon was given last
  chosen             \* history: the session the policy was given last

python == <<py_logon, py_sid, means>>
policy == <<policy_logon, restricted_sids, use_desktop, restricted_token,
            alternate_desktop, chosen>>
vars == <<logon, python, policy>>

Sid(session, of) == [session |-> session, of |-> of]
World == Sid(None, "world")
Sids == [session : Sessions, of : {"user_sid", "group_sid"}] \cup {World}
NoSid == Sid(None, "no sid")     \* nothing cached, or no Sid object
Unset == Sid(None, "unset")      \* memory no SID was copied to

Freed == [session |-> None, user_sid |-> NoSid, group_sid |-> NoSid]
NoObject == [type |-> "none", logon |-> None]
NoToken == [session |-> None, sids |-> {}]
NoDesktop == [admits |-> NoSid, name |-> <<>>]

LogonInfo == [session : Sessions, user_sid : Sids \cup {NoSid},
              group_sid : Sids \cup {NoSid}]

TypeOK ==
  /\ logon \in [Logons -> LogonInfo \cup {Freed}]
  /\ py_logon \in [LogonObjects ->
       [type : {"Logon", "CurrentLogon", "UserLogon"}, logon : Logons \cup {None}]
         \cup {NoObject}]
  /\ py_sid \in [SidObjects -> Sids \cup {NoSid, Unset}]
  /\ policy_logon \in Logons
  /\ restricted_sids \in Seq(Sids \cup {Unset}) /\ Len(restricted_sids) <= MaxSids
  /\ use_desktop \in BOOLEAN
  /\ restricted_token \in [session : Sessions, sids : SUBSET Sids] \cup {NoToken}
  /\ alternate_desktop.admits \in Sids \cup {NoSid}
  /\ means \in [LogonObjects -> Sessions \cup {None}]
  /\ chosen \in Sessions

(* CreateContainerObject has had the default policy made.  WinBuiltinUsersSid *)
(* is like WinWorldSid and left out.                                          *)
Init ==
  /\ policy_logon \in Logons
  /\ logon = [l \in Logons |->
       IF l = policy_logon
       THEN [Freed EXCEPT !.session = CurrentSession,
                          !.group_sid = Sid(CurrentSession, "group_sid")]
       ELSE Freed]
  /\ py_logon = [o \in LogonObjects |-> NoObject]
  /\ py_sid = [x \in SidObjects |-> NoSid]
  /\ restricted_sids = <<Sid(CurrentSession, "group_sid"), World>>
  /\ use_desktop = FALSE
  /\ restricted_token = NoToken
  /\ alternate_desktop = NoDesktop
  /\ means = [o \in LogonObjects |-> None]
  /\ chosen = CurrentSession

(* What is left of the Logon objects after a step: one that no shared_ptr *)
(* points to is deleted, its caches with it.                              *)
Kept(logons, py, own) ==
  LET held == {own} \cup {py[o].logon : o \in LogonObjects}
  IN  [l \in Logons |-> IF l \in held THEN logons[l] ELSE Freed]

(***************************************************************************)
(* Python Logon objects                                                    *)
(***************************************************************************)
NewLogon(o) ==
  /\ py_logon[o] = NoObject
  /\ \E type \in {"Logon", "CurrentLogon", "UserLogon"} :
       py_logon' = [py_logon EXCEPT ![o] = [type |-> type, logon |-> None]]
  /\ UNCHANGED <<logon, py_sid, means, policy>>

DropLogon(o) ==
  /\ py_logon[o] # NoObject
  /\ py_logon' = [py_logon EXCEPT ![o] = NoObject]
  /\ means' = [means EXCEPT ![o] = None]
  /\ logon' = Kept(logon, py_logon', policy_logon)
  /\ UNCHANGED <<py_sid, policy>>

(* make_shared: a Logon of its own for every call of __init__. *)
InPlace(o) ==                  \* mutant: a logon that is there is logged on anew
  IF py_logon[o].logon # None THEN {py_logon[o].logon}
  ELSE {l \in Logons : logon[l] = Freed}
MadeAt(o) == {l \in Logons : logon[l] = Freed}

(* InitCurrentLogonObject and InitUserLogonObject, for the second time too. *)
(* A UserLogon is a session of its own; the abstract type has no __init__.  *)
InitLogon(o) ==
  \E l \in MadeAt(o), s \in Sessions :
    /\ \/ py_logon[o].type = "CurrentLogon" /\ s = CurrentSession
       \/ py_logon[o].type = "UserLogon" /\ s # CurrentSession
    /\ py_logon' = [py_logon EXCEPT ![o].logon = l]
    /\ logon' = Kept([logon EXCEPT ![l].session = s], py_logon', policy_logon)
    /\ means' = [means EXCEPT ![o] = s]
    /\ UNCHANGED <<py_sid, policy>>

(* GetUserSid and GetGroupSid of a Logon: the token is asked once, and may *)
(* not answer.                                                             *)
FlagFirst(l, which, answers) == \* mutant: is_user_sid_cached_ is set too early
  IF logon[l][which] # NoSid THEN logon
  ELSE [logon EXCEPT ![l][which] = IF answers THEN Sid(logon[l].session, which) ELSE Unset]
Cached(l, which, answers) ==
  IF logon[l][which] # NoSid \/ ~answers THEN logon
  ELSE [logon EXCEPT ![l][which] = Sid(logon[l].session, which)]

(* logon.user_sid, logon.group_sid: a new Sid object with a copy. *)
GetSid(o, x) ==
  LET l == py_logon[o].logon IN
  /\ l # None
  /\ py_sid[x] = NoSid
  /\ \E which \in {"user_sid", "group_sid"}, answers \in BOOLEAN :
       /\ logon' = Cached(l, which, answers)
       /\ py_sid' = [py_sid EXCEPT ![x] = logon'[l][which]]
  /\ UNCHANGED <<py_logon, means, policy>>

(***************************************************************************)
(* Python Sid objects                                                      *)
(***************************************************************************)
NewSid(x) ==
  /\ py_sid[x] = NoSid
  /\ py_sid' = [py_sid EXCEPT ![x] = Unset]
  /\ UNCHANGED <<logon, py_logon, means, policy>>

(* InitSidObject, from a string or a well-known type. *)
InitSid(x) ==
  /\ py_sid[x] # NoSid
  /\ \E sid \in Sids : py_sid' = [py_sid EXCEPT ![x] = sid]
  /\ UNCHANGED <<logon, py_logon, means, policy>>

DropSid(x) ==
  /\ py_sid[x] # NoSid
  /\ py_sid' = [py_sid EXCEPT ![x] = NoSid]
  /\ UNCHANGED <<logon, py_logon, means, policy>>

(***************************************************************************)
(* Accessors of the policy                                                 *)
(***************************************************************************)
GetLogon(o) ==
  /\ py_logon[o] = NoObject
  /\ py_logon' = [py_logon EXCEPT ![o] = [type |-> "Logon", logon |-> policy_logon]]
  /\ means' = [means EXCEPT ![o] = chosen]
  /\ UNCHANGED <<logon, py_sid, policy>>

(* Refused while the Logon object has no Logon. *)
Unchecked(o) ==                \* mutant: no test of lobj->logon
  py_logon[o] # NoObject
Initialised(o) == py_logon[o].logon # None

SetLogon(o) ==
  /\ Initialised(o)
  /\ policy_logon' = py_logon[o].logon
  /\ restricted_token' = NoToken
  /\ alternate_desktop' = NoDesktop
  /\ chosen' = means[o]
  /\ UNCHANGED python
  /\ logon' = Kept(logon, py_logon, policy_logon')
  /\ UNCHANGED <<restricted_sids, use_desktop>>

AddRestrictedSid(x) ==
  /\ py_sid[x] # NoSid
  /\ Len(restricted_sids) < MaxSids
  /\ restricted_sids' = Append(restricted_sids, py_sid[x])
  /\ restricted_token' = NoToken
  /\ UNCHANGED <<logon, python, policy_logon, use_desktop, alternate_desktop, chosen>>

RemoveRestrictedSid(x) ==
  /\ py_sid[x] # NoSid
  /\ restricted_sids' = Only(restricted_sids, (Sids \cup {Unset}) \ {py_sid[x]})
  /\ restricted_token' = NoToken
  /\ UNCHANGED <<logon, python, policy_logon, use_desktop, alternate_desktop, chosen>>

(* One of the tuple's objects is kept. *)
GetRestrictedSids(x) ==
  /\ py_sid[x] = NoSid
  /\ \E sid \in ToSet(restricted_sids) : py_sid' = [py_sid EXCEPT ![x] = sid]
  /\ UNCHANGED <<logon, py_logon, means, policy>>

SetUseDesktop ==
  /\ use_desktop' \in BOOLEAN
  /\ UNCHANGED <<logon, python, policy_logon, restricted_sids, restricted_token,
                 alternate_desktop, chosen>>

(***************************************************************************)
(* What Spawn asks the policy for                                          *)
(***************************************************************************)

(* CreateRestrictedToken takes no memory that is not a SID. *)
GetRestrictedToken ==
  /\ restricted_token = NoToken
  /\ Unset \notin ToSet(restricted_sids)
  /\ restricted_token' = [session |-> logon[policy_logon].session,
                          sids |-> ToSet(restricted_sids)]
  /\ UNCHANGED <<logon, python, policy_logon, restricted_sids, use_desktop,
                 alternate_desktop, chosen>>

(* A new desktop lets the process's own session in; UserLogon::GrantAccess  *)
(* lets its group SID in, which it may have to ask for and not get.  One    *)
(* that nobody could be let in to is not kept.                              *)
GetDesktop ==
  /\ use_desktop /\ alternate_desktop = NoDesktop
  /\ LET own == logon[policy_logon].session = CurrentSession IN
     \E answers, granted \in BOOLEAN :
       /\ logon' = IF own THEN logon ELSE Cached(policy_logon, "group_sid", answers)
       /\ alternate_desktop' =
            IF ~granted THEN NoDesktop
            ELSE [NoDesktop EXCEPT !.admits = IF own THEN Sid(CurrentSession, "group_sid")
                                              ELSE logon'[policy_logon].group_sid]
  /\ UNCHANGED <<python, policy_logon, restricted_sids, use_desktop,
                 restricted_token, chosen>>

(* The buffer in which Desktop::GetFullName puts a name together; a part of *)
(* the name counts as one element.                                          *)
Nul == "NUL"
Zeroes(n) == [i \in 1..n |-> Nul]
UpToNul(s) ==
  SubSeq(s, 1, (CHOOSE i \in DOMAIN s : s[i] = Nul /\ Nul \notin ToSet(SubSeq(s, 1, i - 1))) - 1)

(* AppendNameUserObject, when the second call of the system works and when *)
(* it does not and the room made is taken back.                            *)
AppendName(buffer, part, slack) == UpToNul(buffer \o <<part>> \o Zeroes(1 + slack))
NotTakenBack(buffer, slack) == \* mutant: no append.resize(orig_size)
  buffer \o Zeroes(2 + slack)
TakenBack(buffer, slack) == buffer

FullName(fails, slack) ==
  CASE fails = "station size" -> <<>>
    [] fails = "station name" -> TakenBack(<<>>, slack)
    [] fails = "desktop" -> <<>>
    [] fails = "nothing" ->
         LET station == AppendName(<<>>, "station", slack)
         IN  AppendName(Append(station, "\\"), "desktop", slack) \o <<Nul>>

GetFullName ==
  /\ alternate_desktop # NoDesktop
  /\ alternate_desktop.name = <<>>
  /\ \E fails \in {"station size", "station name", "desktop", "nothing"}, slack \in 0..MaxSlack :
       alternate_desktop' = [alternate_desktop EXCEPT !.name = FullName(fails, slack)]
  /\ UNCHANGED <<logon, python, policy_logon, restricted_sids, use_desktop,
                 restricted_token, chosen>>

-----------------------------------------------------------------------------
Program ==
  \/ \E o \in LogonObjects :
       \/ NewLogon(o) \/ DropLogon(o) \/ InitLogon(o) \/ GetLogon(o) \/ SetLogon(o)
       \/ \E x \in SidObjects : GetSid(o, x)
  \/ \E x \in SidObjects :
       \/ NewSid(x) \/ InitSid(x) \/ DropSid(x)
       \/ AddRestrictedSid(x) \/ RemoveRestrictedSid(x) \/ GetRestrictedSids(x)
  \/ SetUseDesktop

Next == Program \/ GetRestrictedToken \/ GetDesktop \/ GetFullName

Spec == Init /\ [][Next]_vars
-----------------------------------------------------------------------------
(***************************************************************************)
(* Properties                                                              *)
(***************************************************************************)

(* What a Logon object answers is of the session it was given last, also    *)
(* when its Logon is shared, when it was initialised again and when the     *)
(* token has refused to answer before.                                      *)
Answers(l, s) ==
  /\ logon[l].session = s
  /\ logon[l].user_sid \in {NoSid, Sid(s, "user_sid")}
  /\ logon[l].group_sid \in {NoSid, Sid(s, "group_sid")}

LogonObjectsTell ==
  \A o \in LogonObjects : py_logon[o].logon # None => Answers(py_logon[o].logon, means[o])

(* The policy keeps the logon it was given, whatever becomes of the Python  *)
(* object it came with, and both caches are for that logon and the present  *)
(* SIDs.                                                                    *)
PolicyIsCurrent ==
  /\ Answers(policy_logon, chosen)
  /\ restricted_token # NoToken =>
       restricted_token = [session |-> chosen, sids |-> ToSet(restricted_sids)]
  /\ alternate_desktop # NoDesktop => alternate_desktop.admits = Sid(chosen, "group_sid")

(* GetFullName hands out what it finds in the buffer: between two calls it  *)
(* holds the whole name, terminated once, or nothing, whatever failed.      *)
NameIsWholeOrEmpty ==
  alternate_desktop.name \in {<<>>, <<"station", "\\", "desktop", Nul>>}
=============================================================================
