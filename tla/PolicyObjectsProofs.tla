------------------------ MODULE PolicyObjectsProofs ------------------------
(***************************************************************************)
(* Theorems of PolicyObjects, for any number of sessions, of objects and   *)
(* of SIDs.  What a Logon answers follows from one fact: it is made for    *)
(* one session, at an address nobody refers to, and is never logged on     *)
(* again, so that everybody who refers to it means that session.           *)
(***************************************************************************)
EXTENDS PolicyObjects, FilteringProofs

Shape ==
  /\ logon \in [Logons -> LogonInfo \cup {Freed}]
  /\ py_logon \in [LogonObjects ->
       [type : {"none", "Logon", "CurrentLogon", "UserLogon"}, logon : Logons \cup {None}]]
  /\ policy_logon \in Logons
  /\ alternate_desktop = [admits |-> alternate_desktop.admits, name |-> alternate_desktop.name]
  /\ means \in [LogonObjects -> Sessions \cup {None}]
  /\ chosen \in Sessions

(* A Python Logon that has a Logon means some session. *)
MeansOne == \A o \in LogonObjects : py_logon[o].logon # None => means[o] \in Sessions

Inv == Shape /\ MeansOne /\ LogonObjectsTell /\ PolicyIsCurrent

-----------------------------------------------------------------------------
(* Asking a token for a SID changes nothing but the SID its Logon caches, *)
(* and that only to the right one.                                        *)
LEMMA CachedTells ==
  ASSUME Shape, NEW l \in Logons, NEW which \in {"user_sid", "group_sid"},
         NEW answers \in BOOLEAN,
         logon[l].session \in Sessions,
         NEW k \in Logons, NEW s \in Sessions, Answers(k, s)
  PROVE  /\ Cached(l, which, answers) \in [Logons -> LogonInfo \cup {Freed}]
         /\ Cached(l, which, answers)[k].session = s
         /\ Cached(l, which, answers)[k].user_sid \in {NoSid, Sid(s, "user_sid")}
         /\ Cached(l, which, answers)[k].group_sid \in {NoSid, Sid(s, "group_sid")}
<1> DEFINE new == Cached(l, which, answers)
<1>1. CASE new = logon
  BY <1>1 DEF Shape, Answers
<1>2. CASE new = [logon EXCEPT ![l][which] = Sid(logon[l].session, which)]
  <2>1. logon[l] \in LogonInfo
    BY ObjectsAssumption DEF Shape, Freed
  <2>2. CASE which = "user_sid"
    <3>1. new = [logon EXCEPT ![l].user_sid = Sid(logon[l].session, "user_sid")]
      BY <1>2, <2>2
    <3>2. Sid(logon[l].session, "user_sid") \in Sids
      BY <2>1 DEF Sid, Sids, LogonInfo
    <3> QED BY <2>1, <3>1, <3>2 DEF Shape, Answers, LogonInfo
  <2>3. CASE which = "group_sid"
    <3>1. new = [logon EXCEPT ![l].group_sid = Sid(logon[l].session, "group_sid")]
      BY <1>2, <2>3
    <3>2. Sid(logon[l].session, "group_sid") \in Sids
      BY <2>1 DEF Sid, Sids, LogonInfo
    <3> QED BY <2>1, <3>1, <3>2 DEF Shape, Answers, LogonInfo
  <2> QED BY <2>2, <2>3
<1> QED BY <1>1, <1>2 DEF Cached

(* Inv holds initially. *)
LEMMA InvInit == Init => Inv
<1> SUFFICES ASSUME Init PROVE Inv
  OBVIOUS
<1>1. Shape
  BY ObjectsAssumption DEF Init, Shape, Freed, LogonInfo, NoObject, NoDesktop, Sid, Sids, NoSid
<1>2. MeansOne /\ LogonObjectsTell
  BY DEF Init, MeansOne, LogonObjectsTell, NoObject
<1>3. PolicyIsCurrent
  <2>1. logon[policy_logon] = [session |-> CurrentSession, user_sid |-> NoSid,
                               group_sid |-> Sid(CurrentSession, "group_sid")]
    BY DEF Init, Freed
  <2> QED BY <2>1 DEF Init, PolicyIsCurrent, Answers
<1> QED BY <1>1, <1>2, <1>3 DEF Inv

(* A step that leaves the Logon objects and those who refer to them alone. *)
LEMMA Unshared ==
  ASSUME Inv, UNCHANGED <<logon, py_logon, means, policy_logon, chosen>>,
         alternate_desktop' = [admits |-> alternate_desktop'.admits,
                               name |-> alternate_desktop'.name]
  PROVE  Shape' /\ MeansOne' /\ LogonObjectsTell' /\ Answers(policy_logon, chosen)'
  BY DEF Inv, Shape, MeansOne, LogonObjectsTell, PolicyIsCurrent, Answers

(* A step that caches a SID in some Logon. *)
LEMMA CachesOnly ==
  ASSUME Inv, NEW l \in Logons, NEW which \in {"user_sid", "group_sid"},
         NEW answers \in BOOLEAN, logon[l].session \in Sessions,
         logon' = Cached(l, which, answers),
         UNCHANGED <<py_logon, means, policy_logon, chosen>>,
         alternate_desktop' = [admits |-> alternate_desktop'.admits,
                               name |-> alternate_desktop'.name]
  PROVE  Shape' /\ MeansOne' /\ LogonObjectsTell' /\ Answers(policy_logon, chosen)'
<1>1. \A k \in Logons, s \in Sessions : Answers(k, s) =>
        /\ logon'[k].session = s
        /\ logon'[k].user_sid \in {NoSid, Sid(s, "user_sid")}
        /\ logon'[k].group_sid \in {NoSid, Sid(s, "group_sid")}
  BY CachedTells DEF Inv
<1>2. logon' \in [Logons -> LogonInfo \cup {Freed}]
  BY CachedTells DEF Inv, Shape, PolicyIsCurrent
<1>3. Shape' /\ MeansOne'
  BY <1>2 DEF Inv, Shape, MeansOne
<1>4. LogonObjectsTell'
  BY <1>1 DEF Inv, Shape, MeansOne, LogonObjectsTell, Answers
<1>5. Answers(policy_logon, chosen)'
  BY <1>1 DEF Inv, Shape, PolicyIsCurrent, Answers
<1> QED BY <1>3, <1>4, <1>5

(* A step that moves a shared_ptr: what is referred to after it is as it *)
(* was in logons, which answers to whoever refers to it.                 *)
LEMMA KeptAnswers ==
  ASSUME NEW logons \in [Logons -> LogonInfo \cup {Freed}], NEW py, NEW own \in Logons
  PROVE  /\ Kept(logons, py, own) \in [Logons -> LogonInfo \cup {Freed}]
         /\ Kept(logons, py, own)[own] = logons[own]
         /\ \A o \in LogonObjects : py[o].logon \in Logons =>
              Kept(logons, py, own)[py[o].logon] = logons[py[o].logon]
  BY DEF Kept

-----------------------------------------------------------------------------
(* Each step preserves Inv. *)
LEMMA LogonStep ==
  ASSUME Inv, NEW o \in LogonObjects,
         NewLogon(o) \/ DropLogon(o) \/ InitLogon(o) \/ GetLogon(o) \/ SetLogon(o)
  PROVE  Inv'
<1> USE ObjectsAssumption DEF Inv, Shape
<1>1. CASE NewLogon(o)
  BY <1>1 DEF NewLogon, NoObject, policy, MeansOne, LogonObjectsTell, PolicyIsCurrent, Answers
<1>2. CASE DropLogon(o)
  <2>1. /\ py_logon' = [py_logon EXCEPT ![o] = NoObject]
        /\ means' = [means EXCEPT ![o] = None]
        /\ logon' = Kept(logon, py_logon', policy_logon)
        /\ UNCHANGED policy
    BY <1>2 DEF DropLogon
  <2>2. Shape' /\ MeansOne'
    BY <2>1, KeptAnswers DEF policy, NoObject, MeansOne
  <2>3. LogonObjectsTell'
    <3> SUFFICES ASSUME NEW p \in LogonObjects, py_logon'[p].logon # None
                 PROVE  Answers(py_logon[p].logon, means[p])'
      BY DEF LogonObjectsTell
    <3>1. p # o /\ py_logon'[p] = py_logon[p] /\ means'[p] = means[p]
      BY <2>1 DEF NoObject
    <3>2. py_logon'[p].logon \in Logons
      BY <3>1
    <3>3. logon'[py_logon'[p].logon] = logon[py_logon'[p].logon]
      BY <2>1, <3>2 DEF Kept
    <3> QED BY <3>1, <3>3 DEF LogonObjectsTell, Answers
  <2>4. PolicyIsCurrent'
    BY <2>1, KeptAnswers DEF policy, PolicyIsCurrent, Answers
  <2> QED BY <2>2, <2>3, <2>4
<1>3. CASE InitLogon(o)
  <2>1. PICK l \in Logons, s \in Sessions :
          /\ logon[l] = Freed
          /\ py_logon' = [py_logon EXCEPT ![o].logon = l]
          /\ logon' = Kept([logon EXCEPT ![l].session = s], py_logon', policy_logon)
          /\ means' = [means EXCEPT ![o] = s]
          /\ UNCHANGED policy
    BY <1>3 DEF InitLogon, MadeAt
  <2> DEFINE made == [logon EXCEPT ![l].session = s]
  <2>2. /\ made \in [Logons -> LogonInfo \cup {Freed}]
        /\ made[l] = [session |-> s, user_sid |-> NoSid, group_sid |-> NoSid]
        /\ \A k \in Logons \ {l} : made[k] = logon[k]
    BY <2>1 DEF Freed, LogonInfo
  <2>3. l # policy_logon /\ \A p \in LogonObjects : py_logon[p].logon # l
    BY <2>1 DEF MeansOne, LogonObjectsTell, PolicyIsCurrent, Answers, Freed
  <2> HIDE DEF made
  <2>4. /\ logon' \in [Logons -> LogonInfo \cup {Freed}]
        /\ logon'[policy_logon] = logon[policy_logon]
        /\ logon'[l] = made[l]
        /\ \A p \in LogonObjects \ {o} : py_logon[p].logon \in Logons =>
             logon'[py_logon[p].logon] = logon[py_logon[p].logon]
    <3>1. logon' = Kept(made, py_logon', policy_logon)
      BY <2>1 DEF made
    <3>2. /\ py_logon'[o].logon = l
          /\ \A p \in LogonObjects \ {o} : py_logon'[p] = py_logon[p]
      BY <2>1
    <3>3. /\ logon' \in [Logons -> LogonInfo \cup {Freed}]
          /\ logon'[policy_logon] = made[policy_logon]
          /\ \A p \in LogonObjects : py_logon'[p].logon \in Logons =>
               logon'[py_logon'[p].logon] = made[py_logon'[p].logon]
      BY <2>2, <3>1, KeptAnswers
    <3> QED BY <2>2, <2>3, <3>2, <3>3
  <2>5. Shape' /\ MeansOne'
    BY <2>1, <2>4 DEF policy, MeansOne
  <2>6. LogonObjectsTell'
    <3> SUFFICES ASSUME NEW p \in LogonObjects, py_logon'[p].logon # None
                 PROVE  Answers(py_logon[p].logon, means[p])'
      BY DEF LogonObjectsTell
    <3>1. CASE p = o
      <4>1. py_logon'[p].logon = l /\ means'[p] = s
        BY <2>1, <3>1
      <4> QED BY <2>2, <2>4, <4>1 DEF Answers
    <3>2. CASE p # o
      <4>1. py_logon'[p] = py_logon[p] /\ means'[p] = means[p]
        BY <2>1, <3>2
      <4>2. Answers(py_logon[p].logon, means[p]) /\ py_logon[p].logon \in Logons
        BY <4>1 DEF LogonObjectsTell
      <4>3. logon'[py_logon'[p].logon] = logon[py_logon[p].logon]
        BY <2>4, <3>2, <4>1, <4>2
      <4> QED BY <4>1, <4>2, <4>3 DEF Answers
    <3> QED BY <3>1, <3>2
  <2>7. PolicyIsCurrent'
    BY <2>1, <2>4 DEF policy, PolicyIsCurrent, Answers
  <2> QED BY <2>5, <2>6, <2>7
<1>4. CASE GetLogon(o)
  BY <1>4 DEF GetLogon, policy, MeansOne, LogonObjectsTell, PolicyIsCurrent, Answers
<1>5. CASE SetLogon(o)
  <2>1. /\ py_logon[o].logon \in Logons
        /\ policy_logon' = py_logon[o].logon
        /\ chosen' = means[o]
        /\ restricted_token' = NoToken /\ alternate_desktop' = NoDesktop
        /\ logon' = Kept(logon, py_logon, policy_logon')
        /\ UNCHANGED <<py_logon, means>>
    BY <1>5 DEF SetLogon, Initialised, python
  <2>2. Shape' /\ MeansOne'
    BY <2>1, KeptAnswers DEF NoDesktop, MeansOne
  <2>3. LogonObjectsTell'
    BY <2>1, KeptAnswers DEF LogonObjectsTell, Answers
  <2>4. PolicyIsCurrent'
    BY <2>1, KeptAnswers DEF LogonObjectsTell, PolicyIsCurrent, Answers
  <2> QED BY <2>2, <2>3, <2>4
<1> QED BY <1>1, <1>2, <1>3, <1>4, <1>5

(* SID objects change nothing about the Logons.                             *)
LEMMA SidStep ==
  ASSUME Inv, NEW x \in SidObjects,
         \/ NewSid(x) \/ InitSid(x) \/ DropSid(x)
         \/ AddRestrictedSid(x) \/ RemoveRestrictedSid(x) \/ GetRestrictedSids(x)
  PROVE  Inv'
<1>1. /\ UNCHANGED <<logon, py_logon, means, policy_logon, chosen, alternate_desktop>>
      /\ \/ UNCHANGED <<restricted_token, restricted_sids>>
         \/ restricted_token' = NoToken
  BY DEF NewSid, InitSid, DropSid, AddRestrictedSid, RemoveRestrictedSid,
         GetRestrictedSids, python, policy
<1>2. Shape' /\ MeansOne' /\ LogonObjectsTell' /\ Answers(policy_logon, chosen)'
  BY <1>1, Unshared DEF Inv, Shape
<1>3. PolicyIsCurrent'
  BY <1>1, <1>2 DEF Inv, PolicyIsCurrent
<1> QED BY <1>2, <1>3 DEF Inv

(* logon.user_sid and logon.group_sid *)
LEMMA GetterStep ==
  ASSUME Inv, NEW o \in LogonObjects, NEW x \in SidObjects, GetSid(o, x)
  PROVE  Inv'
<1>1. PICK which \in {"user_sid", "group_sid"}, answers \in BOOLEAN :
        logon' = Cached(py_logon[o].logon, which, answers)
  BY DEF GetSid
<1>2. py_logon[o].logon \in Logons /\ logon[py_logon[o].logon].session \in Sessions
  BY DEF GetSid, Inv, Shape, MeansOne, LogonObjectsTell, Answers
<1>3. UNCHANGED <<py_logon, means, policy>>
  BY DEF GetSid
<1>4. Shape' /\ MeansOne' /\ LogonObjectsTell' /\ Answers(policy_logon, chosen)'
  BY <1>1, <1>2, <1>3, CachesOnly DEF policy, Inv, Shape
<1>5. PolicyIsCurrent'
  BY <1>3, <1>4 DEF policy, Inv, PolicyIsCurrent
<1> QED BY <1>4, <1>5 DEF Inv

(* What Spawn asks the policy for; a desktop that UserLogon could not let *)
(* anybody in is not kept.                                                *)
LEMMA SpawnStep ==
  ASSUME Inv, SetUseDesktop \/ GetRestrictedToken \/ GetDesktop \/ GetFullName
  PROVE  Inv'
<1>1. CASE SetUseDesktop
  BY <1>1, Unshared DEF SetUseDesktop, python, Inv, Shape, PolicyIsCurrent
<1>2. CASE GetRestrictedToken
  BY <1>2, Unshared DEF GetRestrictedToken, python, Inv, Shape, PolicyIsCurrent, Answers
<1>3. CASE GetDesktop
  <2> DEFINE l == policy_logon
  <2>1. PICK answers \in BOOLEAN, granted \in BOOLEAN :
          /\ logon' = IF logon[l].session = CurrentSession THEN logon
                      ELSE Cached(l, "group_sid", answers)
          /\ alternate_desktop' =
               IF ~granted THEN NoDesktop
               ELSE [NoDesktop EXCEPT !.admits =
                       IF logon[l].session = CurrentSession
                       THEN Sid(CurrentSession, "group_sid") ELSE logon'[l].group_sid]
    BY <1>3 DEF GetDesktop
  <2>2. UNCHANGED <<py_logon, means, policy_logon, chosen, restricted_sids, restricted_token>>
    BY <1>3 DEF GetDesktop, python
  <2>3. alternate_desktop' = [admits |-> alternate_desktop'.admits,
                              name |-> alternate_desktop'.name]
    BY <2>1 DEF NoDesktop
  <2>4. l \in Logons /\ chosen \in Sessions /\ logon[l].session = chosen
    BY DEF Inv, Shape, PolicyIsCurrent, Answers
  <2>5. Shape' /\ MeansOne' /\ LogonObjectsTell' /\ Answers(policy_logon, chosen)'
    BY <2>1, <2>2, <2>3, <2>4, Unshared, CachesOnly
  <2>6. alternate_desktop' # NoDesktop => alternate_desktop'.admits = Sid(chosen, "group_sid")
    <3>1. CASE chosen = CurrentSession
      BY <2>1, <2>4, <3>1 DEF NoDesktop
    <3>2. CASE chosen # CurrentSession
      BY <2>1, <2>2, <2>4, <2>5, <3>2 DEF NoDesktop, Answers
    <3> QED BY <3>1, <3>2
  <2> QED BY <2>2, <2>5, <2>6 DEF Inv, PolicyIsCurrent
<1>4. CASE GetFullName
  <2>1. PICK name : alternate_desktop' = [alternate_desktop EXCEPT !.name = name]
    BY <1>4 DEF GetFullName
  <2>2. alternate_desktop # NoDesktop
    BY <1>4 DEF GetFullName
  <2>3. /\ alternate_desktop' = [admits |-> alternate_desktop'.admits,
                                 name |-> alternate_desktop'.name]
        /\ alternate_desktop'.admits = alternate_desktop.admits
    BY <2>1 DEF Inv, Shape
  <2>4. UNCHANGED <<logon, python, policy_logon, chosen, restricted_sids, restricted_token>>
    BY <1>4 DEF GetFullName
  <2> QED BY <2>2, <2>3, <2>4, Unshared DEF python, Inv, PolicyIsCurrent
<1> QED BY <1>1, <1>2, <1>3, <1>4

(* Inv is inductive. *)
LEMMA InvStep == Inv /\ [Next]_vars => Inv'
<1>1. ASSUME Inv, UNCHANGED vars PROVE Inv'
  BY <1>1, Unshared DEF vars, python, policy, Inv, Shape, PolicyIsCurrent
<1> QED BY <1>1, LogonStep, SidStep, GetterStep, SpawnStep DEF Next, Program

(* It holds always.                                                         *)
LEMMA Invariant == Spec => []Inv
  BY InvInit, InvStep, PTL DEF Spec

-----------------------------------------------------------------------------
(* What a Python Logon answers is of the session it was last given, whoever *)
(* else shares its Logon (core/logon.cc:17-37, bindings logon.cc:45-83).    *)
THEOREM LogonsTell == Spec => []LogonObjectsTell
<1>1. Inv => LogonObjectsTell
  BY DEF Inv
<1> QED BY <1>1, Invariant, PTL

(* A policy keeps the logon it was given, although the program initialises  *)
(* or drops the object it came with, and its caches are for that logon and  *)
(* the present SIDs (core/policy.cc:36-108).                                *)
THEOREM PolicyCurrent == Spec => []PolicyIsCurrent
<1>1. Inv => PolicyIsCurrent
  BY DEF Inv
<1> QED BY <1>1, Invariant, PTL

-----------------------------------------------------------------------------
(***************************************************************************)
(* Types                                                                   *)
(***************************************************************************)
Typed ==
  /\ py_sid \in [SidObjects -> Sids \cup {NoSid, Unset}]
  /\ restricted_sids \in Seq(Sids \cup {Unset}) /\ Len(restricted_sids) <= MaxSids
  /\ use_desktop \in BOOLEAN
  /\ restricted_token \in [session : Sessions, sids : SUBSET Sids] \cup {NoToken}
  /\ \A o \in LogonObjects : py_logon[o].type = "none" => py_logon[o].logon = None

(* SID objects, and the SIDs of the policy, keep their types.               *)
LEMMA TypedSidStep ==
  ASSUME Inv, Typed, NEW x \in SidObjects,
         \/ NewSid(x) \/ InitSid(x) \/ DropSid(x) \/ GetRestrictedSids(x)
         \/ AddRestrictedSid(x) \/ RemoveRestrictedSid(x)
  PROVE  Typed'
<1> USE DEF Typed
<1>1. CASE NewSid(x) \/ InitSid(x) \/ DropSid(x) \/ GetRestrictedSids(x)
  <2>1. \E sid \in Sids \cup {NoSid, Unset} : py_sid' = [py_sid EXCEPT ![x] = sid]
    <3>1. ToSet(restricted_sids) \subseteq Sids \cup {Unset}
      BY DEF ToSet
    <3> QED BY <1>1, <3>1 DEF NewSid, InitSid, DropSid, GetRestrictedSids
  <2>2. UNCHANGED <<py_logon, policy>>
    BY <1>1 DEF NewSid, InitSid, DropSid, GetRestrictedSids
  <2> QED BY <2>1, <2>2 DEF policy
<1>2. CASE AddRestrictedSid(x)
  <2>1. py_sid[x] \in Sids \cup {Unset}
    BY <1>2 DEF AddRestrictedSid
  <2>2. restricted_sids' = Append(restricted_sids, py_sid[x])
        /\ Len(restricted_sids) < MaxSids
    BY <1>2 DEF AddRestrictedSid
  <2>3. restricted_sids' \in Seq(Sids \cup {Unset}) /\ Len(restricted_sids') <= MaxSids
    BY <2>1, <2>2, ObjectsAssumption
  <2> QED BY <1>2, <2>3 DEF AddRestrictedSid, python
<1>3. CASE RemoveRestrictedSid(x)
  <2> DEFINE All == Sids \cup {Unset}
             kept == Only(restricted_sids, All \ {py_sid[x]})
  <2>1. kept \in Seq(All \cap (All \ {py_sid[x]})) /\ Len(kept) <= Len(restricted_sids)
    BY OnlyType
  <2>2. restricted_sids' = kept
    BY <1>3 DEF RemoveRestrictedSid
  <2> HIDE DEF kept
  <2>3. restricted_sids' \in Seq(All) /\ Len(restricted_sids') <= MaxSids
    BY <2>1, <2>2, ObjectsAssumption
  <2> QED BY <1>3, <2>3 DEF RemoveRestrictedSid, python
<1> QED BY <1>1, <1>2, <1>3

(* Logon objects keep their types.                                          *)
LEMMA TypedLogonStep ==
  ASSUME Inv, Typed, NEW o \in LogonObjects,
         NewLogon(o) \/ DropLogon(o) \/ InitLogon(o) \/ GetLogon(o) \/ SetLogon(o)
  PROVE  Typed'
<1> USE DEF Typed
<1>0. Shape
  BY DEF Inv
<1>1. UNCHANGED <<py_sid, restricted_sids, use_desktop>>
      /\ restricted_token' \in {restricted_token, NoToken}
  BY DEF NewLogon, DropLogon, InitLogon, GetLogon, SetLogon, policy, python
<1>2. \A u \in LogonObjects : py_logon'[u].type = "none" => py_logon'[u].logon = None
  <2>1. CASE NewLogon(o) \/ DropLogon(o) \/ GetLogon(o) \/ SetLogon(o)
    BY <1>0, <2>1 DEF Shape, NewLogon, DropLogon, GetLogon, SetLogon, python, NoObject
  <2>2. CASE InitLogon(o)
    BY <1>0, <2>2 DEF Shape, InitLogon
  <2> QED BY <2>1, <2>2
<1> QED BY <1>1, <1>2

(* A SID that a Logon answers is one.                                       *)
LEMMA TypedGetSid ==
  ASSUME Inv, Typed, NEW o \in LogonObjects, NEW x \in SidObjects, GetSid(o, x)
  PROVE  Typed'
<1>1. Shape /\ Shape'
  BY GetterStep DEF Inv
<1>2. py_logon[o].logon \in Logons
  BY <1>1 DEF GetSid, Shape
<1>3. PICK which \in {"user_sid", "group_sid"} :
        py_sid' = [py_sid EXCEPT ![x] = logon'[py_logon[o].logon][which]]
  BY DEF GetSid
<1>4. logon'[py_logon[o].logon] \in LogonInfo \cup {Freed}
  BY <1>1, <1>2 DEF Shape
<1>5. logon'[py_logon[o].logon][which] \in Sids \cup {NoSid}
  BY <1>4 DEF LogonInfo, Freed
<1>6. UNCHANGED <<py_logon, policy>>
  BY DEF GetSid
<1> QED BY <1>3, <1>5, <1>6 DEF Typed, policy

(* What Spawn makes of the policy has its type.                             *)
LEMMA TypedSpawnStep ==
  ASSUME Inv, Typed, SetUseDesktop \/ GetRestrictedToken \/ GetDesktop \/ GetFullName
  PROVE  Typed'
<1> USE DEF Typed
<1>1. CASE SetUseDesktop \/ GetDesktop \/ GetFullName
  BY <1>1 DEF SetUseDesktop, GetDesktop, GetFullName, python
<1>2. CASE GetRestrictedToken
  <2>1. ToSet(restricted_sids) \in SUBSET Sids
    BY <1>2 DEF GetRestrictedToken, ToSet
  <2>2. logon[policy_logon].session \in Sessions
    BY DEF Inv, Shape, PolicyIsCurrent, Answers
  <2> QED BY <1>2, <2>1, <2>2 DEF GetRestrictedToken, python
<1> QED BY <1>1, <1>2

(* The types hold always.                                                   *)
LEMMA TypedInvariant == Spec => []Typed
<1>1. ASSUME Init PROVE Typed
  <2>1. Sid(CurrentSession, "group_sid") \in Sids /\ World \in Sids
    BY ObjectsAssumption DEF Sid, Sids, World
  <2>2. restricted_sids \in Seq(Sids \cup {Unset}) /\ Len(restricted_sids) = 2
    BY <1>1, <2>1 DEF Init
  <2> QED BY <1>1, <2>2, ObjectsAssumption DEF Init, Typed, NoObject
<1>2. ASSUME Typed, UNCHANGED vars PROVE Typed'
  BY <1>2 DEF Typed, vars, python, policy
<1>3. Inv /\ Typed /\ [Next]_vars => Typed'
  BY <1>2, TypedSidStep, TypedLogonStep, TypedGetSid, TypedSpawnStep DEF Next, Program
<1> QED BY <1>1, <1>3, Invariant, PTL DEF Spec

(* Every object has its type: no address is referred to that holds no Logon *)
(* and, CreateRestrictedToken refusing what is no SID, a token is always    *)
(* restricted to SIDs (core/logon.cc:43, core/policy.cc:66).                *)
THEOREM Types == Spec => []TypeOK
<1>1. ASSUME Inv, Typed PROVE TypeOK
  <2>1. Shape /\ PolicyIsCurrent
    BY <1>1 DEF Inv
  <2>2. py_logon \in [LogonObjects ->
          [type : {"Logon", "CurrentLogon", "UserLogon"}, logon : Logons \cup {None}]
            \cup {NoObject}]
    <3> SUFFICES ASSUME NEW o \in LogonObjects
                 PROVE  py_logon[o] \in
                   [type : {"Logon", "CurrentLogon", "UserLogon"}, logon : Logons \cup {None}]
                     \cup {NoObject}
      BY <2>1 DEF Shape
    <3>1. py_logon[o] \in
            [type : {"none", "Logon", "CurrentLogon", "UserLogon"}, logon : Logons \cup {None}]
      BY <2>1 DEF Shape
    <3>2. py_logon[o].type = "none" => py_logon[o].logon = None
      BY <1>1 DEF Typed
    <3> QED BY <3>1, <3>2 DEF NoObject
  <2>3. alternate_desktop.admits \in Sids \cup {NoSid}
    <3>1. CASE alternate_desktop = NoDesktop
      BY <3>1 DEF NoDesktop
    <3>2. CASE alternate_desktop # NoDesktop
      BY <2>1, <3>2 DEF PolicyIsCurrent, Shape, Sid, Sids
    <3> QED BY <3>1, <3>2
  <2> QED BY <1>1, <2>1, <2>2, <2>3 DEF Shape, Typed, TypeOK
<1> QED BY <1>1, Invariant, TypedInvariant, PTL

-----------------------------------------------------------------------------
(***************************************************************************)
(* The name of the desktop                                                 *)
(***************************************************************************)

(* What precedes the first terminator is what was put before it. *)
LEMMA UpToNulOfTerminated ==
  ASSUME NEW T, Nul \notin T, NEW b \in Seq(T), NEW n \in Nat, n > 0
  PROVE  UpToNul(b \o Zeroes(n)) = b
<1> DEFINE s == b \o Zeroes(n)
           First(i) == i \in DOMAIN s /\ s[i] = Nul /\ Nul \notin ToSet(SubSeq(s, 1, i - 1))
           end == Len(b) + 1
<1>1. /\ s \in Seq(T \cup {Nul}) /\ Len(s) = Len(b) + n
      /\ \A i \in 1 .. Len(b) : s[i] = b[i] /\ s[i] # Nul
      /\ s[end] = Nul
  <2>1. Zeroes(n) \in Seq({Nul}) /\ Len(Zeroes(n)) = n /\ Zeroes(n)[1] = Nul
    BY DEF Zeroes
  <2> DEFINE z == Zeroes(n)
  <2> HIDE DEF z
  <2>2. z \in Seq(T \cup {Nul}) /\ Len(z) = n /\ z[1] = Nul
    BY <2>1 DEF z
  <2>3. b \in Seq(T \cup {Nul}) /\ \A i \in 1 .. Len(b) : b[i] # Nul
    OBVIOUS
  <2>4. /\ b \o z \in Seq(T \cup {Nul}) /\ Len(b \o z) = Len(b) + n
        /\ \A i \in 1 .. Len(b) : (b \o z)[i] = b[i]
        /\ (b \o z)[end] = Nul
    BY <2>2, <2>3
  <2> QED BY <2>3, <2>4 DEF z
<1>2. SubSeq(s, 1, Len(b)) = b
  BY <1>1
<1> HIDE DEF s
<1>3. First(end)
  <2>1. end \in DOMAIN s /\ end - 1 = Len(b)
    BY <1>1
  <2>2. Nul \notin ToSet(b)
    BY DEF ToSet
  <2> QED BY <1>1, <1>2, <2>1, <2>2
<1>4. ASSUME NEW i, First(i) PROVE i = end
  <2>1. i \in 1 .. Len(s)
    BY <1>1, <1>4
  <2>2. ~(i <= Len(b))
    BY <1>1, <1>4, <2>1
  <2>3. ASSUME i > end PROVE FALSE
    <3>1. /\ end \in 1 .. Len(SubSeq(s, 1, i - 1))
          /\ SubSeq(s, 1, i - 1)[end] = s[end]
      BY <1>1, <2>1, <2>3
    <3>2. Nul \in ToSet(SubSeq(s, 1, i - 1))
      <4> DEFINE before == SubSeq(s, 1, i - 1)
      <4>1. before \in Seq(T \cup {Nul})
        BY <1>1, <2>1
      <4> HIDE DEF before
      <4>2. before[end] \in ToSet(before)
        BY <3>1, <4>1 DEF ToSet, before
      <4> QED BY <1>1, <3>1, <4>2 DEF before
    <3> QED BY <1>4, <3>2
  <2> QED BY <2>1, <2>2, <2>3
<1> DEFINE first == CHOOSE i \in DOMAIN s : s[i] = Nul /\ Nul \notin ToSet(SubSeq(s, 1, i - 1))
<1>5. first = end
  BY <1>3, <1>4
<1>6. UpToNul(s) = SubSeq(s, 1, first - 1)
  BY DEF UpToNul
<1> HIDE DEF first
<1>7. UpToNul(s) = SubSeq(s, 1, Len(b))
  BY <1>5, <1>6
<1> QED BY <1>2, <1>7 DEF s

(* Two ways of writing a sequence with one more member.                     *)
LEMMA Extended ==
  ASSUME NEW T, NEW s \in Seq(T), NEW e \in T, NEW t \in Seq(T), Len(t) = Len(s) + 1,
         \A i \in 1 .. Len(s) : t[i] = s[i], t[Len(t)] = e
  PROVE  Append(s, e) = t /\ s \o <<e>> = t
<1>1. Append(s, e) \in Seq(T) /\ Len(Append(s, e)) = Len(t)
  OBVIOUS
<1>2. \A i \in 1 .. Len(Append(s, e)) : Append(s, e)[i] = t[i]
  OBVIOUS
<1> QED BY <1>1, <1>2, SeqEqual, AppendIsConcat

(* Appending a second member.                                               *)
LEMMA TwoParts == ASSUME NEW a, NEW b PROVE Append(<<a>>, b) = <<a, b>>
<1> DEFINE T == {a, b}
           s == <<a>>
           t == <<a, b>>
<1>1. /\ s \in Seq(T) /\ Len(s) = 1 /\ s[1] = a
      /\ t \in Seq(T) /\ Len(t) = 2 /\ t[1] = a /\ t[2] = b /\ b \in T
  OBVIOUS
<1> HIDE DEF T, s, t
<1>2. Len(t) = Len(s) + 1 /\ t[Len(t)] = b /\ \A i \in 1 .. Len(s) : t[i] = s[i]
  BY <1>1
<1>3. Append(s, b) = t
  BY <1>1, <1>2, Extended
<1> QED BY <1>3 DEF s, t

(* Appending a third member.                                                *)
LEMMA ThreeParts == ASSUME NEW a, NEW b, NEW c PROVE <<a, b>> \o <<c>> = <<a, b, c>>
<1> DEFINE T == {a, b, c}
           s == <<a, b>>
           t == <<a, b, c>>
<1>1. /\ s \in Seq(T) /\ Len(s) = 2 /\ s[1] = a /\ s[2] = b
      /\ t \in Seq(T) /\ Len(t) = 3 /\ t[1] = a /\ t[2] = b /\ t[3] = c /\ c \in T
  OBVIOUS
<1> HIDE DEF T, s, t
<1>2. Len(t) = Len(s) + 1 /\ t[Len(t)] = c /\ \A i \in 1 .. Len(s) : t[i] = s[i]
  BY <1>1
<1>3. s \o <<c>> = t
  BY <1>1, <1>2, Extended
<1> QED BY <1>3 DEF s, t

(* Appending a fourth member.                                               *)
LEMMA FourParts ==
  ASSUME NEW a, NEW b, NEW c, NEW d PROVE <<a, b, c>> \o <<d>> = <<a, b, c, d>>
<1> DEFINE T == {a, b, c, d}
           s == <<a, b, c>>
           t == <<a, b, c, d>>
<1>1. /\ s \in Seq(T) /\ Len(s) = 3 /\ s[1] = a /\ s[2] = b /\ s[3] = c
      /\ t \in Seq(T) /\ Len(t) = 4 /\ t[1] = a /\ t[2] = b /\ t[3] = c /\ t[4] = d
      /\ d \in T
  OBVIOUS
<1> HIDE DEF T, s, t
<1>2. Len(t) = Len(s) + 1 /\ t[Len(t)] = d /\ \A i \in 1 .. Len(s) : t[i] = s[i]
  BY <1>1
<1>3. s \o <<d>> = t
  BY <1>1, <1>2, Extended
<1> QED BY <1>3 DEF s, t

(* AppendNameUserObject adds the name, however much room it was told of.    *)
LEMMA AppendNames ==
  ASSUME NEW T, Nul \notin T, NEW b \in Seq(T), NEW part \in T, NEW slack \in 0 .. MaxSlack
  PROVE  AppendName(b, part, slack) = b \o <<part>>
<1>1. MaxSlack \in Nat
  BY ObjectsAssumption
<1>2. 1 + slack \in Nat /\ 1 + slack > 0
  BY <1>1
<1>3. b \o <<part>> \in Seq(T)
  OBVIOUS
<1> QED BY <1>2, <1>3, UpToNulOfTerminated DEF AppendName

(* Both names, their separator and the end make the full name.              *)
LEMMA WholeName ==
  ASSUME NEW slack \in 0 .. MaxSlack
  PROVE  AppendName(Append(AppendName(<<>>, "station", slack), "\\"), "desktop", slack)
           \o <<Nul>> = <<"station", "\\", "desktop", Nul>>
<1> DEFINE station == "station"
           slash == "\\"
           desktop == "desktop"
           T == {station, slash, desktop}
<1>1. Nul \notin T
  BY DEF Nul
<1> HIDE DEF station, slash, desktop
<1>2. /\ station \in T /\ desktop \in T
      /\ <<>> \in Seq(T) /\ <<station, slash>> \in Seq(T)
  OBVIOUS
<1> HIDE DEF T
<1>3. AppendName(<<>>, station, slack) = <<station>>
  <2>1. <<>> \o <<station>> = <<station>>
    OBVIOUS
  <2>2. AppendName(<<>>, station, slack) = <<>> \o <<station>>
    BY <1>1, <1>2, AppendNames, Zenon
  <2> QED BY <2>1, <2>2
<1>4. Append(<<station>>, slash) = <<station, slash>>
  BY TwoParts
<1>5. AppendName(<<station, slash>>, desktop, slack) = <<station, slash, desktop>>
  <2>1. AppendName(<<station, slash>>, desktop, slack) = <<station, slash>> \o <<desktop>>
    BY <1>1, <1>2, AppendNames
  <2>2. <<station, slash>> \o <<desktop>> = <<station, slash, desktop>>
    BY ThreeParts
  <2> QED BY <2>1, <2>2
<1>6. AppendName(Append(AppendName(<<>>, station, slack), slash), desktop, slack) \o <<Nul>>
        = <<station, slash, desktop, Nul>>
  <2>1. AppendName(Append(AppendName(<<>>, station, slack), slash), desktop, slack)
          = <<station, slash, desktop>>
    BY <1>3, <1>4, <1>5
  <2>2. <<station, slash, desktop>> \o <<Nul>> = <<station, slash, desktop, Nul>>
    BY FourParts
  <2> QED BY <2>1, <2>2
<1> QED BY <1>6 DEF station, slash, desktop

(* Whichever call fails, the buffer holds the whole name or nothing. *)
LEMMA FullNames ==
  ASSUME NEW fails \in {"station size", "station name", "desktop", "nothing"},
         NEW slack \in 0 .. MaxSlack
  PROVE  FullName(fails, slack) \in {<<>>, <<"station", "\\", "desktop", Nul>>}
  BY WholeName DEF FullName, TakenBack

(* What GetFullName finds between two calls is the whole name or nothing,   *)
(* however much room the system has asked for and whichever of its calls    *)
(* failed (core/desktop.cc:16-46).                                          *)
THEOREM NameIsWhole == Spec => []NameIsWholeOrEmpty
<1>1. Init => NameIsWholeOrEmpty
  BY DEF Init, NoDesktop, NameIsWholeOrEmpty
<1>2. ASSUME Inv, NameIsWholeOrEmpty, Next PROVE NameIsWholeOrEmpty'
  <2>1. CASE GetFullName
    <3>1. PICK fails \in {"station size", "station name", "desktop", "nothing"},
               slack \in 0 .. MaxSlack :
            alternate_desktop' = [alternate_desktop EXCEPT !.name = FullName(fails, slack)]
      BY <2>1 DEF GetFullName
    <3>2. alternate_desktop'.name = FullName(fails, slack)
      BY <1>2, <3>1 DEF Inv, Shape
    <3> QED BY <3>2, FullNames DEF NameIsWholeOrEmpty
  <2>2. CASE GetDesktop
    <3>1. alternate_desktop'.name = <<>>
      BY <2>2 DEF GetDesktop, NoDesktop
    <3> QED BY <3>1 DEF NameIsWholeOrEmpty
  <2>3. CASE Program \/ GetRestrictedToken
    <3>1. alternate_desktop' \in {alternate_desktop, NoDesktop}
      BY <2>3 DEF Program, NewLogon, DropLogon, InitLogon, GetLogon, SetLogon, GetSid, NewSid,
         InitSid, DropSid, AddRestrictedSid, RemoveRestrictedSid, GetRestrictedSids,
         SetUseDesktop, GetRestrictedToken, policy
    <3> QED BY <1>2, <3>1 DEF NameIsWholeOrEmpty, NoDesktop
  <2> QED BY <1>2, <2>1, <2>2, <2>3 DEF Next
<1>3. ASSUME NameIsWholeOrEmpty, UNCHANGED vars PROVE NameIsWholeOrEmpty'
  BY <1>3 DEF NameIsWholeOrEmpty, vars, policy
<1>4. Inv /\ NameIsWholeOrEmpty /\ [Next]_vars => NameIsWholeOrEmpty'
  BY <1>2, <1>3
<1> QED BY <1>1, <1>4, Invariant, PTL DEF Spec
=============================================================================
