-------------------------- MODULE BootstrapProofs ---------------------------
(***************************************************************************)
(* Proofs about Bootstrap, for every number of agents, starts, removals    *)
(* and edits.                                                              *)
(***************************************************************************)
EXTENDS Bootstrap, SequenceTheorems, TLAPS

\* A file that was never removed is created once, by main(), and written once.
FileInv(f) ==
  removed[f] = 0 =>
    /\ \A p \in Caller : want[p] = f => step[p] # "unlinked"
    /\ \A a \in Agent : step[a] # "idle" =>
         file[f] # Absent /\ (want[a] = f => step[a] \in {"look", "read"})
    /\ phase = "serving" => file[f] # Absent
    /\ want[Main] = f /\ step[Main] = "create" => file[f] = Absent
    /\ want[Main] = f /\ step[Main] = "write" =>
         file[f] = Blank /\ \A w \in pending : w.to # f
    /\ \A w \in pending : w.to = f => file[f] = Blank
    /\ \A v, w \in pending : v.to = f /\ w.to = f => v = w

\* main() has the key before it gets the token, and serves when it has both.
MainInv ==
  /\ step[Main] # "idle" => phase = "starting"
  /\ removed["key"] = 0 /\ step[Main] # "idle" /\ want[Main] = "token" =>
       file["key"] # Absent

\* What agents were told and have written, besides refusals, is the key in the file.
Told == {Refusal} \cup ({file["key"]} \ {Absent, Blank})
KeyInv ==
  removed["key"] = 0 =>
    \A a \in Agent :
      body[a] \in Told /\ listed[a].lines \in Seq(Seq(Told \cup {Operator}))

\* A token on its way to the file is the one that was printed.
TokenInv ==
  removed["token"] = 0 =>
    /\ phase = "serving" => file["token"] \in {Blank, printed}
    /\ \A w \in pending : w.to = "token" =>
         phase # "starting" /\ (phase = "serving" => w.value = printed)

\* Only a file its owner saved ends without a newline; what is missing is not there.
LineInv ==
  \A a \in Agent :
    /\ ~listed[a].ended => listed[a].lines = <<<<Operator>>>>
    /\ agent[a] = "missing" => ~HasLine(a)
    /\ listed[a].lines # <<>>

IInv ==
  TypeOK /\ (\A f \in File : FileInv(f)) /\ MainInv /\ KeyInv /\ TokenInv
  /\ LineInv /\ ListedOnce

-----------------------------------------------------------------------------
(***************************************************************************)
(* Sequences of lines.                                                     *)
(***************************************************************************)
LEMMA OwnersFileType ==
  ASSUME NEW ended \in BOOLEAN
  PROVE  /\ OwnersFile(ended) \in [lines : Seq(Line), ended : BOOLEAN]
         /\ OwnersFile(ended).ended = ended
         /\ OwnersFile(ended).lines = <<<<Operator>>>>
         /\ OwnersFile(ended).lines # <<>>
         /\ DOMAIN OwnersFile(ended).lines = {1}
<1>1. <<Operator>> \in Line
  BY DEF Line
<1>2. <<<<Operator>>>> \in Seq(Line) /\ DOMAIN <<<<Operator>>>> = {1} /\ <<<<Operator>>>> # <<>>
  BY <1>1
<1> QED
  BY <1>2 DEF OwnersFile

LEMMA AppendedType ==
  ASSUME NEW a \in Agent, NEW S, body[a] \in S, listed[a].lines \in Seq(Seq(S)),
         listed[a].ended \in BOOLEAN
  PROVE  Appended(a) \in Seq(Seq(S))
<1> DEFINE lines == listed[a].lines
           last == Append(lines[Len(lines)], body[a])
<1>1. CASE listed[a].ended
  BY <1>1 DEF Appended
<1>2. CASE ~listed[a].ended /\ lines # <<>>
  <2>1. Len(lines) \in 1..Len(lines)
    BY <1>2
  <2>2. last \in Seq(S)
    BY <2>1
  <2>3. [lines EXCEPT ![Len(lines)] = last] \in Seq(Seq(S))
    BY <2>1, <2>2, ExceptSeq
  <2> QED
    BY <1>2, <2>3 DEF Appended
<1>3. CASE ~listed[a].ended /\ lines = <<>>
  <2>1. Appended(a) = [lines EXCEPT ![Len(lines)] = last]
    BY <1>3 DEF Appended
  <2>2. [lines EXCEPT ![Len(lines)] = last] = lines
    BY <1>3
  <2> QED
    BY <2>1, <2>2
<1> QED
  BY <1>1, <1>2, <1>3

LEMMA OwnersPieces ==
  ASSUME NEW S, Operator \in S
  PROVE  <<<<Operator>>>> \in Seq(Seq(S))
<1>1. <<Operator>> \in Seq(S)
  OBVIOUS
<1> QED
  BY <1>1

LEMMA MorePieces ==
  ASSUME NEW S, NEW T, S \subseteq T
  PROVE  Seq(Seq(S)) \subseteq Seq(Seq(T))
<1>1. Seq(S) \subseteq Seq(T)
  OBVIOUS
<1> QED
  BY <1>1

-----------------------------------------------------------------------------
LEMMA InitIInv == Init => IInv
<1> SUFFICES ASSUME Init PROVE IInv
  OBVIOUS
<1> USE NamesAssumption, BoundsAssumption DEF Init
<1>1. TypeOK
  <2>1. listed \in [Agent -> [lines : Seq(Line), ended : BOOLEAN]]
    BY OwnersFileType
  <2> QED
    BY <2>1 DEF TypeOK, File, Caller, Value
<1>2. (\A f \in File : FileInv(f)) /\ MainInv /\ TokenInv
  BY DEF FileInv, MainInv, TokenInv, File, Caller
<1>3. KeyInv
  <2>1. \A a \in Agent : listed[a].lines = <<<<Operator>>>>
    BY OwnersFileType
  <2> QED
    BY <2>1, OwnersPieces DEF KeyInv, Told
<1>4. \A a \in Agent : \E ended \in BOOLEAN : listed[a] = OwnersFile(ended)
  OBVIOUS
<1>5. LineInv
  BY <1>4, OwnersFileType DEF LineInv
<1>6. ListedOnce
  BY <1>4, OwnersFileType DEF ListedOnce
<1> QED
  BY <1>1, <1>2, <1>3, <1>5, <1>6 DEF IInv

-----------------------------------------------------------------------------
(***************************************************************************)
(* What a caller's turn does to the rest.                                  *)
(***************************************************************************)
LEMMA GetsType ==
  ASSUME TypeOK, NEW p \in Caller, NEW value \in Value' \cup {Blank},
         want[p] = "key" => value \in Value',
         sealed' \in Seq(Passphrase \cup {Unset}), Len(sealed') >= Len(sealed),
         Gets(p, value)
  PROVE  /\ phase' \in {"down", "starting", "serving"}
         /\ printed' \in Value' \cup {Absent, Blank}
         /\ want' \in [Caller -> File]
         /\ step' \in [Caller -> {"idle", "look", "read", "create", "write", "unlinked"}]
         /\ agent' \in [Agent -> {"dead", "polling", "asking", "told", "missing", "asleep"}]
         /\ body' \in [Agent -> Value' \cup {Refusal}]
<1> USE DEF TypeOK, Gets, Calls, Idles, Answers, Caller, File
<1>1. Value \subseteq Value'
  BY DEF Value
<1>2. body \in [Agent -> Value' \cup {Refusal}] /\ printed \in Value' \cup {Absent, Blank}
  BY <1>1
<1>3. CASE p = Main
  BY <1>2, <1>3, NamesAssumption
<1>4. CASE p # Main /\ want[p] = "token"
  BY <1>2, <1>4
<1>5. CASE p # Main /\ want[p] = "key"
  <2>1. Answers(p, value) /\ value \in Value' /\ p \in Agent
    BY <1>5
  <2> QED
    BY <1>2, <2>1
<1> QED
  BY <1>3, <1>4, <1>5

LEMMA FailsType ==
  ASSUME TypeOK, NEW p \in Caller, Fails(p)
  PROVE  /\ phase' \in {"down", "starting", "serving"}
         /\ step' \in [Caller -> {"idle", "look", "read", "create", "write", "unlinked"}]
         /\ agent' \in [Agent -> {"dead", "polling", "asking", "told", "missing", "asleep"}]
         /\ UNCHANGED <<printed, want, body>>
<1> QED
  BY NamesAssumption DEF TypeOK, Fails, Idles, Caller

\* A call that returns, and one that fails, concern their caller alone.
LEMMA GetsEffect ==
  ASSUME TypeOK, NEW p \in Caller, NEW value, Gets(p, value)
  PROVE  /\ \A q \in Caller : q # p => step'[q] = step[q] /\ want'[q] = want[q]
         /\ step'[p] \in {"idle", "look"}
         /\ p = Main /\ want[p] = "key" =>
              /\ want'[p] = "token" /\ step'[p] = "look"
              /\ UNCHANGED <<phase, printed, agent, body>>
         /\ p = Main /\ want[p] = "token" =>
              /\ want'[p] = "token" /\ step'[p] = "idle"
              /\ phase' = "serving" /\ printed' = value
              /\ UNCHANGED <<agent, body>>
         /\ p # Main => UNCHANGED <<phase, printed>>
         /\ p # Main => \/ UNCHANGED <<agent, body>>
                        \/ /\ agent' = [agent EXCEPT ![p] = "told"]
                           /\ \/ body' = [body EXCEPT ![p] = Refusal]
                              \/ want[p] = "key" /\ body' = [body EXCEPT ![p] = value]
<1> USE DEF TypeOK, Gets, Calls, Idles, Caller, File
<1>1. CASE p = Main
  BY <1>1
<1>2. CASE p # Main /\ want[p] = "token" /\ value = dsn[p]
  BY <1>2
<1>3. CASE p # Main /\ want[p] = "token" /\ value # dsn[p]
  BY <1>3 DEF Answers
<1>4. CASE p # Main /\ want[p] = "key"
  BY <1>4 DEF Answers
<1> QED
  BY <1>1, <1>2, <1>3, <1>4

LEMMA DecodedIsThere ==
  ASSUME TypeOK, NEW f \in File, Decodes(f)
  PROVE  file[f] # Absent
<1>1. Absent \notin Value
  BY NamesAssumption DEF TypeOK, Value
<1>2. CASE f = "key"
  BY <1>1, <1>2 DEF Decodes
<1>3. CASE f = "token"
  BY <1>3 DEF Decodes
<1> QED
  BY <1>2, <1>3 DEF File

LEMMA FailsEffect ==
  ASSUME TypeOK, NEW p \in Caller, Fails(p)
  PROVE  /\ \A q \in Caller : q # p => step'[q] = step[q]
         /\ step'[p] = "idle"
         /\ UNCHANGED <<want, printed, body>>
         /\ IF p = Main THEN phase' = "down" /\ UNCHANGED agent
            ELSE phase' = phase /\ agent' = [agent EXCEPT ![p] = "dead"]
<1> QED
  BY DEF TypeOK, Fails, Idles, Caller

LEMMA NextTypeOK == TypeOK /\ [Next]_vars => TypeOK'
<1> SUFFICES ASSUME TypeOK, [Next]_vars PROVE TypeOK'
  OBVIOUS
<1> USE NamesAssumption, BoundsAssumption
<1>1. ASSUME NEW p \in Caller, Look(p) PROVE TypeOK'
  BY <1>1 DEF TypeOK, Look, keyVars, hostVars, Caller, Value
<1>2. ASSUME NEW p \in Caller, Read(p) PROVE TypeOK'
  <2>1. CASE ~Decodes(want[p])
    BY <1>2, <2>1, FailsType DEF Read, TypeOK, keyVars, Value
  <2>2. CASE Decodes(want[p])
    <3>1. Gets(p, file[want[p]]) /\ UNCHANGED <<phrase, keyVars, dsn, listed, starts, removed, edits>>
      BY <1>2, <2>2 DEF Read
    <3>2. Value' = Value /\ sealed' = sealed
      BY <3>1 DEF Value, keyVars
    <3>3. /\ file[want[p]] \in Value' \cup {Blank}
          /\ want[p] = "key" => file[want[p]] \in Value'
      BY <2>2, <3>2 DEF Decodes, TypeOK, File
    <3>4. sealed' \in Seq(Passphrase \cup {Unset}) /\ Len(sealed') >= Len(sealed)
      BY <3>2 DEF TypeOK
    <3> QED
      BY <3>1, <3>2, <3>3, <3>4, GetsType DEF TypeOK, keyVars
  <2> QED
    BY <2>1, <2>2
<1>3. ASSUME NEW p \in Caller, Create(p) PROVE TypeOK'
  BY <1>3 DEF TypeOK, Create, hostVars, Caller, File, Value
<1>4. ASSUME NEW p \in Caller, Write(p) PROVE TypeOK'
  <2>1. CASE want[p] = "key" /\ phrase = Unset
    BY <1>4, <2>1, FailsType DEF Write, TypeOK, Value
  <2>2. CASE ~(want[p] = "key" /\ phrase = Unset)
    <3>1. /\ sealed' = Append(sealed, phrase)
          /\ pending' = IF step[p] = "write"
                        THEN pending \cup {[to |-> want[p], value |-> Len(sealed')]}
                        ELSE pending
          /\ Gets(p, Len(sealed'))
          /\ UNCHANGED <<phrase, file, dsn, listed, starts, removed, edits>>
      BY <1>4, <2>2 DEF Write
    <3>2. /\ sealed' \in Seq(Passphrase \cup {Unset})
          /\ Len(sealed') = Len(sealed) + 1 /\ Len(sealed) \in Nat
      BY <3>1 DEF TypeOK
    <3>3. Value \subseteq Value' /\ Len(sealed') \in Value'
      BY <3>2 DEF Value
    <3>4. pending' \subseteq [to : File, value : Value']
      BY <3>1, <3>3 DEF TypeOK, File
    <3>5. /\ file' \in [File -> Value' \cup {Absent, Blank}]
          /\ dsn' \in [Agent -> Value' \cup {Absent, Blank}]
      BY <3>1, <3>3 DEF TypeOK
    <3> QED
      BY <3>1, <3>2, <3>3, <3>4, <3>5, GetsType DEF TypeOK
  <2> QED
    BY <2>1, <2>2
<1>5. ASSUME NEW w \in pending, Land(w) PROVE TypeOK'
  <2>1. file' \in [File -> Value \cup {Absent, Blank}]
    BY <1>5 DEF TypeOK, Land
  <2> QED
    BY <1>5, <2>1 DEF TypeOK, Land, callVars, hostVars, Value
<1>6. CASE Start
  BY <1>6 DEF TypeOK, Start, Calls, keyVars, hostVars, Caller, File, Value
<1>7. CASE Crash
  BY <1>7 DEF TypeOK, Crash, Value
<1>8. ASSUME NEW f \in File, Remove(f) PROVE TypeOK'
  BY <1>8 DEF TypeOK, Remove, hostVars, Value
<1>9. ASSUME NEW a \in Agent, StartAgent(a) \/ Poll(a) \/ Edit(a) PROVE TypeOK'
  <2>1. CASE StartAgent(a)
    BY <2>1 DEF TypeOK, StartAgent, keyVars, callVars, Value
  <2>2. CASE Ask(a)
    BY <2>2 DEF TypeOK, Ask, Calls, keyVars, callVars, Caller, File, Value
  <2>3. CASE ReadKeys(a)
    BY <2>3 DEF TypeOK, ReadKeys, keyVars, callVars, Value
  <2>4. CASE AddKey(a)
    <3>1. /\ listed[a].lines \in Seq(Line) /\ listed[a].ended \in BOOLEAN
          /\ body[a] \in Nat \cup {Operator, Refusal}
      BY DEF TypeOK, Value
    <3>2. Appended(a) \in Seq(Line)
      BY <3>1, AppendedType DEF Line
    <3>3. listed' \in [Agent -> [lines : Seq(Line), ended : BOOLEAN]]
      BY <2>4, <3>2 DEF AddKey, TypeOK
    <3> QED
      BY <2>4, <3>3 DEF TypeOK, AddKey, keyVars, callVars, Value
  <2>5. CASE Wake(a)
    BY <2>5 DEF TypeOK, Wake, keyVars, callVars, Value
  <2>6. CASE Edit(a)
    <3>1. \A ended \in BOOLEAN : OwnersFile(ended) \in [lines : Seq(Line), ended : BOOLEAN]
      BY DEF OwnersFile, Line
    <3>2. listed' \in [Agent -> [lines : Seq(Line), ended : BOOLEAN]]
      BY <2>6, <3>1 DEF Edit, TypeOK
    <3> QED
      BY <2>6, <3>2 DEF TypeOK, Edit, keyVars, callVars, Value
  <2> QED
    BY <1>9, <2>1, <2>2, <2>3, <2>4, <2>5, <2>6 DEF Poll
<1>10. CASE UNCHANGED vars
  BY <1>10 DEF TypeOK, vars, keyVars, callVars, hostVars, Value
<1> QED
  BY <1>1, <1>2, <1>3, <1>4, <1>5, <1>6, <1>7, <1>8, <1>9, <1>10
     DEF Next, GetOrCreate

-----------------------------------------------------------------------------
(***************************************************************************)
(* The files.                                                              *)
(***************************************************************************)
LEMMA NextFileInv ==
  ASSUME TypeOK, MainInv, [Next]_vars, NEW f \in File, FileInv(f)
  PROVE  FileInv(f)'
<1> SUFFICES ASSUME removed'[f] = 0 PROVE FileInv(f)'
  BY DEF FileInv
<1>0. removed[f] = 0
  <2>1. CASE \E g \in File : Remove(g)
    BY <2>1 DEF Remove, TypeOK
  <2>2. CASE ~\E g \in File : Remove(g)
    BY <2>2 DEF Next, vars, GetOrCreate, Poll, Look, Read, Create, Write, Land, Start, Crash,
                StartAgent, Ask, ReadKeys, AddKey, Wake, Edit
  <2> QED
    BY <2>1, <2>2
<1>types. /\ want \in [Caller -> File]
          /\ step \in [Caller -> {"idle", "look", "read", "create", "write", "unlinked"}]
          /\ file \in [File -> Value \cup {Absent, Blank}]
          /\ pending \subseteq [to : File, value : Value]
          /\ Agent \subseteq Caller /\ Main \in Caller /\ Main \notin Agent
          /\ \A p \in Caller : p # Main => p \in Agent
          /\ Absent \notin Value /\ Blank \notin Value /\ Absent # Blank
          /\ removed \in [File -> Nat]
  BY NamesAssumption, BoundsAssumption DEF TypeOK, Caller, Value
<1>files. File = {"key", "token"}
  BY DEF File
<1> USE <1>0, <1>types DEF FileInv
<1>1. ASSUME NEW p \in Caller, Look(p) PROVE FileInv(f)'
  BY <1>1 DEF Look, keyVars
<1>2. ASSUME NEW p \in Caller, Read(p) PROVE FileInv(f)'
  <2>1. CASE ~Decodes(want[p])
    BY <1>2, <2>1, FailsEffect DEF Read, keyVars, MainInv
  <2>2. CASE Decodes(want[p]) /\ p = Main
    <3>1. Gets(p, file[want[p]]) /\ UNCHANGED <<file, pending, removed>> /\ step[p] = "read"
      BY <1>2, <2>2 DEF Read, keyVars
    <3>2. file[want[p]] # Absent
      BY <1>2, <2>2, DecodedIsThere
    <3>3. phase = "starting"
      BY <2>2, <3>1 DEF MainInv
    <3>4. CASE want[p] = "key"
      BY <2>2, <3>1, <3>2, <3>3, <3>4, GetsEffect
    <3>5. CASE want[p] = "token"
      <4>1. CASE f = "key"
        BY <2>2, <3>1, <3>2, <3>3, <3>5, <4>1, GetsEffect DEF MainInv
      <4>2. CASE f = "token"
        BY <2>2, <3>1, <3>2, <3>3, <3>5, <4>2, GetsEffect
      <4> QED
        BY <4>1, <4>2, <1>files
    <3> QED
      BY <1>files, <3>4, <3>5
  <2>3. CASE Decodes(want[p]) /\ p # Main
    BY <1>2, <2>3, GetsEffect DEF Read, keyVars
  <2> QED
    BY <2>1, <2>2, <2>3
<1>3. ASSUME NEW p \in Caller, Create(p) PROVE FileInv(f)'
  BY <1>3 DEF Create
<1>4. ASSUME NEW p \in Caller, Write(p) PROVE FileInv(f)'
  <2>1. CASE want[p] = "key" /\ phrase = Unset
    BY <1>4, <2>1, FailsEffect DEF Write, MainInv
  <2>2. CASE ~(want[p] = "key" /\ phrase = Unset) /\ p = Main
    BY <1>files, <1>4, <2>2, GetsEffect DEF Write, MainInv
  <2>3. CASE ~(want[p] = "key" /\ phrase = Unset) /\ p # Main
    <3>1. /\ Gets(p, Len(sealed')) /\ UNCHANGED <<file, removed>>
          /\ step[p] \in {"write", "unlinked"} /\ p \in Agent
          /\ pending' = IF step[p] = "write"
                        THEN pending \cup {[to |-> want[p], value |-> Len(sealed')]}
                        ELSE pending
      BY <1>4, <2>3 DEF Write
    <3>2. want[p] # f
      BY <3>1
    <3>3. \A w \in pending' : w.to = f => w \in pending
      BY <3>1, <3>2
    <3>4. \A q \in Caller : want'[q] = f /\ step'[q] # "look" => step'[q] = "idle" \/
            (want[q] = f /\ step'[q] = step[q] /\ q # p)
      BY <2>3, <3>1, <3>2, GetsEffect
    <3>5. /\ phase' = phase /\ want'[Main] = want[Main] /\ step'[Main] = step[Main]
          /\ \A a \in Agent : step'[a] # "idle" => file[f] # Absent
      BY <2>3, <3>1, GetsEffect
    <3> QED
      BY <2>3, <3>1, <3>3, <3>4, <3>5
  <2> QED
    BY <2>1, <2>2, <2>3
<1>5. ASSUME NEW w \in pending, Land(w) PROVE FileInv(f)'
  BY <1>5 DEF Land, callVars, Value
<1>6. CASE Start
  BY <1>6 DEF Start, Calls, keyVars
<1>7. CASE Crash
  BY <1>7 DEF Crash
<1>8. ASSUME NEW g \in File, Remove(g) PROVE FileInv(f)'
  BY <1>8 DEF Remove
<1>9. ASSUME NEW a \in Agent, StartAgent(a) \/ Poll(a) \/ Edit(a) PROVE FileInv(f)'
  <2>1. CASE Ask(a)
    BY <2>1 DEF Ask, Calls, keyVars, callVars
  <2>2. CASE ~Ask(a)
    BY <1>9, <2>2 DEF StartAgent, Poll, ReadKeys, AddKey, Wake, Edit, keyVars, callVars
  <2> QED
    BY <2>1, <2>2
<1>10. CASE UNCHANGED vars
  BY <1>10 DEF vars, keyVars, callVars
<1> QED
  BY <1>1, <1>2, <1>3, <1>4, <1>5, <1>6, <1>7, <1>8, <1>9, <1>10
     DEF Next, GetOrCreate

LEMMA NextMainInv ==
  ASSUME TypeOK, MainInv, \A f \in File : FileInv(f), [Next]_vars
  PROVE  MainInv'
<1>types. /\ want \in [Caller -> File]
          /\ step \in [Caller -> {"idle", "look", "read", "create", "write", "unlinked"}]
          /\ file \in [File -> Value \cup {Absent, Blank}]
          /\ pending \subseteq [to : File, value : Value]
          /\ Agent \subseteq Caller /\ Main \in Caller /\ Main \notin Agent
          /\ \A p \in Caller : p # Main => p \in Agent
          /\ Absent \notin Value /\ Blank \notin Value /\ Absent # Blank
          /\ removed \in [File -> Nat]
  BY NamesAssumption, BoundsAssumption DEF TypeOK, Caller, Value
<1>files. File = {"key", "token"}
  BY DEF File
<1> USE <1>types, <1>files DEF MainInv, FileInv
<1>1. ASSUME NEW p \in Caller, Look(p) \/ Create(p) PROVE MainInv'
  BY <1>1 DEF Look, Create, keyVars
<1>2. ASSUME NEW p \in Caller, Read(p) PROVE MainInv'
  <2>1. CASE ~Decodes(want[p])
    BY <1>2, <2>1, FailsEffect DEF Read, keyVars
  <2>2. CASE Decodes(want[p])
    <3>1. Gets(p, file[want[p]]) /\ UNCHANGED <<file, removed>> /\ step[p] = "read"
      BY <1>2, <2>2 DEF Read, keyVars
    <3>2. file[want[p]] # Absent
      BY <1>2, <2>2, DecodedIsThere
    <3>3. CASE p = Main
      BY <3>1, <3>2, <3>3, GetsEffect
    <3>4. CASE p # Main
      BY <3>1, <3>4, GetsEffect
    <3> QED
      BY <3>3, <3>4
  <2> QED
    BY <2>1, <2>2
<1>3. ASSUME NEW p \in Caller, Write(p) PROVE MainInv'
  <2>1. CASE want[p] = "key" /\ phrase = Unset
    BY <1>3, <2>1, FailsEffect DEF Write
  <2>2. CASE ~(want[p] = "key" /\ phrase = Unset)
    BY <1>3, <2>2, GetsEffect DEF Write
  <2> QED
    BY <2>1, <2>2
<1>4. ASSUME NEW w \in pending, Land(w) PROVE MainInv'
  BY <1>4 DEF Land, callVars, Value
<1>5. CASE Start
  BY <1>5 DEF Start, Calls, keyVars
<1>6. CASE Crash
  BY <1>6 DEF Crash
<1>7. ASSUME NEW f \in File, Remove(f) PROVE MainInv'
  BY <1>7 DEF Remove
<1>8. ASSUME NEW a \in Agent, StartAgent(a) \/ Poll(a) \/ Edit(a) PROVE MainInv'
  BY <1>8 DEF StartAgent, Poll, Ask, Calls, ReadKeys, AddKey, Wake, Edit, keyVars, callVars
<1>9. CASE UNCHANGED vars
  BY <1>9 DEF vars, keyVars, callVars
<1> QED
  BY <1>1, <1>2, <1>3, <1>4, <1>5, <1>6, <1>7, <1>8, <1>9 DEF Next, GetOrCreate

-----------------------------------------------------------------------------
(***************************************************************************)
(* The token, the key and the lines.                                       *)
(***************************************************************************)
LEMMA NextTokenInv ==
  ASSUME TypeOK, MainInv, FileInv("token"), TokenInv, [Next]_vars
  PROVE  TokenInv'
<1>types. /\ want \in [Caller -> File]
          /\ Agent \subseteq Caller /\ Main \in Caller
          /\ \A p \in Caller : p # Main => p \in Agent
          /\ removed \in [File -> Nat] /\ "token" \in File
          /\ file \in [File -> Value \cup {Absent, Blank}]
          /\ File = {"key", "token"}
  BY NamesAssumption, BoundsAssumption DEF TypeOK, Caller, File
<1> USE <1>types DEF TokenInv
<1>1. ASSUME NEW p \in Caller, Look(p) \/ Create(p) PROVE TokenInv'
  <2>1. CASE Look(p)
    BY <2>1 DEF Look, keyVars
  <2>2. CASE Create(p)
    BY <2>2 DEF Create
  <2> QED
    BY <1>1, <2>1, <2>2
<1>2. ASSUME NEW p \in Caller, Read(p) PROVE TokenInv'
  <2>1. CASE ~Decodes(want[p])
    BY <1>2, <2>1, FailsEffect DEF Read, keyVars
  <2>2. CASE Decodes(want[p])
    <3>1. Gets(p, file[want[p]]) /\ UNCHANGED <<file, pending, removed>> /\ step[p] = "read"
      BY <1>2, <2>2 DEF Read, keyVars
    <3>2. CASE p = Main /\ want[p] = "token"
      BY <3>1, <3>2, GetsEffect DEF MainInv
    <3>3. CASE p # Main \/ want[p] = "key"
      BY <3>1, <3>3, GetsEffect
    <3> QED
      BY <3>2, <3>3
  <2> QED
    BY <2>1, <2>2
<1>3. ASSUME NEW p \in Caller, Write(p) PROVE TokenInv'
  <2>1. CASE want[p] = "key" /\ phrase = Unset
    BY <1>3, <2>1, FailsEffect DEF Write
  <2>2. CASE ~(want[p] = "key" /\ phrase = Unset)
    <3>1. /\ Gets(p, Len(sealed')) /\ UNCHANGED <<file, removed>>
          /\ step[p] \in {"write", "unlinked"}
          /\ pending' = IF step[p] = "write"
                        THEN pending \cup {[to |-> want[p], value |-> Len(sealed')]}
                        ELSE pending
      BY <1>3, <2>2 DEF Write
    <3>2. CASE p = Main /\ want[p] = "token"
      BY <3>1, <3>2, GetsEffect DEF FileInv
    <3>3. CASE p # Main \/ want[p] = "key"
      <4>1. removed["token"] = 0 => \A w \in pending' : w.to = "token" => w \in pending
        BY <3>1, <3>3 DEF FileInv
      <4> QED
        BY <3>1, <3>3, <4>1, GetsEffect
    <3> QED
      BY <3>2, <3>3
  <2> QED
    BY <2>1, <2>2
<1>4. ASSUME NEW w \in pending, Land(w) PROVE TokenInv'
  BY <1>4 DEF Land, FileInv
<1>5. CASE Start
  BY <1>5 DEF Start, keyVars
<1>6. CASE Crash
  BY <1>6 DEF Crash
<1>7. ASSUME NEW f \in File, Remove(f) PROVE TokenInv'
  BY <1>7 DEF Remove
<1>8. ASSUME NEW a \in Agent, StartAgent(a) \/ Poll(a) \/ Edit(a) PROVE TokenInv'
  BY <1>8 DEF StartAgent, Poll, Ask, ReadKeys, AddKey, Wake, Edit, keyVars
<1>9. CASE UNCHANGED vars
  BY <1>9 DEF vars, keyVars
<1> QED
  BY <1>1, <1>2, <1>3, <1>4, <1>5, <1>6, <1>7, <1>8, <1>9 DEF Next, GetOrCreate

LEMMA NextKeyInv ==
  ASSUME TypeOK, FileInv("key"), KeyInv, [Next]_vars
  PROVE  KeyInv'
<1> SUFFICES ASSUME removed'["key"] = 0, NEW a \in Agent
             PROVE  body'[a] \in Told' /\ listed'[a].lines \in Seq(Seq(Told' \cup {Operator}))
  BY DEF KeyInv
<1>types. /\ Agent \subseteq Caller /\ \A p \in Caller : p # Main => p \in Agent
          /\ removed \in [File -> Nat] /\ File = {"key", "token"}
          /\ file \in [File -> Value \cup {Absent, Blank}]
          /\ body \in [Agent -> Value \cup {Refusal}]
          /\ want \in [Caller -> File]
          /\ Absent \notin Value /\ Blank \notin Value
  BY NamesAssumption, BoundsAssumption DEF TypeOK, Caller, File, Value
<1>0. removed["key"] = 0
  <2>1. CASE \E g \in File : Remove(g)
    BY <1>types, <2>1 DEF Remove
  <2>2. CASE ~\E g \in File : Remove(g)
    BY <2>2 DEF Next, vars, GetOrCreate, Poll, Look, Read, Create, Write, Land, Start, Crash,
                StartAgent, Ask, ReadKeys, AddKey, Wake, Edit
  <2> QED
    BY <2>1, <2>2
<1>1. body[a] \in Told /\ listed[a].lines \in Seq(Seq(Told \cup {Operator}))
  BY <1>0 DEF KeyInv
<1>2. Told \subseteq Told'
  <2>1. CASE \E p \in Caller : Create(p)
    <3>1. PICK p \in Caller : Create(p)
      BY <2>1
    <3>2. CASE want[p] = "key"
      BY <1>0, <1>types, <3>1, <3>2 DEF Create, FileInv, Told
    <3>3. CASE want[p] = "token"
      BY <1>types, <3>1, <3>3 DEF Create, Told
    <3> QED
      BY <1>types, <3>2, <3>3
  <2>2. CASE \E w \in pending : Land(w)
    BY <1>0, <1>types, <2>2 DEF Land, FileInv, Told
  <2>3. CASE \E g \in File : Remove(g)
    BY <1>0, <1>types, <2>3 DEF Remove, Told
  <2>4. CASE \E p \in Caller : Look(p) \/ Read(p) \/ Write(p)
    BY <2>4 DEF Look, Read, Write, keyVars, Told
  <2>5. CASE Start \/ Crash \/ \E b \in Agent : StartAgent(b) \/ Poll(b) \/ Edit(b)
    BY <2>5 DEF Start, Crash, StartAgent, Poll, Ask, ReadKeys, AddKey, Wake, Edit,
                keyVars, Told
  <2>6. CASE UNCHANGED vars
    BY <2>6 DEF vars, keyVars, Told
  <2> QED
    BY <2>1, <2>2, <2>3, <2>4, <2>5, <2>6 DEF Next, GetOrCreate
<1>3. body'[a] \in Told'
  <2>1. ASSUME NEW p \in Caller, Read(p) PROVE body'[a] \in Told'
    <3>1. CASE ~Decodes(want[p])
      BY <1>1, <1>2, <2>1, <3>1, FailsEffect DEF Read
    <3>2. CASE Decodes(want[p])
      <4>1. Gets(p, file[want[p]])
        BY <2>1, <3>2 DEF Read
      <4>2. want[p] = "key" => file[want[p]] \in Told
        BY <1>types, <3>2 DEF Decodes, Told
      <4> QED
        BY <1>1, <1>2, <1>types, <4>1, <4>2, GetsEffect DEF Told
    <3> QED
      BY <3>1, <3>2
  <2>2. ASSUME NEW p \in Caller, Write(p) PROVE body'[a] \in Told'
    <3>1. CASE want[p] = "key" /\ phrase = Unset
      BY <1>1, <1>2, <2>2, <3>1, FailsEffect DEF Write
    <3>2. CASE ~(want[p] = "key" /\ phrase = Unset)
      <4>1. Gets(p, Len(sealed')) /\ step[p] \in {"write", "unlinked"}
        BY <2>2, <3>2 DEF Write
      <4>2. p # Main => want[p] # "key"
        BY <1>0, <1>types, <4>1 DEF FileInv
      <4> QED
        BY <1>1, <1>2, <1>types, <4>1, <4>2, GetsEffect DEF Told
    <3> QED
      BY <3>1, <3>2
  <2>3. CASE ~\E p \in Caller : Read(p) \/ Write(p)
    <3>1. UNCHANGED body
      BY <2>3 DEF Next, vars, hostVars, GetOrCreate, Poll, Look, Create, Land, Start, Crash,
                  Remove, StartAgent, Ask, ReadKeys, AddKey, Wake, Edit
    <3> QED
      BY <1>1, <1>2, <3>1
  <2> QED
    BY <2>1, <2>2, <2>3
<1>4. listed'[a].lines \in Seq(Seq(Told' \cup {Operator}))
  <2>1. listed[a].lines \in Seq(Seq(Told' \cup {Operator}))
    <3>1. Told \cup {Operator} \subseteq Told' \cup {Operator}
      BY <1>2
    <3> QED
      BY <1>1, <3>1, MorePieces
  <2>2. ASSUME NEW b \in Agent, AddKey(b) PROVE listed'[a].lines \in Seq(Seq(Told' \cup {Operator}))
    <3>1. CASE a = b
      <4>1. Appended(a) \in Seq(Seq(Told' \cup {Operator}))
        BY <1>1, <1>2, <2>1, AppendedType DEF TypeOK
      <4> QED
        BY <2>2, <3>1, <4>1 DEF AddKey, TypeOK
    <3>2. CASE a # b
      BY <2>1, <2>2, <3>2 DEF AddKey, TypeOK
    <3> QED
      BY <3>1, <3>2
  <2>3. ASSUME NEW b \in Agent, Edit(b) PROVE listed'[a].lines \in Seq(Seq(Told' \cup {Operator}))
    <3>1. CASE a = b
      <4>1. listed'[a].lines = <<<<Operator>>>>
        BY <2>3, <3>1, OwnersFileType DEF Edit, TypeOK
      <4> QED
        BY <4>1, OwnersPieces
    <3>2. CASE a # b
      BY <2>1, <2>3, <3>2 DEF Edit, TypeOK
    <3> QED
      BY <3>1, <3>2
  <2>4. CASE ~\E b \in Agent : AddKey(b) \/ Edit(b)
    <3>1. UNCHANGED listed
      BY <2>4 DEF Next, vars, hostVars, GetOrCreate, Poll, Look, Read, Create, Write, Land,
                  Start, Crash, Remove, StartAgent, Ask, ReadKeys, Wake
    <3> QED
      BY <2>1, <3>1
  <2> QED
    BY <2>2, <2>3, <2>4
<1> QED
  BY <1>3, <1>4

LEMMA NextLineInv ==
  ASSUME TypeOK, LineInv, ListedOnce, [Next]_vars
  PROVE  LineInv' /\ ListedOnce'
<1> SUFFICES ASSUME NEW a \in Agent
             PROVE  /\ ~listed'[a].ended => listed'[a].lines = <<<<Operator>>>>
                    /\ listed'[a].lines # <<>>
                    /\ agent'[a] = "missing" =>
                         \A i \in DOMAIN listed'[a].lines : listed'[a].lines[i] # <<body'[a]>>
                    /\ \A i, n \in DOMAIN listed'[a].lines :
                         listed'[a].lines[i] = listed'[a].lines[n] => i = n
  BY DEF LineInv, ListedOnce, HasLine
<1>types. /\ Agent \subseteq Caller /\ \A p \in Caller : p # Main => p \in Agent
          /\ agent \in [Agent -> {"dead", "polling", "asking", "told", "missing", "asleep"}]
          /\ body \in [Agent -> Value \cup {Refusal}] /\ Operator \notin Value \cup {Refusal}
          /\ listed \in [Agent -> [lines : Seq(Line), ended : BOOLEAN]]
  BY NamesAssumption DEF TypeOK, Caller, Value
<1>1. /\ ~listed[a].ended => listed[a].lines = <<<<Operator>>>>
      /\ listed[a].lines # <<>>
      /\ agent[a] = "missing" =>
           \A i \in DOMAIN listed[a].lines : listed[a].lines[i] # <<body[a]>>
      /\ \A i, n \in DOMAIN listed[a].lines :
           listed[a].lines[i] = listed[a].lines[n] => i = n
  BY DEF LineInv, ListedOnce, HasLine
<1>2. CASE UNCHANGED listed /\ (agent'[a] = "missing" =>
                                  agent[a] = "missing" /\ body'[a] = body[a])
  BY <1>1, <1>2
<1>3. ASSUME NEW p \in Caller, Read(p) \/ Write(p)
      PROVE  UNCHANGED listed /\ (agent'[a] = "missing" =>
                                  agent[a] = "missing" /\ body'[a] = body[a])
  <2>1. UNCHANGED listed
    BY <1>3 DEF Read, Write
  <2>2. CASE Fails(p)
    BY <1>types, <2>1, <2>2, FailsEffect
  <2>3. CASE \E value : Gets(p, value)
    <3>1. PICK value : Gets(p, value)
      BY <2>3
    <3>2. CASE UNCHANGED <<agent, body>>
      BY <2>1, <3>2
    <3>3. CASE p # Main /\ ~UNCHANGED <<agent, body>>
      <4>1. agent' = [agent EXCEPT ![p] = "told"]
        BY <3>1, <3>3, GetsEffect
      <4>2. \E text : body' = [body EXCEPT ![p] = text]
        BY <3>1, <3>3, GetsEffect
      <4> QED
        BY <1>types, <2>1, <4>1, <4>2
    <3>4. p = Main => UNCHANGED <<agent, body>>
      <4>1. want[p] \in {"key", "token"}
        BY DEF TypeOK, File
      <4> QED
        BY <3>1, <4>1, GetsEffect
    <3> QED
      BY <3>2, <3>3, <3>4
  <2> QED
    BY <1>3, <2>2, <2>3 DEF Read, Write
<1>4. ASSUME NEW b \in Agent, StartAgent(b) \/ Ask(b) \/ Wake(b)
      PROVE  UNCHANGED listed /\ (agent'[a] = "missing" =>
                                  agent[a] = "missing" /\ body'[a] = body[a])
  BY <1>4, <1>types DEF StartAgent, Ask, Wake
<1>5. CASE Crash
  BY <1>2, <1>5, <1>types DEF Crash
<1>6. ASSUME NEW b \in Agent, ReadKeys(b)
      PROVE  UNCHANGED <<listed, body>> /\ (agent'[a] = "missing" =>
               \A i \in DOMAIN listed[a].lines : listed[a].lines[i] # <<body[a]>>)
  BY <1>1, <1>6, <1>types DEF ReadKeys, HasLine
<1>7. ASSUME NEW b \in Agent, AddKey(b), a # b
      PROVE  listed'[a] = listed[a] /\ agent'[a] = agent[a] /\ body' = body
  BY <1>7, <1>types DEF AddKey
<1>8. CASE AddKey(a)
  <2>1. /\ listed'[a].ended = TRUE /\ listed'[a].lines = Appended(a)
        /\ agent'[a] = "asleep" /\ agent[a] = "missing"
    BY <1>8, <1>types DEF AddKey
  <2>2. /\ Appended(a) # <<>>
        /\ \A i, n \in DOMAIN Appended(a) : Appended(a)[i] = Appended(a)[n] => i = n
    <3> DEFINE lines == listed[a].lines
    <3>1. CASE listed[a].ended
      <4>1. Appended(a) = Append(lines, <<body[a]>>) /\ lines \in Seq(Line)
        BY <3>1, <1>types DEF Appended
      <4>2. \A i \in 1..Len(lines) : lines[i] # <<body[a]>>
        BY <1>1, <2>1, <4>1
      <4>3. \A i, n \in 1..Len(lines) : lines[i] = lines[n] => i = n
        BY <1>1, <4>1
      <4>4. /\ DOMAIN Appended(a) = 1..(Len(lines) + 1) /\ Len(lines) \in Nat
            /\ \A i \in 1..Len(lines) : Appended(a)[i] = lines[i]
            /\ Appended(a)[Len(lines) + 1] = <<body[a]>>
        BY <4>1
      <4>5. Appended(a) # <<>>
        <5>1. Len(lines) + 1 \in DOMAIN Appended(a)
          BY <4>4
        <5> QED
          BY <5>1
      <4>6. ASSUME NEW i \in DOMAIN Appended(a), NEW n \in DOMAIN Appended(a),
                   Appended(a)[i] = Appended(a)[n]
            PROVE  i = n
        <5>1. CASE i \in 1..Len(lines) /\ n \in 1..Len(lines)
          BY <4>3, <4>4, <4>6, <5>1
        <5>2. CASE i = Len(lines) + 1 \/ n = Len(lines) + 1
          <6>1. i \notin 1..Len(lines) \/ n \notin 1..Len(lines)
            BY <4>4, <5>2
          <6>2. i \notin 1..Len(lines) => n \notin 1..Len(lines)
            BY <4>2, <4>4, <4>6, <5>2
          <6>3. n \notin 1..Len(lines) => i \notin 1..Len(lines)
            BY <4>2, <4>4, <4>6, <5>2
          <6> QED
            BY <4>4, <6>1, <6>2, <6>3
        <5>3. \A k \in 1..(Len(lines) + 1) : k \in 1..Len(lines) \/ k = Len(lines) + 1
          BY <4>4
        <5>4. i \in 1..(Len(lines) + 1) /\ n \in 1..(Len(lines) + 1)
          BY <4>4, <4>6
        <5> QED
          BY <5>1, <5>2, <5>3, <5>4
      <4> QED
        BY <4>5, <4>6
    <3>2. CASE ~listed[a].ended
      <4>1. lines = <<<<Operator>>>>
        BY <1>1, <3>2
      <4>2. \E line : Appended(a) = <<line>>
        BY <3>2, <4>1 DEF Appended
      <4> QED
        BY <4>2
    <3> QED
      BY <1>types, <3>1, <3>2
  <2> QED
    BY <2>1, <2>2
<1>9. ASSUME NEW b \in Agent, Edit(b), a # b
      PROVE  listed'[a] = listed[a] /\ agent'[a] = agent[a] /\ body' = body
  BY <1>9, <1>types DEF Edit
<1>10. CASE Edit(a)
  <2>1. listed'[a].lines = <<<<Operator>>>> /\ body'[a] # Operator
    BY <1>10, <1>types, OwnersFileType DEF Edit
  <2> QED
    BY <2>1
<1>11. CASE \/ \E p \in Caller : Look(p) \/ Create(p)
            \/ \E w \in pending : Land(w)
            \/ Start \/ (\E f \in File : Remove(f)) \/ UNCHANGED vars
  BY <1>2, <1>11 DEF Look, Create, Land, Start, Remove, vars, hostVars
<1>12. CASE \E b \in Agent : ReadKeys(b)
  BY <1>1, <1>6, <1>12
<1>13. CASE \E b \in Agent : a # b /\ (AddKey(b) \/ Edit(b))
  BY <1>1, <1>7, <1>9, <1>13
<1> QED
  BY <1>2, <1>3, <1>4, <1>5, <1>8, <1>10, <1>11, <1>12, <1>13 DEF Next, GetOrCreate, Poll

-----------------------------------------------------------------------------
(***************************************************************************)
(* The theorems.                                                           *)
(***************************************************************************)
LEMMA BootstrapInvariance == Spec => []IInv
<1>1. IInv /\ [Next]_vars => IInv'
  <2> SUFFICES ASSUME IInv, [Next]_vars PROVE IInv'
    OBVIOUS
  <2>1. TypeOK /\ MainInv /\ KeyInv /\ TokenInv /\ LineInv /\ ListedOnce
        /\ \A f \in File : FileInv(f)
    BY DEF IInv
  <2>2. FileInv("key") /\ FileInv("token")
    BY <2>1 DEF File
  <2>3. TypeOK'
    BY <2>1, NextTypeOK
  <2>4. \A f \in File : FileInv(f)'
    BY <2>1, NextFileInv
  <2>5. MainInv' /\ TokenInv' /\ KeyInv' /\ LineInv' /\ ListedOnce'
    BY <2>1, <2>2, NextMainInv, NextTokenInv, NextKeyInv, NextLineInv
  <2> QED
    BY <2>3, <2>4, <2>5 DEF IInv, File
<1> QED
  BY InitIInv, <1>1, PTL DEF Spec

\* Type correctness: only written values are handed out.
THEOREM BootstrapTypeCorrect == Spec => []TypeOK
<1>1. IInv => TypeOK
  BY DEF IInv
<1> QED
  BY <1>1, BootstrapInvariance, PTL

\* However many agents poll and however often the controller crashes and starts,
\* hosts trust no key but the one in the key file, while nobody removes it.
THEOREM OneKeyForAll == Spec => []OneKey
<1>1. IInv => OneKey
  <2> SUFFICES ASSUME IInv, removed["key"] = 0, NEW a \in Agent
               PROVE  KeysOf(a) \subseteq {file["key"]} /\ body[a] \in {Refusal, file["key"]}
    BY DEF OneKey
  <2>1. body[a] \in Told /\ listed[a].lines \in Seq(Seq(Told \cup {Operator}))
    BY DEF IInv, KeyInv
  <2>2. Operator \notin Value /\ Refusal \notin Value
    BY NamesAssumption DEF IInv, TypeOK, Value
  <2>3. \A i \in DOMAIN listed[a].lines : \A n \in DOMAIN listed[a].lines[i] :
          listed[a].lines[i][n] \in Told \cup {Operator}
    BY <2>1
  <2> QED
    BY <2>1, <2>2, <2>3 DEF Told, KeysOf
<1> QED
  BY <1>1, BootstrapInvariance, PTL

\* However requests, crashes and late writes come, a controller that serves knows
\* no token but the one it printed, while nobody removes the token file.
THEOREM PrintedTokenIsKnown == Spec => []PrintedTokenHolds
<1>1. IInv => PrintedTokenHolds
  BY DEF IInv, TokenInv, PrintedTokenHolds
<1> QED
  BY <1>1, BootstrapInvariance, PTL

\* No agent ever lists a line twice, whatever it is told and whoever saves the file.
THEOREM NoLineTwice == Spec => []ListedOnce
<1>1. IInv => ListedOnce
  BY DEF IInv
<1> QED
  BY <1>1, BootstrapInvariance, PTL

-----------------------------------------------------------------------------
(***************************************************************************)
(* A key that is lost.                                                     *)
(***************************************************************************)
\* Requests are handled only while the controller serves.
HandledWhileServing == \A a \in Agent : step[a] # "idle" => phase = "serving"

LEMMA NextHandled ==
  ASSUME TypeOK, MainInv, HandledWhileServing, [Next]_vars
  PROVE  HandledWhileServing'
<1> USE NamesAssumption DEF HandledWhileServing
<1>types. Main \in Caller /\ \A a \in Agent : a \in Caller /\ a # Main
  BY DEF Caller
<1>1. ASSUME NEW p \in Caller, Look(p) \/ Create(p) PROVE HandledWhileServing'
  BY <1>1, <1>types DEF Look, Create, TypeOK
<1>2. ASSUME NEW p \in Caller, Read(p) \/ Write(p) PROVE HandledWhileServing'
  <2>1. step[p] # "idle"
    BY <1>2 DEF Read, Write
  <2>2. CASE p = Main
    <3>1. \A a \in Agent : step[a] = "idle"
      BY <2>1, <2>2 DEF MainInv
    <3>2. \A a \in Agent : step'[a] = step[a]
      BY <1>2, <1>types, <2>2, GetsEffect, FailsEffect DEF Read, Write
    <3> QED
      BY <3>1, <3>2
  <2>3. CASE p # Main
    <3>1. phase = "serving"
      BY <2>1, <2>3 DEF Caller
    <3>2. phase' = phase
      BY <1>2, <2>3, GetsEffect, FailsEffect DEF Read, Write
    <3> QED
      BY <3>1, <3>2
  <2> QED
    BY <2>2, <2>3
<1>3. CASE Start
  BY <1>3, <1>types DEF Start, Calls, TypeOK
<1>4. CASE Crash
  BY <1>4, <1>types DEF Crash
<1>5. ASSUME NEW a \in Agent, Ask(a) PROVE HandledWhileServing'
  BY <1>5, <1>types DEF Ask, Calls, callVars, TypeOK
<1>6. ASSUME NEW f \in File, Remove(f) PROVE HandledWhileServing'
  BY <1>6, <1>types DEF Remove
<1>7. CASE \/ \E w \in pending : Land(w)
           \/ \E a \in Agent : StartAgent(a) \/ ReadKeys(a) \/ AddKey(a) \/ Wake(a) \/ Edit(a)
           \/ UNCHANGED vars
  BY <1>7 DEF Land, StartAgent, ReadKeys, AddKey, Wake, Edit, callVars, vars
<1> QED
  BY <1>1, <1>2, <1>3, <1>4, <1>5, <1>6, <1>7 DEF Next, GetOrCreate, Poll

\* The key file is there and empty, nothing comes to it, and main(), whenever it
\* runs, is on its way to find that out.
Stuck ==
  /\ file["key"] = Blank
  /\ \A w \in pending : w.to # "key"
  /\ phase # "serving"
  /\ step[Main] # "idle" => want[Main] = "key" /\ step[Main] \in {"look", "read"}

\* Until the operator removes the file an (n+1)st time.
StuckSince(n) == removed["key"] > n \/ (removed["key"] = n /\ Stuck)

LEMMA NextStuck ==
  ASSUME TypeOK, MainInv, HandledWhileServing, Stuck, [Next]_vars,
         removed'["key"] = removed["key"]
  PROVE  Stuck'
<1> USE NamesAssumption DEF Stuck
<1>types. /\ Main \in Caller /\ \A a \in Agent : a \in Caller /\ a # Main
          /\ "key" \in File /\ Blank \notin Value
  BY DEF Caller, File, TypeOK, Value
<1>1. \A a \in Agent : step[a] = "idle"
  BY DEF HandledWhileServing
<1>2. ASSUME NEW p \in Caller, GetOrCreate(p) PROVE Stuck'
  <2>1. p = Main
    BY <1>1, <1>2 DEF GetOrCreate, Look, Read, Create, Write, Caller
  <2>2. CASE Look(p)
    BY <1>types, <2>1, <2>2 DEF Look, TypeOK, keyVars
  <2>3. CASE Read(p)
    <3>1. want[Main] = "key" /\ ~Decodes("key")
      BY <1>types, <2>1, <2>3 DEF Read, Decodes
    <3>2. Fails(Main) /\ UNCHANGED keyVars
      BY <2>1, <2>3, <3>1 DEF Read
    <3> QED
      BY <1>types, <3>2, FailsEffect DEF keyVars
  <2> QED
    BY <1>2, <2>1, <2>2, <2>3 DEF GetOrCreate, Create, Write
<1>3. ASSUME NEW w \in pending, Land(w) PROVE Stuck'
  <2>1. w.to # "key"
    OBVIOUS
  <2>2. file'["key"] = file["key"]
    BY <1>3, <1>types, <2>1 DEF Land, TypeOK
  <2> QED
    BY <1>3, <2>2 DEF Land, callVars
<1>4. CASE Start
  BY <1>4, <1>types DEF Start, Calls, TypeOK, keyVars
<1>5. CASE Crash
  BY <1>5, <1>types DEF Crash
<1>6. ASSUME NEW f \in File, Remove(f) PROVE Stuck'
  <2>1. f # "key"
    BY <1>6 DEF Remove, TypeOK
  <2> QED
    BY <1>6, <1>types, <2>1 DEF Remove, TypeOK
<1>7. ASSUME NEW a \in Agent, StartAgent(a) \/ Poll(a) \/ Edit(a) PROVE Stuck'
  BY <1>7 DEF StartAgent, Poll, Ask, ReadKeys, AddKey, Wake, Edit, keyVars, callVars
<1>8. CASE UNCHANGED vars
  BY <1>8 DEF vars, keyVars, callVars
<1> QED
  BY <1>2, <1>3, <1>4, <1>5, <1>6, <1>7, <1>8 DEF Next

LEMMA RemovedGrows ==
  ASSUME TypeOK, [Next]_vars
  PROVE  removed'["key"] = removed["key"] \/ removed'["key"] = removed["key"] + 1
<1>1. ASSUME NEW f \in File, Remove(f)
      PROVE  removed'["key"] = removed["key"] \/ removed'["key"] = removed["key"] + 1
  BY <1>1 DEF Remove, TypeOK, File
<1>2. CASE ~\E f \in File : Remove(f)
  BY <1>2 DEF Next, GetOrCreate, Look, Read, Create, Write, Land, Start, Crash,
     StartAgent, Poll, Ask, ReadKeys, AddKey, Wake, Edit, vars
<1> QED
  BY <1>1, <1>2

LEMMA NextStuckSince ==
  ASSUME TypeOK, MainInv, HandledWhileServing, NEW n \in 0..MaxRemovals,
         StuckSince(n), [Next]_vars
  PROVE  StuckSince(n)'
<1>1. removed["key"] \in Nat /\ n \in Nat
  BY BoundsAssumption DEF TypeOK, File
<1>2. removed'["key"] = removed["key"] \/ removed'["key"] = removed["key"] + 1
  BY RemovedGrows
<1>3. CASE removed'["key"] = removed["key"]
  BY <1>1, <1>3, NextStuck DEF StuckSince
<1>4. CASE removed'["key"] = removed["key"] + 1
  BY <1>1, <1>4 DEF StuckSince
<1> QED
  BY <1>2, <1>3, <1>4

LEMMA LostForOne ==
  ASSUME NEW n \in 0..MaxRemovals
  PROVE  Spec => [](KeyLost /\ removed["key"] = n =>
                      [](phase # "serving" \/ removed["key"] # n))
<1>1. Init => HandledWhileServing
  BY DEF Init, HandledWhileServing, Caller
<1>2. IInv /\ HandledWhileServing /\ [Next]_vars => HandledWhileServing'
  BY NextHandled DEF IInv
<1>3. IInv /\ KeyLost /\ removed["key"] = n => StuckSince(n)
  BY DEF IInv, MainInv, KeyLost, StuckSince, Stuck
<1>4. IInv /\ HandledWhileServing /\ StuckSince(n) /\ [Next]_vars => StuckSince(n)'
  BY NextStuckSince DEF IInv
<1>5. StuckSince(n) => phase # "serving" \/ removed["key"] # n
  <2>1. n \in Nat
    BY BoundsAssumption
  <2> QED
    BY <2>1 DEF StuckSince, Stuck
<1> QED
  BY <1>1, <1>2, <1>3, <1>4, <1>5, BootstrapInvariance, PTL DEF Spec

\* A controller that lost its key on the way to the file never serves again until
\* the operator removes the file: each start finds it there, cannot decode it, and
\* ends; and nothing else writes it while the controller does not serve.
THEOREM LostKeysAreFinal == Spec => LostKeyIsFinal
<1> SUFFICES ASSUME NEW n \in 0..MaxRemovals
             PROVE  Spec => [](KeyLost /\ removed["key"] = n =>
                                 [](phase # "serving" \/ removed["key"] # n))
  BY DEF LostKeyIsFinal
<1> QED
  BY LostForOne
=============================================================================
