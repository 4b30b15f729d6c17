----------------------------- MODULE Bootstrap ------------------------------
(***************************************************************************)
(* How a host comes to trust the controller: the files with the            *)
(* controller's key and token (there-controller/src/keys.rs), the start of *)
(* the controller (main.rs), its bootstrap handler (http_server.rs), and   *)
(* the agent that asks for the key and lists it in authorized_keys         *)
(* (there-agent/src/main.rs).                                              *)
(*                                                                         *)
(* tokio's File hands what it is given to a thread of its own and does not *)
(* wait: a value is `pending`, and in use, before it is in its file, and   *)
(* nobody hears of a write that fails.  The file is there, blank, from     *)
(* File::create on.  A crash drops what is pending.                        *)
(***************************************************************************)
EXTENDS Naturals, Sequences, FiniteSets

CONSTANTS
  Main, Agent,             \* who reads and creates the files: main() and handlers
  Passphrase, Unset,       \* THERE_SSH_PASSPHRASE
  Absent, Blank,           \* a file that is not there, or holds nothing
  Operator, Refusal,       \* the line of the host's owner, the body of a 401
  MaxStarts, MaxRemovals, MaxEdits   \* how often the world does each

ASSUME NamesAssumption ==
  /\ Main \notin Agent
  /\ Unset \notin Passphrase
  /\ {Absent, Blank, Operator, Refusal} \cap Nat = {}
  /\ Absent # Blank /\ Operator # Refusal
ASSUME BoundsAssumption == {MaxStarts, MaxRemovals, MaxEdits} \subseteq Nat

File == {"key", "token"}
Caller == {Main} \cup Agent

VARIABLES
  phase,      \* "down", "starting" or "serving"
  phrase,     \* the passphrase this start has
  file,       \* the contents of the two files
  sealed,     \* one entry per value that was made: the passphrase it is under
  pending,    \* values on their way to their file
  printed,    \* the token main() printed last
  want, step, \* of each caller: the file it gets or creates, and how far it is
  agent,      \* "dead", "polling", "asking", "told", "missing" or "asleep"
  dsn,        \* the token in the address each agent was started with
  body,       \* the text of the last answer it got
  listed,     \* authorized_keys of its host
  starts, removed, edits   \* what the world has done so far

keyVars == <<file, sealed, pending>>
callVars == <<want, step>>
hostVars == <<agent, dsn, body, listed>>
vars == <<phase, phrase, printed, keyVars, callVars, hostVars, starts, removed, edits>>

Value == 1..Len(sealed)
\* A line is the pieces that were written to it.
Line == Seq(Nat \cup {Operator, Refusal})

TypeOK ==
  /\ phase \in {"down", "starting", "serving"}
  /\ phrase \in Passphrase \cup {Unset}
  /\ sealed \in Seq(Passphrase \cup {Unset})
  /\ file \in [File -> Value \cup {Absent, Blank}]
  /\ pending \subseteq [to : File, value : Value]
  /\ printed \in Value \cup {Absent, Blank}
  /\ want \in [Caller -> File]
  /\ step \in [Caller -> {"idle", "look", "read", "create", "write", "unlinked"}]
  /\ agent \in [Agent -> {"dead", "polling", "asking", "told", "missing", "asleep"}]
  /\ dsn \in [Agent -> Value \cup {Absent, Blank}]
  /\ body \in [Agent -> Value \cup {Refusal}]
  /\ listed \in [Agent -> [lines : Seq(Line), ended : BOOLEAN]]
  /\ starts \in 0..MaxStarts
  /\ removed \in [File -> 0..MaxRemovals]
  /\ edits \in 0..MaxEdits

OwnersFile(ended) == [lines |-> <<<<Operator>>>>, ended |-> ended]

Init ==
  /\ phase = "down"
  /\ phrase = Unset
  /\ file = [f \in File |-> Absent]
  /\ sealed = <<>>
  /\ pending = {}
  /\ printed = Absent
  /\ want = [p \in Caller |-> "key"]
  /\ step = [p \in Caller |-> "idle"]
  /\ agent = [a \in Agent |-> "dead"]
  /\ dsn = [a \in Agent |-> Absent]
  /\ body = [a \in Agent |-> Refusal]
  /\ listed \in [Agent -> {OwnersFile(ended) : ended \in BOOLEAN}]
  /\ starts = 0
  /\ removed = [f \in File |-> 0]
  /\ edits = 0

-----------------------------------------------------------------------------
(***************************************************************************)
(* get_or_create_executor_keypair and get_or_create_token, by any caller.  *)
(***************************************************************************)
Calls(p, f) == want' = [want EXCEPT ![p] = f] /\ step' = [step EXCEPT ![p] = "look"]
Idles(p) == step' = [step EXCEPT ![p] = "idle"] /\ UNCHANGED want

\* `?` in main() and unwrap() in the handler, whose agent gets no answer.
Fails(p) ==
  /\ Idles(p)
  /\ phase' = IF p = Main THEN "down" ELSE phase
  /\ agent' = IF p = Main THEN agent ELSE [agent EXCEPT ![p] = "dead"]
  /\ UNCHANGED <<printed, body>>

Answers(a, text) ==
  /\ Idles(a)
  /\ body' = [body EXCEPT ![a] = text]
  /\ agent' = [agent EXCEPT ![a] = "told"]
  /\ UNCHANGED <<phase, printed>>

\* main() gets the key and then the token, which it prints before it serves; the
\* handler looks at the token first, and gets the key if it is that of the request.
Gets(p, value) ==
  CASE p = Main /\ want[p] = "key" ->
         Calls(p, "token") /\ UNCHANGED <<phase, printed, agent, body>>
    [] p = Main /\ want[p] = "token" ->
         /\ Idles(p) /\ phase' = "serving" /\ printed' = value
         /\ UNCHANGED <<agent, body>>
    [] p # Main /\ want[p] = "token" /\ value = dsn[p] ->
         Calls(p, "key") /\ UNCHANGED <<phase, printed, agent, body>>
    [] p # Main /\ want[p] = "token" /\ value # dsn[p] -> Answers(p, Refusal)
    [] p # Main /\ want[p] = "key" -> Answers(p, value)

\* Mutant: a file that holds nothing is taken for one that is not there.
LookForContent(p) ==
  /\ step[p] = "look"
  /\ step' = [step EXCEPT ![p] = IF file[want[p]] \in {Absent, Blank} THEN "create" ELSE "read"]
  /\ UNCHANGED <<phase, phrase, printed, keyVars, want, hostVars, starts, removed, edits>>

\* path.exists().
Look(p) ==
  /\ step[p] = "look"
  /\ step' = [step EXCEPT ![p] = IF file[want[p]] = Absent THEN "create" ELSE "read"]
  /\ UNCHANGED <<phase, phrase, printed, keyVars, want, hostVars, starts, removed, edits>>

\* Mutant: the handler gives out what is in the file.
DecodesAnything(f) == file[f] # Absent

\* A key must decode, with the passphrase of this start; any token will do.
Decodes(f) ==
  CASE f = "key" -> file[f] \in Value /\ phrase # Unset /\ sealed[file[f]] = phrase
    [] f = "token" -> file[f] # Absent

Read(p) ==
  /\ step[p] = "read"
  /\ IF Decodes(want[p]) THEN Gets(p, file[want[p]]) ELSE Fails(p)
  /\ UNCHANGED <<phrase, keyVars, dsn, listed, starts, removed, edits>>

\* File::create empties a file that has come to be there.
Create(p) ==
  /\ step[p] = "create"
  /\ file' = [file EXCEPT ![want[p]] = Blank]
  /\ step' = [step EXCEPT ![p] = "write"]
  /\ UNCHANGED <<phase, phrase, printed, sealed, pending, want, hostVars, starts, removed, edits>>

\* The passphrase is asked for when the file is there already.
Write(p) ==
  /\ step[p] \in {"write", "unlinked"}
  /\ IF want[p] = "key" /\ phrase = Unset
     THEN Fails(p) /\ UNCHANGED <<sealed, pending>>
     ELSE /\ sealed' = Append(sealed, phrase)
          /\ pending' = IF step[p] = "write"
                        THEN pending \cup {[to |-> want[p], value |-> Len(sealed')]}
                        ELSE pending
          /\ Gets(p, Len(sealed'))
  /\ UNCHANGED <<phrase, file, dsn, listed, starts, removed, edits>>

\* A write comes to its file, or fails.
Land(w) ==
  /\ w \in pending
  /\ pending' = pending \ {w}
  /\ file' \in {file, [file EXCEPT ![w.to] = w.value]}
  /\ UNCHANGED <<phase, phrase, printed, sealed, callVars, hostVars, starts, removed, edits>>

-----------------------------------------------------------------------------
(***************************************************************************)
(* The controller as a process.                                            *)
(***************************************************************************)
Start ==
  /\ phase = "down" /\ pending = {} /\ starts < MaxStarts
  /\ starts' = starts + 1
  /\ phase' = "starting"
  /\ phrase' \in Passphrase \cup {Unset}
  /\ Calls(Main, "key")
  /\ UNCHANGED <<printed, keyVars, hostVars, removed, edits>>

\* The connections of the requests under way are lost with it.
Crash ==
  /\ phase # "down"
  /\ phase' = "down"
  /\ pending' = {}
  /\ step' = [p \in Caller |-> "idle"]
  /\ agent' = [a \in Agent |-> IF agent[a] = "asking" THEN "dead" ELSE agent[a]]
  /\ UNCHANGED <<phrase, printed, file, sealed, want, dsn, body, listed, starts, removed, edits>>

\* The operator removes a file; what is still written to it is lost.
Remove(f) ==
  /\ file[f] # Absent /\ removed[f] < MaxRemovals
  /\ removed' = [removed EXCEPT ![f] = @ + 1]
  /\ file' = [file EXCEPT ![f] = Absent]
  /\ pending' = {w \in pending : w.to # f}
  /\ step' = [p \in Caller |-> IF step[p] = "write" /\ want[p] = f THEN "unlinked" ELSE step[p]]
  /\ UNCHANGED <<phase, phrase, printed, sealed, want, hostVars, starts, edits>>

-----------------------------------------------------------------------------
(***************************************************************************)
(* The agent.                                                              *)
(***************************************************************************)
\* The operator gives it the address that main() printed.
StartAgent(a) ==
  /\ agent[a] = "dead" /\ printed # Absent
  /\ agent' = [agent EXCEPT ![a] = "polling"]
  /\ dsn' = [dsn EXCEPT ![a] = printed]
  /\ UNCHANGED <<phase, phrase, printed, keyVars, callVars, body, listed, starts, removed, edits>>

\* reqwest::blocking::get.
Ask(a) ==
  /\ agent[a] = "polling"
  /\ IF phase = "serving"
     THEN agent' = [agent EXCEPT ![a] = "asking"] /\ Calls(a, "token")
     ELSE agent' = [agent EXCEPT ![a] = "dead"] /\ UNCHANGED callVars
  /\ UNCHANGED <<phase, phrase, printed, keyVars, dsn, body, listed, starts, removed, edits>>

\* Mutant: only the last line is compared.
HasLineLast(a) ==
  LET lines == listed[a].lines IN lines[Len(lines)] = <<body[a]>>

\* Mutant: the file is searched for the text of the key.
HasText(a) ==
  \E i \in DOMAIN listed[a].lines :
    \E n \in DOMAIN listed[a].lines[i] : listed[a].lines[i][n] = body[a]

\* lines().find(|line| line == &controller_key), whatever the answer was.
HasLine(a) == \E i \in DOMAIN listed[a].lines : listed[a].lines[i] = <<body[a]>>

ReadKeys(a) ==
  /\ agent[a] = "told"
  /\ agent' = [agent EXCEPT ![a] = IF HasLine(a) THEN "asleep" ELSE "missing"]
  /\ UNCHANGED <<phase, phrase, printed, keyVars, callVars, dsn, body, listed, starts, removed, edits>>

\* The line that writeln! makes begins where the file ends.
Appended(a) ==
  LET lines == listed[a].lines
  IN IF listed[a].ended THEN Append(lines, <<body[a]>>)
     ELSE [lines EXCEPT ![Len(lines)] = Append(@, body[a])]

AddKey(a) ==
  /\ agent[a] = "missing"
  /\ agent' = [agent EXCEPT ![a] = "asleep"]
  /\ listed' = [listed EXCEPT ![a] = [lines |-> Appended(a), ended |-> TRUE]]
  /\ UNCHANGED <<phase, phrase, printed, keyVars, callVars, dsn, body, starts, removed, edits>>

Wake(a) ==
  /\ agent[a] = "asleep"
  /\ agent' = [agent EXCEPT ![a] = "polling"]
  /\ UNCHANGED <<phase, phrase, printed, keyVars, callVars, dsn, body, listed, starts, removed, edits>>

\* The owner of the host saves the file anew, with or without a last newline.
Edit(a) ==
  /\ edits < MaxEdits
  /\ edits' = edits + 1
  /\ \E ended \in BOOLEAN : listed' = [listed EXCEPT ![a] = OwnersFile(ended)]
  /\ UNCHANGED <<phase, phrase, printed, keyVars, callVars, agent, dsn, body, starts, removed>>

-----------------------------------------------------------------------------
GetOrCreate(p) == Look(p) \/ Read(p) \/ Create(p) \/ Write(p)
Poll(a) == Ask(a) \/ ReadKeys(a) \/ AddKey(a) \/ Wake(a)

Next ==
  \/ \E p \in Caller : GetOrCreate(p)
  \/ \E w \in pending : Land(w)
  \/ Start \/ Crash
  \/ \E f \in File : Remove(f)
  \/ \E a \in Agent : StartAgent(a) \/ Poll(a) \/ Edit(a)

Spec == Init /\ [][Next]_vars

\* What runs goes on.  Nobody has to start anything.
FairSpec ==
  /\ Spec
  /\ \A p \in Caller : WF_vars(GetOrCreate(p))
  /\ \A a \in Agent : WF_vars(Poll(a))
  /\ WF_vars(\E w \in pending : Land(w))

-----------------------------------------------------------------------------
(***************************************************************************)
(* Safety.                                                                 *)
(***************************************************************************)
KeysOf(a) ==
  {v \in Value : \E i \in DOMAIN listed[a].lines : \E n \in DOMAIN listed[a].lines[i] :
     listed[a].lines[i][n] = v}

\* As long as nobody removes the key file, every key that a host was told of, or
\* lists, is the one in the file: whatever crashes, restarts and requests race
\* with its creation, no host trusts a key the controller has lost.
OneKey ==
  removed["key"] = 0 =>
    \A a \in Agent :
      /\ KeysOf(a) \subseteq {file["key"]}
      /\ body[a] \in {Refusal, file["key"]}

\* As long as nobody removes the token file, a controller that serves knows the
\* token it printed: a request finds that token in the file, or nothing yet.
PrintedTokenHolds ==
  phase = "serving" /\ removed["token"] = 0 => file["token"] \in {Blank, printed}

\* However often it polls, restarts and is told the same, an agent lists a line once.
ListedOnce ==
  \A a \in Agent : \A i, n \in DOMAIN listed[a].lines :
    listed[a].lines[i] = listed[a].lines[n] => i = n

-----------------------------------------------------------------------------
(***************************************************************************)
(* Over time.                                                              *)
(***************************************************************************)
KeyLost == phase = "down" /\ pending = {} /\ file["key"] = Blank

\* A start that ended between the creation of the key file and its writing, by a
\* crash or for want of a passphrase, is final: no later start serves until the
\* operator removes the file.
LostKeyIsFinal ==
  \A n \in 0..MaxRemovals :
    [](KeyLost /\ removed["key"] = n => [](phase # "serving" \/ removed["key"] # n))

Healthy(a) ==
  /\ phase = "serving" /\ Decodes("key")
  /\ file["token"] = dsn[a] /\ agent[a] # "dead"

\* Once the controller serves for good and the agent knows its token, the key
\* comes to be, and stays, a line of its own in authorized_keys, even where a
\* first attempt was joined to the owner's line or the owner saved the file.
AuthorizedEventually ==
  \A a \in Agent :
    <>[]Healthy(a) => <>[](\E i \in DOMAIN listed[a].lines : listed[a].lines[i] = <<file["key"]>>)
=============================================================================
