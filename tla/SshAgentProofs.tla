--------------------------- MODULE SshAgentProofs ---------------------------
(***************************************************************************)
(* Theorems of SshAgent, for any number of concurrent sessions.            *)
(***************************************************************************)
EXTENDS SshAgent, TLAPS

\* Before its spawn() a session has no agent; it has the key only afterwards, and
\* an agent that printed its pid lives until the session drops it.
AgentOf(s) ==
    /\ pc[s] \in {"derive", "spawn"} => s \notin alive /\ parsed[s] = "none"
    /\ pc[s] \in {"add", "exec", "ssh", "drop"} => s \in alive
    /\ pc[s] \in {"exec", "ssh"} => s \in holds
    /\ parsed[s] = "none" => s \notin holds
    /\ pc[s] \in {"done", "failed"} /\ parsed[s] = "both" => s \notin alive

\* Nobody gives the user's agent a key, and it ends only through a session that
\* does not know the pid of its own agent.
UserAgentKept ==
    /\ UserAgent \notin holds
    /\ UserAgent \notin alive => \E s \in Session : parsed[s] = "sock"

IInv == TypeOK /\ UserAgentKept /\ \A s \in Session : AgentOf(s)

LEMMA InitIInv == Init => IInv
  BY AgentAssumption
  DEF Init, IInv, TypeOK, UserAgentKept, AgentOf, Final

LEMMA NextIInv == IInv /\ [Next]_vars => IInv'
  <1> SUFFICES ASSUME IInv, [Next]_vars PROVE IInv'
    OBVIOUS
  <1> USE DEF IInv
  <1>1. ASSUME NEW s \in Session, Derive(s) PROVE IInv'
    <2>1. TypeOK'
      BY <1>1 DEF TypeOK, Derive, Goto, Final
    <2>2. UserAgentKept'
      BY <1>1, AgentAssumption DEF TypeOK, UserAgentKept, AgentOf, Derive, Goto, Final
    <2>3. \A q \in Session : AgentOf(q)'
      BY <1>1, AgentAssumption DEF TypeOK, AgentOf, Derive, Goto, Final
    <2> QED
      BY <2>1, <2>2, <2>3
  <1>2. ASSUME NEW s \in Session, Spawn(s) PROVE IInv'
    <2>1. TypeOK'
      BY <1>2, AgentAssumption DEF TypeOK, Spawn, Goto, Final
    <2>2. UserAgentKept'
      BY <1>2, AgentAssumption DEF TypeOK, UserAgentKept, AgentOf, Spawn, Goto, Final
    <2>3. \A q \in Session : AgentOf(q)'
      BY <1>2, AgentAssumption DEF TypeOK, AgentOf, Spawn, Goto, Final
    <2> QED
      BY <2>1, <2>2, <2>3
  <1>3. ASSUME NEW s \in Session, AddKey(s) PROVE IInv'
    <2>1. TypeOK'
      BY <1>3 DEF TypeOK, AddKey, Goto
    <2>2. UserAgentKept'
      BY <1>3, AgentAssumption DEF TypeOK, UserAgentKept, AgentOf, AddKey, Goto
    <2>3. \A q \in Session : AgentOf(q)'
      BY <1>3, AgentAssumption DEF TypeOK, AgentOf, AddKey, Goto
    <2> QED
      BY <2>1, <2>2, <2>3
  <1>4. ASSUME NEW s \in Session, AddFails(s) PROVE IInv'
    <2>1. TypeOK'
      BY <1>4 DEF TypeOK, AgentOf, AddFails, Goto
    <2>2. UserAgentKept'
      BY <1>4, AgentAssumption DEF TypeOK, UserAgentKept, AgentOf, AddFails, Goto
    <2>3. \A q \in Session : AgentOf(q)'
      BY <1>4, AgentAssumption DEF TypeOK, AgentOf, AddFails, Goto
    <2> QED
      BY <2>1, <2>2, <2>3
  <1>5. ASSUME NEW s \in Session, SpawnFails(s) \/ DropFails(s) PROVE IInv'
    <2>1. TypeOK'
      BY <1>5 DEF TypeOK, SpawnFails, DropFails, Goto, Final
    <2>2. UserAgentKept'
      BY <1>5, AgentAssumption DEF TypeOK, UserAgentKept, AgentOf, SpawnFails, DropFails, Goto, Final
    <2>3. \A q \in Session : AgentOf(q)'
      BY <1>5, AgentAssumption DEF TypeOK, AgentOf, SpawnFails, DropFails, Goto, Final
    <2> QED
      BY <2>1, <2>2, <2>3
  <1>6. ASSUME NEW s \in Session, Exec(s) \/ ExecFails(s) \/ SshExits(s) PROVE IInv'
    <2>1. TypeOK'
      BY <1>6 DEF TypeOK, Exec, ExecFails, SshExits, Goto
    <2>2. UserAgentKept'
      BY <1>6, AgentAssumption DEF TypeOK, UserAgentKept, AgentOf, Exec, ExecFails, SshExits, Goto
    <2>3. \A q \in Session : AgentOf(q)'
      BY <1>6, AgentAssumption DEF TypeOK, AgentOf, Exec, ExecFails, SshExits, Goto
    <2> QED
      BY <2>1, <2>2, <2>3
  <1>7. ASSUME NEW s \in Session, Drop(s) PROVE IInv'
    <2>1. TypeOK'
      BY <1>7 DEF TypeOK, Drop, KilledBy, Goto, Final
    <2>2. UserAgentKept'
      BY <1>7, AgentAssumption DEF TypeOK, UserAgentKept, AgentOf, Drop, KilledBy, Goto, Final
    <2>3. \A q \in Session : AgentOf(q)'
      BY <1>7, AgentAssumption DEF TypeOK, AgentOf, Drop, KilledBy, Goto, Final
    <2> QED
      BY <2>1, <2>2, <2>3
  <1>8. ASSUME NEW s \in Session, Killed(s) PROVE IInv'
    <2>1. TypeOK'
      BY <1>8 DEF TypeOK, Killed, Goto, Final
    <2>2. UserAgentKept'
      BY <1>8, AgentAssumption DEF TypeOK, UserAgentKept, AgentOf, Killed, Goto, Final
    <2>3. \A q \in Session : AgentOf(q)'
      BY <1>8, AgentAssumption DEF TypeOK, AgentOf, Killed, Goto, Final
    <2> QED
      BY <2>1, <2>2, <2>3
  <1>9. CASE UNCHANGED vars
    BY <1>9 DEF vars, TypeOK, UserAgentKept, AgentOf
  <1> QED
    BY <1>1, <1>2, <1>3, <1>4, <1>5, <1>6, <1>7, <1>8, <1>9 DEF Next, Step, Terminating

LEMMA Invariance == Spec => []IInv
  BY InitIInv, NextIInv, PTL DEF Spec

-----------------------------------------------------------------------------
\* Types; a session that goes on after spawn() knows the socket of its agent.
THEOREM SessionTypes == Spec => []TypeOK
  <1>1. IInv => TypeOK
    BY DEF IInv
  <1> QED
    BY <1>1, Invariance, PTL

\* A session that returns leaves no agent with its key behind, over all error
\* paths of run_ssh_unix and whatever other sessions do, if ssh-agent printed its
\* pid.
THEOREM NoAgentLeft == Spec => []AgentGoneOnReturn
  <1>1. IInv => AgentGoneOnReturn
    BY DEF IInv, AgentOf, AgentGoneOnReturn
  <1> QED
    BY <1>1, Invariance, PTL

\* No session ends the user's agent or hands it a key, unless some ssh-agent did
\* not print its pid.
THEOREM UserAgentSafe == Spec => []UserAgentUnaffected
  <1>1. IInv => UserAgentUnaffected
    BY DEF IInv, UserAgentKept, UserAgentUnaffected
  <1> QED
    BY <1>1, Invariance, PTL

\* ssh runs with its agent alive and the key in it: no drop of another session
\* takes it away.
THEOREM SshIsServed == Spec => []SshHasKey
  <1>1. IInv => SshHasKey
    BY DEF IInv, AgentOf, SshHasKey
  <1> QED
    BY <1>1, Invariance, PTL
=============================================================================
