------------------------------ MODULE SshAgent ------------------------------
(***************************************************************************)
(* `cry ssh` on Unix (src/ssh.rs): every session derives its key, starts   *)
(* an ssh-agent of its own, hands it the key through `ssh-add -`, runs ssh *)
(* and kills the agent when TempAgent is dropped.  ssh-agent, ssh-add and  *)
(* ssh are external; the user has an agent of his own, whose pid every     *)
(* process inherits in SSH_AGENT_PID.                                      *)
(***************************************************************************)
EXTENDS Naturals, FiniteSets

CONSTANTS
    Session,        \* runs of cry ssh; s also names the agent s starts
    UserAgent,      \* the user's own agent
    AgentOutput     \* what extract_var finds in the output of ssh-agent -s

\* Socket and pid, the socket alone, or nothing.
ASSUME AgentAssumption ==
    /\ UserAgent \notin Session
    /\ AgentOutput \subseteq {"both", "sock", "none"}

VARIABLES
    pc,
    alive,          \* the running agents
    holds,          \* those that hold a key of cry
    parsed,         \* what each session knows of its agent
    err             \* the session is on an error path

vars == <<pc, alive, holds, parsed, err>>

Final == {"done", "failed", "stranded", "killed"}

Init ==
    /\ pc = [s \in Session |-> "derive"]
    /\ alive = {UserAgent}
    /\ holds = {}
    /\ parsed = [s \in Session |-> "none"]
    /\ err = [s \in Session |-> FALSE]

Goto(s, l) == pc' = [pc EXCEPT ![s] = l]

-----------------------------------------------------------------------------

\* Identity::derive and encode_openssh_private_key, which may both fail.
Derive(s) ==
    /\ pc[s] = "derive"
    /\ Goto(s, "spawn") \/ Goto(s, "failed")
    /\ UNCHANGED <<alive, holds, parsed, err>>

\* Mutant of Spawn: a missing socket is not an error.
SpawnUnparsed(s) ==
    /\ pc[s] = "spawn"
    /\ alive' = alive \cup {s}
    /\ \E o \in AgentOutput : parsed' = [parsed EXCEPT ![s] = o]
    /\ Goto(s, "add")
    /\ UNCHANGED <<holds, err>>

\* TempAgent::spawn: the agent runs.  Without a socket in its output there is
\* no TempAgent, and the error is returned with the agent left running.
Spawn(s) ==
    /\ pc[s] = "spawn"
    /\ alive' = alive \cup {s}
    /\ \E o \in AgentOutput :
          /\ parsed' = [parsed EXCEPT ![s] = o]
          /\ Goto(s, IF o = "none" THEN "failed" ELSE "add")
    /\ UNCHANGED <<holds, err>>

\* ssh-agent cannot be executed, or it exits with an error.
SpawnFails(s) ==
    /\ pc[s] = "spawn"
    /\ Goto(s, "failed")
    /\ UNCHANGED <<alive, holds, parsed, err>>

\* add_private_key: the key goes down the pipe, ssh-add reports success.
AddKey(s) ==
    /\ pc[s] = "add"
    /\ s \in alive
    /\ holds' = holds \cup {s}
    /\ Goto(s, "exec")
    /\ UNCHANGED <<alive, parsed, err>>

\* Mutants of AddFails: the agent is not dropped; the error is ignored.
AddFailsForgetsAgent(s) ==
    /\ pc[s] = "add"
    /\ Goto(s, "failed")
    /\ UNCHANGED <<alive, holds, parsed, err>>

AddFailsIgnored(s) ==
    /\ pc[s] = "add"
    /\ Goto(s, "exec")
    /\ UNCHANGED <<alive, holds, parsed, err>>

\* ssh-add cannot be executed, closes its pipe, or exits with an error; by then
\* the agent may have the key.
AddFails(s) ==
    /\ pc[s] = "add"
    /\ holds' \in {holds, holds \cup {s}}
    /\ err' = [err EXCEPT ![s] = TRUE]
    /\ Goto(s, "drop")
    /\ UNCHANGED <<alive, parsed>>

\* ssh starts, with SSH_AUTH_SOCK and IdentityAgent naming the agent.
Exec(s) ==
    /\ pc[s] = "exec"
    /\ Goto(s, "ssh")
    /\ UNCHANGED <<alive, holds, parsed, err>>

ExecFails(s) ==
    /\ pc[s] = "exec"
    /\ err' = [err EXCEPT ![s] = TRUE]
    /\ Goto(s, "drop")
    /\ UNCHANGED <<alive, holds, parsed>>

\* ssh exits; whatever its status, run_ssh_unix returns Ok.
SshExits(s) ==
    /\ pc[s] = "ssh"
    /\ Goto(s, "drop")
    /\ UNCHANGED <<alive, holds, parsed, err>>

\* Mutant of KilledBy: SSH_AGENT_PID is not set for ssh-agent -k.
KilledByInherited(s) == UserAgent

\* The agent that ssh-agent -k kills is the one SSH_AGENT_PID names: the
\* session's own if its pid was parsed, else the inherited one.
KilledBy(s) == IF parsed[s] = "both" THEN s ELSE UserAgent

\* Drop for TempAgent, then the return from run_ssh_unix.
Drop(s) ==
    /\ pc[s] = "drop"
    /\ alive' = alive \ {KilledBy(s)}
    /\ holds' = holds \ {KilledBy(s)}
    /\ Goto(s, IF err[s] THEN "failed" ELSE "done")
    /\ UNCHANGED <<parsed, err>>

\* ssh-agent -k fails, and its error is ignored.
DropFails(s) ==
    /\ pc[s] = "drop"
    /\ Goto(s, "stranded")
    /\ UNCHANGED <<alive, holds, parsed, err>>

\* A signal ends the session: no destructor runs.
Killed(s) ==
    /\ pc[s] \notin Final
    /\ Goto(s, "killed")
    /\ UNCHANGED <<alive, holds, parsed, err>>

Terminating == (\A s \in Session : pc[s] \in Final) /\ UNCHANGED vars

Step(s) ==
    \/ Derive(s) \/ Spawn(s) \/ SpawnFails(s) \/ AddKey(s) \/ AddFails(s)
    \/ Exec(s) \/ ExecFails(s) \/ SshExits(s) \/ Drop(s) \/ DropFails(s)

Next == (\E s \in Session : Step(s) \/ Killed(s)) \/ Terminating

Spec == Init /\ [][Next]_vars
-----------------------------------------------------------------------------
(* Properties.                                                              *)

\* Types; and a session that goes on after spawn() has a TempAgent, that is,
\* the socket of an agent.
TypeOK ==
    /\ pc \in [Session -> {"derive", "spawn", "add", "exec", "ssh", "drop"} \cup Final]
    /\ alive \subseteq Session \cup {UserAgent}
    /\ holds \subseteq alive
    /\ parsed \in [Session -> {"both", "sock", "none"}]
    /\ err \in [Session -> BOOLEAN]
    /\ \A s \in Session : pc[s] \in {"add", "exec", "ssh", "drop"} => parsed[s] # "none"

\* A session that returns, with a result or from any of its error paths, leaves
\* no agent with its key behind, provided the agent printed its pid; if it
\* printed nothing, an agent is left but has no key.
AgentGoneOnReturn ==
    \A s \in Session : pc[s] \in {"done", "failed"} =>
        /\ parsed[s] = "none" => s \notin holds
        /\ parsed[s] = "both" => s \notin alive

\* "Your existing SSH agent (if any) is completely unaffected" (README, How
\* cry ssh works), through every failure and end of any session, as long as
\* ssh-agent prints its pid.
UserAgentUnaffected ==
    (\A s \in Session : parsed[s] # "sock") => UserAgent \in alive \ holds

\* While ssh runs its agent is alive and has the key: no failure of ssh-add, or
\* of anything before it, leads on to ssh.
SshHasKey ==
    \A s \in Session : pc[s] \in {"exec", "ssh"} => s \in alive \cap holds

\* "The agent only lives for the SSH session and is killed on exit" (README,
\* Security properties that hold): however a session ended, by a return or by
\* a signal, its agent is gone.
AgentOnlyLivesForSession ==
    \A s \in Session : pc[s] \in {"done", "failed", "killed"} =>
        (parsed[s] = "both" => s \notin alive)
=============================================================================
