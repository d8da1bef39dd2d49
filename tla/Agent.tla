-------------------------------- MODULE Agent --------------------------------
(***************************************************************************)
(* The agent (src/agent/udping_agent): it polls the controller for the     *)
(* pings its host should send, keeps a child process for each of them and  *)
(* for the server of each udping mesh, kills those no longer wanted or     *)
(* whose settings have changed, and starts again those that have ended.    *)
(* SIGINT, delivered to the agent once, may interrupt it anywhere.         *)
(*                                                                         *)
(* A child is a fork of the agent that runs its commands one after the     *)
(* other: a udping client looks up its next hop first.  The entries of a   *)
(* dictionary are visited in any order here.                               *)
(***************************************************************************)
EXTENDS Integers, Sequences, FiniteSetsExt
LOCAL INSTANCE SequencesExt

CONSTANTS
  Lists,      \* the answers of the controller, sequences of entries
  Pid,        \* process ids
  Nil         \* no process, no child, no signature

VARIABLES
  served,     \* what the controller answers at present
  targetList, \* the answer the agent works with
  children,   \* signature -> pid and setting of its child
  pc,         \* where the agent is
  todo,       \* the signatures a loop has yet to visit
  cur,        \* the signature a function is called with
  caller,     \* the function that killChild, or a del, returns to
  forked,     \* the process just forked
  orphans,    \* checkForOrphans has found one
  interrupt,  \* where SIGINT found the agent, Nil if it has not come
  procs       \* the processes forked and not waited for

control == <<cur, caller, forked>>
world == <<served, interrupt>>
vars == <<world, targetList, children, pc, todo, control, orphans, procs>>

----------------------------------------------------------------------------
(* What is wanted.                                                         *)

Signature(e) == <<e.mechanism, e.mesh, e.peer, e.ip>>
ServerSignature(e) == <<"udping_server", e.mesh>>

\* What an entry asks for: signatures, each with what is not part of it.
Wanted(e) ==
  {<<Signature(e), e.delay>>}
    \cup (IF e.mechanism = "udping" THEN {<<ServerSignature(e), e.ip>>} ELSE {})

Signatures == {w[1] : w \in UNION {Wanted(e) : e \in UNION {ToSet(l) : l \in Lists}}}

\* The dictionary synchronize makes of a list: an entry replaces an earlier one.
TargetChildren(list) ==
  LET at(s) == {k \in DOMAIN list : \E w \in Wanted(list[k]) : w[1] = s}
      asked == {s \in Signatures : at(s) # {}}
  IN  [s \in asked |-> (CHOOSE w \in Wanted(list[Max(at(s))]) : w[1] = s)[2]]

Target == TargetChildren(targetList)

\* The mechanisms synchronize knows.
Known(s) == s[1] \in {"ping", "udping", "udping_server"}

\* An entry of the table, and a process that was forked and not waited for.
Settings == UNION {{TargetChildren(l)[s] : s \in DOMAIN TargetChildren(l)} :
                     l \in Lists \cup {<<>>}}
Entries == [pid : Pid, setting : Settings]
Processes == [sig : Signatures, state : {"between", "command", "zombie"}]

\* Where SIGINT may find the agent.
Points ==
  {"update", "keepalive", "orphans", "sleep", "sync", "enter", "kill", "wait", "del"}

ASSUME NilAssumption ==
  /\ Nil \notin Pid
  /\ Nil \notin Entries
  /\ Nil \notin Processes
  /\ Nil \notin Points

Running == {s \in Signatures : children[s] # Nil}

Alive(p) == procs[p] # Nil /\ procs[p].state # "zombie"

Init ==
  /\ served \in Lists /\ targetList = <<>>
  /\ children = [s \in Signatures |-> Nil]
  /\ pc = "update"
  /\ todo = {} /\ cur = Nil /\ caller = Nil /\ forked = Nil
  /\ orphans = FALSE /\ interrupt = Nil
  /\ procs = [p \in Pid |-> Nil]

----------------------------------------------------------------------------
(* The main loop.                                                          *)

\* A plausible bug: update gives back the list it was given.
UpdateIgnored ==
  /\ pc = "update"
  /\ pc' = "sync" /\ todo' = DOMAIN Target
  /\ UNCHANGED <<world, targetList, children, control, orphans, procs>>

\* update: the controller's answer, or the list the agent has if there is none.  An
\* answer that is no JSON, or not of the fields synchronize reads first of all, is
\* an error that nobody catches.
Update ==
  /\ pc = "update"
  /\ \/ /\ targetList' \in {served, targetList}
        /\ pc' = "sync" /\ todo' = DOMAIN TargetChildren(targetList')
     \/ pc' = "crashed" /\ UNCHANGED <<targetList, todo>>
  /\ UNCHANGED <<world, children, control, orphans, procs>>

\* keepalive, called or not, then checkForOrphans.
Keepalive ==
  /\ pc = "keepalive"
  /\ pc' = "orphans" /\ todo' = Running
  /\ UNCHANGED <<world, targetList, children, control, orphans, procs>>

\* checkForOrphans visits s: if its process has ended, it is waited for.
Reap(s) ==
  /\ pc = "orphans" /\ s \in todo
  /\ todo' = todo \ {s}
  /\ \/ Alive(children[s].pid) /\ UNCHANGED <<pc, control, orphans, procs>>
     \/ /\ ~ Alive(children[s].pid)
        /\ procs' = [procs EXCEPT ![children[s].pid] = Nil]
        /\ pc' = "del" /\ cur' = s /\ caller' = "orphans"
        /\ orphans' = TRUE
        /\ UNCHANGED forked
  /\ UNCHANGED <<world, targetList, children>>

OrphansDone ==
  /\ pc = "orphans" /\ todo = {}
  /\ IF orphans THEN pc' = "sync" /\ todo' = DOMAIN Target ELSE pc' = "sleep" /\ todo' = {}
  /\ UNCHANGED <<world, targetList, children, control, orphans, procs>>

\* The agent polls if it wakes up in a second that is a multiple of ten.
Sleep ==
  /\ pc = "sleep"
  /\ pc' \in {"update", "keepalive"}
  /\ UNCHANGED <<world, targetList, children, todo, control, orphans, procs>>

----------------------------------------------------------------------------
(* synchronize and what it calls.                                          *)

\* A plausible bug: a child whose setting has changed is left alone.
KeepAnyway(s) ==
  /\ pc = "sync" /\ s \in todo
  /\ s \in Running \/ ~ Known(s)
  /\ todo' = todo \ {s}
  /\ UNCHANGED <<world, targetList, children, pc, control, orphans, procs>>

\* The child of s has the setting wanted, or nothing knows how to run s.
Keep(s) ==
  /\ pc = "sync" /\ s \in todo
  /\ IF s \in Running THEN children[s].setting = Target[s] ELSE ~ Known(s)
  /\ todo' = todo \ {s}
  /\ UNCHANGED <<world, targetList, children, pc, control, orphans, procs>>

\* Its setting has changed or, when all targets have been visited, it is no longer
\* wanted.
Outdated(s) ==
  IF s \in todo THEN children[s].setting # Target[s]
  ELSE todo = {} /\ s \notin DOMAIN Target

Replace(s) ==
  /\ pc = "sync" /\ s \in Running
  /\ Outdated(s)
  /\ pc' = "kill" /\ cur' = s /\ caller' = "sync"
  /\ UNCHANGED <<world, targetList, children, todo, forked, orphans, procs>>

\* launchPing, launchUDPingClient, launchUDPingServer: the fork, then the entry.
Launch(s) ==
  /\ pc = "sync" /\ s \in todo \ Running /\ Known(s)
  /\ \E p \in Pid :
       /\ procs[p] = Nil
       /\ procs' = [procs EXCEPT ![p] = [sig |-> s, state |-> "between"]]
       /\ forked' = p
  /\ pc' = "enter" /\ cur' = s
  /\ UNCHANGED <<world, targetList, children, todo, caller, orphans>>

Enter ==
  /\ pc = "enter"
  /\ children' = [children EXCEPT ![cur] = [pid |-> forked, setting |-> Target[cur]]]
  /\ pc' = "sync" /\ todo' = todo \ {cur}
  /\ cur' = Nil /\ forked' = Nil
  /\ UNCHANGED <<world, targetList, caller, orphans, procs>>

SyncDone ==
  /\ pc = "sync" /\ todo = {} /\ Running \subseteq DOMAIN Target
  /\ pc' = IF orphans THEN "sleep" ELSE "keepalive"
  /\ orphans' = FALSE
  /\ UNCHANGED <<world, targetList, children, todo, control, procs>>

\* killChild: the commands that ps shows below the child are killed, and without
\* them it ends.  A child between two commands has none to show.
Kill ==
  /\ pc = "kill"
  /\ LET p == children[cur].pid
         shown == procs[p] # Nil /\ procs[p].state = "command"
     IN  procs' = IF shown THEN [procs EXCEPT ![p].state = "zombie"] ELSE procs
  /\ pc' = "wait"
  /\ UNCHANGED <<world, targetList, children, todo, control, orphans>>

\* waitpid: of a process waited for before, it is an error that nobody catches.
Wait ==
  /\ pc = "wait"
  /\ LET p == children[cur].pid
     IN  /\ ~ Alive(p)
         /\ pc' = IF procs[p] = Nil THEN "failed" ELSE "del"
         /\ procs' = [procs EXCEPT ![p] = Nil]
  /\ UNCHANGED <<world, targetList, children, todo, control, orphans>>

\* A plausible bug: the entry of a child that was waited for is kept.
DelForgotten ==
  /\ pc = "del"
  /\ pc' = caller /\ cur' = Nil /\ caller' = Nil
  /\ UNCHANGED <<world, targetList, children, todo, forked, orphans, procs>>

Del ==
  /\ pc = "del"
  /\ children' = [children EXCEPT ![cur] = Nil]
  /\ pc' = caller /\ cur' = Nil /\ caller' = Nil
  /\ UNCHANGED <<world, targetList, todo, forked, orphans, procs>>

----------------------------------------------------------------------------
(* SIGINT, the children and the controller.                                *)

\* SIGINT has ended the agent.
Ended == pc \in {"ended", "failed"}

Interrupt ==
  /\ interrupt = Nil /\ pc \in Points
  /\ interrupt' = pc
  /\ pc' = "shutdown"
  /\ todo' = {} /\ cur' = Nil /\ caller' = Nil /\ orphans' = FALSE
  /\ UNCHANGED <<served, targetList, children, forked, procs>>

\* shutdown kills every child of the table.
Shutdown(s) ==
  /\ pc = "shutdown" /\ s \in Running
  /\ pc' = "kill" /\ cur' = s /\ caller' = "shutdown"
  /\ UNCHANGED <<world, targetList, children, todo, forked, orphans, procs>>

\* Where sys.exit leads, raised as an exception where SIGINT came: out of the
\* program, unless a bare except catches it, around a request (the agent goes on,
\* without children; before or after the request it does not) or around a kill (of a
\* child whose entry is gone: an error).
AfterExit ==
  CASE interrupt = "update" -> {"sync", "ended"}
    [] interrupt = "keepalive" -> {"orphans", "ended"}
    [] interrupt = "kill" -> {"ended", "failed"}
    [] OTHER -> {"ended"}

\* A plausible bug: the exit is in the loop, after the first child.
ExitInLoop ==
  /\ pc = "shutdown"
  /\ pc' \in AfterExit
  /\ todo' = IF pc' = "sync" THEN DOMAIN Target ELSE {}
  /\ UNCHANGED <<world, targetList, children, control, orphans, procs>>

Exit ==
  /\ pc = "shutdown" /\ Running = {}
  /\ pc' \in AfterExit
  /\ todo' = IF pc' = "sync" THEN DOMAIN Target ELSE {}
  /\ UNCHANGED <<world, targetList, children, control, orphans, procs>>

\* A child starts a command, goes from one to another if it is a udping client
\* looking up its next hop, or ends, whatever it was at.
Child(p) ==
  /\ Alive(p)
  /\ \E state \in {"between", "command", "zombie"} :
       /\ state = "between" => procs[p].sig[1] = "udping"
       /\ procs' = [procs EXCEPT ![p].state = state]
  /\ UNCHANGED <<world, targetList, children, pc, todo, control, orphans>>

\* A user of the controller changes the meshes.
Change ==
  /\ served' \in Lists
  /\ UNCHANGED <<interrupt, targetList, children, pc, todo, control, orphans, procs>>

AgentStep ==
  \/ Update \/ Keepalive \/ OrphansDone \/ Sleep
  \/ Enter \/ SyncDone \/ Kill \/ Wait \/ Del \/ Exit
  \/ \E s \in Signatures : Reap(s) \/ Keep(s) \/ Replace(s) \/ Launch(s) \/ Shutdown(s)

Next == AgentStep \/ Interrupt \/ (\E p \in Pid : Child(p)) \/ Change

\* The agent runs; its sleeps do not miss the multiples of ten for ever, nor does
\* the controller stay down.
Fairness ==
  /\ WF_vars(AgentStep)
  /\ SF_vars(Sleep /\ pc' = "update")
  /\ SF_vars(Update /\ targetList' = served)

Spec == Init /\ [][Next]_vars /\ Fairness

----------------------------------------------------------------------------
(* Properties.                                                             *)

\* The table and the processes agree: each entry has a process of its own, run
\* for its signature and not waited for yet, and no process is without an entry,
\* but for the steps between a fork and the entry and between waitpid and del, and
\* for good if SIGINT came there (udping_agent:25-36, :61-67, :119-125).
ChildrenTracked ==
  /\ \A s \in Running :
       \/ procs[children[s].pid] # Nil /\ procs[children[s].pid].sig = s
       \/ s = cur /\ pc = "del"
       \/ interrupt = "del"
  /\ \A p \in Pid : procs[p] # Nil =>
       \/ \E s \in Running : children[s].pid = p
       \/ p = forked /\ (pc = "enter" \/ interrupt = "enter")

\* The children are those a target asks for, with the settings it asks for.
Matches(target) ==
  /\ Running = {s \in DOMAIN target : Known(s)}
  /\ \A s \in Running : children[s].setting = target[s]

\* Whenever synchronize has returned, the table holds exactly what the agent's
\* list asks for, however many children have died or changed; only SIGINT during a
\* keepalive leaves it empty until the next poll (udping_agent:175-204, :246-256).
AsConfigured ==
  pc \in {"keepalive", "sleep"} =>
    Matches(Target) \/ (interrupt = "keepalive" /\ Running = {})

\* An agent that SIGINT ends leaves no process behind, unless it came between a fork
\* and the entry of the child, or between waitpid and del: then waiting a second
\* time fails, and the rest of the table lives on (udping_agent:119-125, :206-211).
\* An answer that crashes the agent is another end, and all its children live on.
CleanExit ==
  Ended => \A p \in Pid : procs[p] # Nil =>
    \/ interrupt = "enter" /\ p = forked
    \/ interrupt = "del" /\ pc = "failed"

\* If the controller's answer stays the same, the children are again and again
\* those it asks for, whichever of them die, through requests that fail, and even
\* after a SIGINT that a bare except has caught: only SIGINT itself, an answer the
\* agent cannot read, or a child killed between two commands, for which killChild
\* waits, can keep them from it (udping_agent:119-163, :246-256).
Converges ==
  <>[][served' = served]_served =>
    \/ []<>Matches(TargetChildren(served))
    \/ <>[](pc = "wait" /\ Alive(children[cur].pid))
    \/ <>[](Ended /\ interrupt # Nil)
    \/ <>[](pc = "crashed")
=============================================================================
