---------------------------- MODULE AgentProofs ----------------------------
(***************************************************************************)
(* Proofs about the agent, for every set of answers of the controller and  *)
(* of process ids: the table of children and the processes agree           *)
(* (ChildrenTracked), synchronize leaves exactly what was asked for        *)
(* (AsConfigured), and SIGINT leaves nothing behind but where it is said   *)
(* (CleanExit).                                                            *)
(*                                                                         *)
(* None of the three is inductive.  AgentInv adds what each function has   *)
(* done so far: which children the loop of synchronize has settled, which  *)
(* the search for orphans has yet to visit, whose entry killChild or del   *)
(* is at, and from where the agent can no longer go on after SIGINT.       *)
(***************************************************************************)
EXTENDS Agent, TLAPS

TypeOK ==
  /\ served \in Lists /\ targetList \in Lists \cup {<<>>}
  /\ children \in [Signatures -> Entries \cup {Nil}]
  /\ procs \in [Pid -> Processes \cup {Nil}]
  /\ pc \in Points \cup {"shutdown", "ended", "failed", "crashed"}
  /\ interrupt \in Points \cup {Nil}
  /\ todo \subseteq Signatures
  /\ orphans \in BOOLEAN

Killing == pc \in {"kill", "wait", "del"}

\* The agent is in f, or in the killing or the del it has called.
Within(f) == pc = f \/ (Killing /\ caller = f)

\* The entry killChild or del is at is in the table, its process waited for before
\* the del, by a del that found an orphan too; the process just forked is for cur,
\* which has no entry yet.
ControlOK ==
  /\ Killing => cur \in Running /\ caller \in {"sync", "orphans", "shutdown"}
  /\ pc \in {"kill", "wait"} => caller # "orphans"
  /\ pc = "del" => procs[children[cur].pid] = Nil
  /\ pc = "del" /\ caller = "orphans" => orphans
  /\ Within("shutdown") => interrupt # Nil
  /\ pc = "enter" => /\ cur \in todo \ Running /\ Known(cur)
                     /\ forked \in Pid /\ procs[forked] # Nil
                     /\ procs[forked].sig = cur

\* After a SIGINT that no bare except catches the agent only shuts down.
CannotGoOn ==
  interrupt \notin {Nil, "update", "keepalive"} =>
    /\ pc \in {"shutdown", "kill", "wait", "del", "ended", "failed"}
    /\ Killing => caller = "shutdown"

\* The children checkForOrphans has yet to visit are in the table.
OrphansVisited ==
  Within("orphans") => todo \subseteq Running /\ (Killing => cur \notin todo)

\* The targets synchronize has visited have their children, as it wants them, and
\* the child it kills or starts is none of them.
Synchronizing ==
  pc = "enter" \/ Within("sync") =>
    /\ todo \subseteq DOMAIN Target
    /\ \A s \in DOMAIN Target \ todo :
         Known(s) => s \in Running /\ children[s].setting = Target[s]
    /\ Killing => cur \in todo \/ cur \notin DOMAIN Target

AllKnown == \A s \in Running : Known(s)

\* AsConfigured, and the search for orphans while it has found none.
Settled ==
  pc \in {"keepalive", "sleep"} \/ (pc = "orphans" /\ ~ orphans) =>
    Matches(Target) \/ (interrupt = "keepalive" /\ Running = {})

AgentInv ==
  /\ TypeOK /\ ControlOK /\ CannotGoOn /\ OrphansVisited /\ Synchronizing
  /\ AllKnown /\ Settled /\ ChildrenTracked /\ CleanExit

\* The dictionary synchronize makes of a list has signatures for keys and settings
\* for values (udping_agent:176-183).
LEMMA TargetSettings ==
  ASSUME NEW l \in Lists \cup {<<>>}
  PROVE  /\ DOMAIN TargetChildren(l) \subseteq Signatures
         /\ \A s \in DOMAIN TargetChildren(l) : TargetChildren(l)[s] \in Settings
<1>1. DOMAIN TargetChildren(l) \subseteq Signatures
  BY DEF TargetChildren
<1>2. QED
  BY <1>1 DEF Settings

\* An entry of the table has the process id of a child (udping_agent:44-45).
LEMMA Entry ==
  ASSUME AgentInv, NEW s \in Running
  PROVE  s \in Signatures /\ children[s] \in Entries /\ children[s].pid \in Pid
<1>1. s \in Signatures /\ children[s] \in Entries
  BY DEF AgentInv, TypeOK, Running
<1>2. QED
  BY <1>1 DEF Entries

\* The targets of the list at hand are signatures (udping_agent:249-250).
LEMMA TargetDomain ==
  ASSUME AgentInv
  PROVE  DOMAIN Target \subseteq Signatures
<1>1. QED
  BY TargetSettings DEF AgentInv, TypeOK, Target

\* update, and the loop over the new list begins, or the agent ends
\* (udping_agent:151-163).
LEMMA UpdateStep ==
  ASSUME AgentInv, Update
  PROVE  AgentInv'
<1>1. TypeOK'
  BY TargetSettings DEF AgentInv, Update, TypeOK, Points, world, control
<1>2. /\ ControlOK'
      /\ CannotGoOn'
      /\ OrphansVisited'
      /\ Synchronizing'
      /\ AllKnown'
      /\ Settled'
      /\ ChildrenTracked'
      /\ CleanExit'
  BY DEF AgentInv, Update, ControlOK, Within, Killing, Running, CannotGoOn,
       OrphansVisited, Synchronizing, Target, AllKnown, Settled, Matches,
       ChildrenTracked, CleanExit, Ended, world, control
<1>3. QED
  BY <1>1, <1>2 DEF AgentInv

\* The search for orphans begins with the whole table (udping_agent:165-173, :26).
LEMMA KeepaliveStep ==
  ASSUME AgentInv, Keepalive
  PROVE  AgentInv'
<1>1. TypeOK'
  BY  DEF AgentInv, Keepalive, TypeOK, Points, Running, world, control
<1>2. /\ ControlOK'
      /\ CannotGoOn'
      /\ OrphansVisited'
      /\ Synchronizing'
      /\ AllKnown'
      /\ Settled'
      /\ ChildrenTracked'
      /\ CleanExit'
  BY DEF AgentInv, Keepalive, ControlOK, Within, Killing, Running, CannotGoOn,
       OrphansVisited, Synchronizing, Target, AllKnown, Settled, Matches,
       ChildrenTracked, CleanExit, Ended, world, control
<1>3. QED
  BY <1>1, <1>2 DEF AgentInv

\* checkForOrphans waits for a child that has ended, and only its own entry is to
\* be deleted (udping_agent:29-34).
LEMMA ReapStep ==
  ASSUME AgentInv, NEW s \in Signatures, Reap(s)
  PROVE  AgentInv'
<1>1. s \in Running /\ children[s].pid \in Pid
  BY Entry DEF Reap, AgentInv, OrphansVisited, Within
<1>2. TypeOK'
  BY <1>1 DEF AgentInv, Reap, TypeOK, Points, world, control
<1>3. ControlOK'
  BY <1>1 DEF AgentInv, Reap, ControlOK, Within, Killing, Running, TypeOK, world,
       control
<1>4. ChildrenTracked'
  BY <1>1, Entry DEF AgentInv, Reap, ChildrenTracked, Running, TypeOK, world, control
<1>5. /\ CannotGoOn'
      /\ OrphansVisited'
      /\ Synchronizing'
      /\ AllKnown'
      /\ Settled'
      /\ CleanExit'
  BY DEF AgentInv, Reap, CannotGoOn, Killing, OrphansVisited, Within, Running,
       Synchronizing, Target, AllKnown, Settled, Matches, CleanExit, Ended, world,
       control
<1>6. QED
  BY <1>2, <1>3, <1>4, <1>5 DEF AgentInv

\* If an orphan was found synchronize begins, else nothing is to be done
\* (udping_agent:253-256).
LEMMA OrphansDoneStep ==
  ASSUME AgentInv, OrphansDone
  PROVE  AgentInv'
<1>1. DOMAIN Target \subseteq Signatures
  BY TargetDomain
<1>2. TypeOK'
  BY <1>1 DEF AgentInv, OrphansDone, TypeOK, Points, world, control
<1>3. /\ ControlOK'
      /\ CannotGoOn'
      /\ OrphansVisited'
      /\ Synchronizing'
      /\ AllKnown'
      /\ Settled'
      /\ ChildrenTracked'
      /\ CleanExit'
  BY DEF AgentInv, OrphansDone, ControlOK, Within, Killing, Running, CannotGoOn,
       OrphansVisited, Synchronizing, Target, AllKnown, Settled, Matches,
       ChildrenTracked, CleanExit, Ended, world, control
<1>4. QED
  BY <1>2, <1>3 DEF AgentInv

\* The agent wakes up with the table it went to sleep with (udping_agent:247-256).
LEMMA SleepStep ==
  ASSUME AgentInv, Sleep
  PROVE  AgentInv'
<1>1. TypeOK'
  BY  DEF AgentInv, Sleep, TypeOK, Points, world, control
<1>2. /\ ControlOK'
      /\ CannotGoOn'
      /\ OrphansVisited'
      /\ Synchronizing'
      /\ AllKnown'
      /\ Settled'
      /\ ChildrenTracked'
      /\ CleanExit'
  BY DEF AgentInv, Sleep, ControlOK, Within, Killing, Running, CannotGoOn,
       OrphansVisited, Synchronizing, Target, AllKnown, Settled, Matches,
       ChildrenTracked, CleanExit, Ended, world, control
<1>3. QED
  BY <1>1, <1>2 DEF AgentInv

\* A target that has its child, or that nothing knows how to run, is visited
\* (udping_agent:184-190).
LEMMA KeepStep ==
  ASSUME AgentInv, NEW s \in Signatures, Keep(s)
  PROVE  AgentInv'
<1>1. /\ TypeOK'
      /\ ControlOK'
      /\ CannotGoOn'
      /\ OrphansVisited'
      /\ Synchronizing'
      /\ AllKnown'
      /\ Settled'
      /\ ChildrenTracked'
      /\ CleanExit'
  BY DEF AgentInv, Keep, TypeOK, ControlOK, Within, Killing, Running, CannotGoOn,
       OrphansVisited, Synchronizing, Target, AllKnown, Settled, Matches,
       ChildrenTracked, CleanExit, Ended, world, control
<1>2. QED
  BY <1>1 DEF AgentInv

\* A child whose setting has changed, or that is no longer wanted, is about to be
\* killed: none that the loop has settled (udping_agent:187-190, :202-204).
LEMMA ReplaceStep ==
  ASSUME AgentInv, NEW s \in Signatures, Replace(s)
  PROVE  AgentInv'
<1>1. TypeOK'
  BY  DEF AgentInv, Replace, TypeOK, Points, world, control
<1>2. Synchronizing'
  BY  DEF AgentInv, Replace, Synchronizing, Within, Killing, Running, Target,
       Outdated, world, control
<1>3. /\ ControlOK'
      /\ CannotGoOn'
      /\ OrphansVisited'
      /\ AllKnown'
      /\ Settled'
      /\ ChildrenTracked'
      /\ CleanExit'
  BY DEF AgentInv, Replace, ControlOK, Within, Killing, Running, CannotGoOn,
       OrphansVisited, AllKnown, Settled, Matches, Target, ChildrenTracked, CleanExit,
       Ended, world, control
<1>4. QED
  BY <1>1, <1>2, <1>3 DEF AgentInv

\* The process forked is new, and no entry of the table is for it: after a SIGINT
\* between a waitpid and its del the agent forks no more (udping_agent:103-105).
LEMMA LaunchStep ==
  ASSUME AgentInv, NEW s \in Signatures, Launch(s)
  PROVE  AgentInv'
<1>1. PICK p \in Pid :
        /\ procs[p] = Nil
        /\ procs' = [procs EXCEPT ![p] = [sig |-> s, state |-> "between"]]
        /\ forked' = p
  BY DEF Launch
<1>2. /\ procs' \in [Pid -> Processes \cup {Nil}]
      /\ \A q \in Pid : IF q = p THEN procs'[q] # Nil /\ procs'[q].sig = s
                        ELSE procs'[q] = procs[q]
  BY <1>1, NilAssumption DEF AgentInv, TypeOK, Processes
<1>3. \A t \in Running : children[t].pid \in Pid
  BY Entry
<1>4. interrupt \in {Nil, "update", "keepalive"}
  BY DEF Launch, AgentInv, CannotGoOn
<1>5. TypeOK'
  BY <1>2 DEF AgentInv, Launch, TypeOK, Points, world, control
<1>6. ControlOK'
  BY <1>1, <1>2 DEF AgentInv, Launch, ControlOK, Within, Killing, Running, world,
       control
<1>7. ChildrenTracked'
  BY <1>1, <1>2, <1>3, <1>4, NilAssumption DEF AgentInv, Launch, ChildrenTracked,
       Running, Points, world, control
<1>8. CleanExit'
  BY <1>1 DEF AgentInv, Launch, CleanExit, Ended, world, control
<1>9. /\ CannotGoOn'
      /\ OrphansVisited'
      /\ Synchronizing'
      /\ AllKnown'
      /\ Settled'
  BY DEF AgentInv, Launch, CannotGoOn, Killing, OrphansVisited, Within, Running,
       Synchronizing, Target, AllKnown, Settled, Matches, world, control
<1>10. QED
  BY <1>5, <1>6, <1>7, <1>8, <1>9 DEF AgentInv

\* The entry of the child just forked settles its target (udping_agent:106-111).
LEMMA EnterStep ==
  ASSUME AgentInv, Enter
  PROVE  AgentInv'
<1>1. cur \in Signatures /\ cur \in todo \ Running /\ Known(cur) /\ cur \in DOMAIN Target
  BY DEF Enter, AgentInv, TypeOK, ControlOK, Synchronizing, Running
<1>2. [pid |-> forked, setting |-> Target[cur]] \in Entries
  BY <1>1, TargetSettings DEF Enter, AgentInv, TypeOK, ControlOK, Entries, Target
<1>3. /\ children' \in [Signatures -> Entries \cup {Nil}] /\ Running' = Running \cup {cur}
      /\ children'[cur].pid = forked /\ children'[cur].setting = Target[cur]
      /\ \A s \in Running : children'[s] = children[s]
  BY <1>1, <1>2, NilAssumption DEF Enter, AgentInv, TypeOK, Running
<1>4. TypeOK'
  BY <1>1, <1>3 DEF AgentInv, Enter, TypeOK, Points, world, control
<1>5. ControlOK'
  BY <1>1, <1>3 DEF AgentInv, Enter, ControlOK, Within, Killing, Running, world,
       control
<1>6. CannotGoOn'
  BY <1>1, <1>3 DEF AgentInv, Enter, CannotGoOn, Killing, world, control
<1>7. Synchronizing'
  BY <1>1, <1>3 DEF AgentInv, Enter, Synchronizing, Within, Killing, Running,
       Target, world, control
<1>8. AllKnown'
  BY <1>1, <1>3 DEF AgentInv, Enter, AllKnown, Running, world, control
<1>9. Settled'
  BY <1>1, <1>3 DEF AgentInv, Enter, Settled, Matches, Running, Target, world, control
<1>10. ChildrenTracked'
  BY <1>1, <1>3 DEF AgentInv, Enter, ChildrenTracked, Running, ControlOK, world,
       control
<1>11. /\ OrphansVisited'
      /\ CleanExit'
  BY DEF AgentInv, Enter, OrphansVisited, Within, Killing, Running, CleanExit,
       Ended, world, control
<1>12. QED
  BY <1>4, <1>5, <1>6, <1>7, <1>8, <1>9, <1>10, <1>11 DEF AgentInv

\* All targets are settled and no other child runs (udping_agent:202-204).
LEMMA SyncDoneStep ==
  ASSUME AgentInv, SyncDone
  PROVE  AgentInv'
<1>1. \A s \in DOMAIN Target :
        Known(s) => s \in Running /\ children[s].setting = Target[s]
  BY DEF SyncDone, AgentInv, Synchronizing, Within
<1>2. \A s \in Running : s \in DOMAIN Target /\ Known(s)
  BY DEF SyncDone, AgentInv, AllKnown
<1>3. Matches(Target)
  BY <1>1, <1>2 DEF Matches
<1>4. Matches(Target)'
  BY <1>3 DEF Matches, Target, Running, SyncDone
<1>5. TypeOK'
  BY  DEF AgentInv, SyncDone, TypeOK, Points, world, control
<1>6. Settled'
  BY <1>4 DEF AgentInv, SyncDone, Settled, Matches, Running, Target, world, control
<1>7. /\ ControlOK'
      /\ CannotGoOn'
      /\ OrphansVisited'
      /\ Synchronizing'
      /\ AllKnown'
      /\ ChildrenTracked'
      /\ CleanExit'
  BY DEF AgentInv, SyncDone, ControlOK, Within, Killing, Running, CannotGoOn,
       OrphansVisited, Synchronizing, Target, AllKnown, ChildrenTracked, CleanExit,
       Ended, world, control
<1>8. QED
  BY <1>5, <1>6, <1>7 DEF AgentInv

\* Killing a child's commands ends its process and leaves it to be waited for
\* (udping_agent:119-148).
LEMMA KillStep ==
  ASSUME AgentInv, Kill
  PROVE  AgentInv'
<1>1. cur \in Running /\ children[cur].pid \in Pid
  BY Entry DEF Kill, AgentInv, ControlOK, Killing
<1>2. /\ procs' \in [Pid -> Processes \cup {Nil}]
      /\ \A p \in Pid : /\ procs'[p] = Nil <=> procs[p] = Nil
                        /\ procs[p] # Nil => procs'[p].sig = procs[p].sig
  BY <1>1, NilAssumption DEF Kill, AgentInv, TypeOK, Processes
<1>3. TypeOK'
  BY <1>2 DEF AgentInv, Kill, TypeOK, Points, world, control
<1>4. ChildrenTracked'
  BY <1>2, Entry DEF AgentInv, Kill, ChildrenTracked, Running, world, control
<1>5. /\ ControlOK'
      /\ CannotGoOn'
      /\ OrphansVisited'
      /\ Synchronizing'
      /\ AllKnown'
      /\ Settled'
      /\ CleanExit'
  BY DEF AgentInv, Kill, ControlOK, Within, Killing, Running, CannotGoOn,
       OrphansVisited, Synchronizing, Target, AllKnown, Settled, Matches, CleanExit,
       Ended, world, control
<1>6. QED
  BY <1>3, <1>4, <1>5 DEF AgentInv

\* waitpid takes the process of cur and no other child's; it fails only on the entry
\* a SIGINT has kept from its del (udping_agent:124).
LEMMA WaitStep ==
  ASSUME AgentInv, Wait
  PROVE  AgentInv'
<1>1. cur \in Running /\ children[cur].pid \in Pid
  BY Entry DEF Wait, AgentInv, ControlOK, Killing
<1>2. TypeOK'
  BY <1>1 DEF AgentInv, Wait, TypeOK, Points, world, control
<1>3. ControlOK'
  BY <1>1 DEF AgentInv, Wait, ControlOK, Within, Killing, Running, TypeOK, world,
       control
<1>4. ChildrenTracked'
  BY <1>1, Entry DEF AgentInv, Wait, ChildrenTracked, Running, world, control
<1>5. CleanExit'
  BY <1>1 DEF AgentInv, Wait, CleanExit, Ended, ChildrenTracked, world, control
<1>6. /\ CannotGoOn'
      /\ OrphansVisited'
      /\ Synchronizing'
      /\ AllKnown'
      /\ Settled'
  BY DEF AgentInv, Wait, CannotGoOn, Killing, OrphansVisited, Within, Running,
       Synchronizing, Target, AllKnown, Settled, Matches, world, control
<1>7. QED
  BY <1>2, <1>3, <1>4, <1>5, <1>6 DEF AgentInv

\* The entry deleted is one whose process has been waited for (udping_agent:33, :125).
LEMMA DelStep ==
  ASSUME AgentInv, Del
  PROVE  AgentInv'
<1>1. cur \in Running /\ children[cur].pid \in Pid
  BY Entry DEF Del, AgentInv, ControlOK, Killing
<1>2. /\ children' \in [Signatures -> Entries \cup {Nil}]
      /\ Running' = Running \ {cur}
      /\ \A s \in Running' : children'[s] = children[s]
  BY <1>1 DEF Del, AgentInv, TypeOK, Running
<1>3. TypeOK'
  BY <1>1, <1>2 DEF AgentInv, Del, TypeOK, Points, ControlOK, Killing, world, control
<1>4. OrphansVisited'
  BY <1>1, <1>2 DEF AgentInv, Del, OrphansVisited, Within, Killing, Running,
       ControlOK, world, control
<1>5. Synchronizing'
  BY <1>1, <1>2 DEF AgentInv, Del, Synchronizing, Within, Killing, Running, Target,
       ControlOK, world, control
<1>6. AllKnown'
  BY <1>1, <1>2 DEF AgentInv, Del, AllKnown, Running, world, control
<1>7. Settled'
  BY <1>1, <1>2 DEF AgentInv, Del, Settled, Matches, Running, Target, ControlOK,
       Killing, world, control
<1>8. ChildrenTracked'
  BY <1>1, <1>2 DEF AgentInv, Del, ChildrenTracked, Running, ControlOK, Killing,
       world, control
<1>9. CleanExit'
  BY  DEF AgentInv, Del, CleanExit, Ended, ControlOK, Killing, world, control
<1>10. /\ ControlOK'
      /\ CannotGoOn'
  BY DEF AgentInv, Del, ControlOK, Within, Killing, Running, CannotGoOn, world,
       control
<1>11. QED
  BY <1>3, <1>4, <1>5, <1>6, <1>7, <1>8, <1>9, <1>10 DEF AgentInv

\* SIGINT comes once, at any point of the program (udping_agent:242).
LEMMA InterruptStep ==
  ASSUME AgentInv, Interrupt
  PROVE  AgentInv'
<1>1. pc \in Points
  BY DEF Interrupt
<1>2. TypeOK'
  BY <1>1 DEF AgentInv, Interrupt, TypeOK, Points, world, control
<1>3. ControlOK'
  BY <1>1, NilAssumption DEF AgentInv, Interrupt, ControlOK, Within, Killing,
       Running, world, control
<1>4. ChildrenTracked'
  BY Entry, NilAssumption DEF AgentInv, Interrupt, ChildrenTracked, Running, Points,
       world, control
<1>5. /\ CannotGoOn'
      /\ OrphansVisited'
      /\ Synchronizing'
      /\ AllKnown'
      /\ Settled'
      /\ CleanExit'
  BY DEF AgentInv, Interrupt, CannotGoOn, Killing, OrphansVisited, Within, Running,
       Synchronizing, Target, AllKnown, Settled, Matches, CleanExit, Ended, world,
       control
<1>6. QED
  BY <1>2, <1>3, <1>4, <1>5 DEF AgentInv

\* shutdown kills a child of the table (udping_agent:206-209).
LEMMA ShutdownStep ==
  ASSUME AgentInv, NEW s \in Signatures, Shutdown(s)
  PROVE  AgentInv'
<1>1. TypeOK'
  BY  DEF AgentInv, Shutdown, TypeOK, Points, world, control
<1>2. /\ ControlOK'
      /\ CannotGoOn'
      /\ OrphansVisited'
      /\ Synchronizing'
      /\ AllKnown'
      /\ Settled'
      /\ ChildrenTracked'
      /\ CleanExit'
  BY DEF AgentInv, Shutdown, ControlOK, Within, Killing, Running, CannotGoOn,
       OrphansVisited, Synchronizing, Target, AllKnown, Settled, Matches,
       ChildrenTracked, CleanExit, Ended, world, control
<1>3. QED
  BY <1>1, <1>2 DEF AgentInv

\* shutdown leaves with an empty table (udping_agent:210-211, :139-141).
LEMMA ExitStep ==
  ASSUME AgentInv, Exit
  PROVE  AgentInv'
<1>1. DOMAIN Target \subseteq Signatures
  BY TargetDomain
<1>2. /\ pc = "shutdown" /\ interrupt # Nil /\ Running = {}
      /\ pc' = "sync" => interrupt = "update" /\ todo' = DOMAIN Target
      /\ pc' = "orphans" => interrupt = "keepalive" /\ todo' = {}
      /\ pc' \in {"sync", "orphans", "ended", "failed"}
      /\ pc' \in {"sync", "orphans"} \/ todo' = {}
  BY DEF Exit, AfterExit, AgentInv, ControlOK, Within
<1>3. TypeOK'
  BY <1>1, <1>2 DEF AgentInv, Exit, TypeOK, Points, world, control
<1>4. ControlOK'
  BY <1>2 DEF AgentInv, Exit, ControlOK, Within, Killing, Running, world, control
<1>5. CannotGoOn'
  BY <1>2 DEF AgentInv, Exit, CannotGoOn, Killing, world, control
<1>6. OrphansVisited'
  BY <1>2 DEF AgentInv, Exit, OrphansVisited, Within, Killing, Running, world, control
<1>7. Synchronizing'
  BY <1>2 DEF AgentInv, Exit, Synchronizing, Within, Killing, Running, Target,
       world, control
<1>8. AllKnown'
  BY <1>2 DEF AgentInv, Exit, AllKnown, Running, world, control
<1>9. Settled'
  BY <1>2 DEF AgentInv, Exit, Settled, Matches, Running, Target, world, control
<1>10. ChildrenTracked'
  BY <1>2 DEF AgentInv, Exit, ChildrenTracked, Running, world, control
<1>11. CleanExit'
  BY <1>2 DEF AgentInv, Exit, CleanExit, Ended, ChildrenTracked, world, control
<1>12. QED
  BY <1>3, <1>4, <1>5, <1>6, <1>7, <1>8, <1>9, <1>10, <1>11 DEF AgentInv

\* What a child does by itself leaves it a process for its signature, to be waited
\* for (udping_agent:48-57, :69-101).
LEMMA ChildStep ==
  ASSUME AgentInv, NEW p \in Pid, Child(p)
  PROVE  AgentInv'
<1>1. /\ procs' \in [Pid -> Processes \cup {Nil}]
      /\ \A q \in Pid : /\ procs'[q] = Nil <=> procs[q] = Nil
                        /\ procs[q] # Nil => procs'[q].sig = procs[q].sig
  BY NilAssumption DEF Child, Alive, AgentInv, TypeOK, Processes
<1>2. \A s \in Running : children[s].pid \in Pid
  BY Entry
<1>3. TypeOK'
  BY <1>1 DEF AgentInv, Child, TypeOK, world, control
<1>4. ControlOK'
  BY <1>1, <1>2 DEF AgentInv, Child, ControlOK, Within, Killing, Running, Alive,
       world, control
<1>5. ChildrenTracked'
  BY <1>1, <1>2 DEF AgentInv, Child, ChildrenTracked, Running, world, control
<1>6. CleanExit'
  BY <1>1 DEF AgentInv, Child, CleanExit, Ended, world, control
<1>7. /\ CannotGoOn'
      /\ OrphansVisited'
      /\ Synchronizing'
      /\ AllKnown'
      /\ Settled'
  BY DEF AgentInv, Child, CannotGoOn, Killing, OrphansVisited, Within, Running,
       Synchronizing, Target, AllKnown, Settled, Matches, world, control
<1>8. QED
  BY <1>3, <1>4, <1>5, <1>6, <1>7 DEF AgentInv

\* The controller's answer changes nothing in the agent (udping_agent:151-163).
LEMMA ChangeStep ==
  ASSUME AgentInv, Change
  PROVE  AgentInv'
<1>1. /\ TypeOK'
      /\ ControlOK'
      /\ CannotGoOn'
      /\ OrphansVisited'
      /\ Synchronizing'
      /\ AllKnown'
      /\ Settled'
      /\ ChildrenTracked'
      /\ CleanExit'
  BY DEF AgentInv, Change, TypeOK, ControlOK, Within, Killing, Running, CannotGoOn,
       OrphansVisited, Synchronizing, Target, AllKnown, Settled, Matches,
       ChildrenTracked, CleanExit, Ended, world, control
<1>2. QED
  BY <1>1 DEF AgentInv

\* Before the first iteration there is no process and no entry (udping_agent:242-246).
LEMMA InitAgent == Init => AgentInv
<1> SUFFICES ASSUME Init PROVE AgentInv
  OBVIOUS
<1>1. Running = {} /\ pc = "update" /\ interrupt = Nil /\ \A p \in Pid : procs[p] = Nil
  BY DEF Init, Running
<1>2. TypeOK
  BY DEF Init, TypeOK, Points
<1>3. /\ ControlOK /\ CannotGoOn /\ OrphansVisited /\ Synchronizing
      /\ AllKnown /\ Settled
  BY <1>1 DEF ControlOK, CannotGoOn, OrphansVisited, Synchronizing, AllKnown, Settled,
              Within, Killing
<1>4. ChildrenTracked /\ CleanExit
  BY <1>1 DEF ChildrenTracked, CleanExit, Ended
<1>5. QED
  BY <1>2, <1>3, <1>4 DEF AgentInv

\* The agent's table, its processes and its control keep the inductive invariant,
\* wherever SIGINT comes and however the children end (udping_agent:21-256).
THEOREM AgentInvariant == Spec => []AgentInv
<1>1. AgentInv /\ [Next]_vars => AgentInv'
  <2> SUFFICES ASSUME AgentInv, [Next]_vars PROVE AgentInv'
    OBVIOUS
  <2>1. CASE \/ Update \/ Keepalive \/ OrphansDone \/ Sleep \/ Enter \/ SyncDone
             \/ Kill \/ Wait \/ Del \/ Exit
    BY <2>1, UpdateStep, KeepaliveStep, OrphansDoneStep, SleepStep, EnterStep,
       SyncDoneStep, KillStep, WaitStep, DelStep, ExitStep
  <2>2. ASSUME NEW s \in Signatures,
               Reap(s) \/ Keep(s) \/ Replace(s) \/ Launch(s) \/ Shutdown(s)
        PROVE  AgentInv'
    BY <2>2, ReapStep, KeepStep, ReplaceStep, LaunchStep, ShutdownStep
  <2>3. CASE Interrupt
    BY <2>3, InterruptStep
  <2>4. ASSUME NEW p \in Pid, Child(p) PROVE AgentInv'
    BY <2>4, ChildStep
  <2>5. CASE Change
    BY <2>5, ChangeStep
  <2>6. CASE UNCHANGED vars
    BY <2>6 DEF AgentInv, TypeOK, ControlOK, CannotGoOn, OrphansVisited, Synchronizing,
                AllKnown, Settled, ChildrenTracked, CleanExit, Killing, Within, Running,
                Target, Matches, Ended, vars, world, control
  <2>7. QED
    BY <2>1, <2>2, <2>3, <2>4, <2>5, <2>6 DEF Next, AgentStep
<1>2. QED
  BY <1>1, InitAgent, PTL DEF Spec

\* Each child in the table has a process of its own, run for its signature and not
\* yet waited for, and no process is without an entry, but for what the property
\* excepts (udping_agent:25-36, :61-67, :119-125).
THEOREM Tracking == Spec => []ChildrenTracked
<1>1. AgentInv => ChildrenTracked
  BY DEF AgentInv
<1>2. QED
  BY <1>1, AgentInvariant, PTL

\* Whenever synchronize has returned the children are those the agent's list asks
\* for, with their settings (udping_agent:175-204, :246-256).
THEOREM Configuration == Spec => []AsConfigured
<1>1. AgentInv => AsConfigured
  BY DEF AgentInv, Settled, AsConfigured
<1>2. QED
  BY <1>1, AgentInvariant, PTL

\* An agent that SIGINT has ended has left no process behind, but for what the
\* property excepts (udping_agent:119-125, :206-211).
THEOREM NothingLeft == Spec => []CleanExit
<1>1. AgentInv => CleanExit
  BY DEF AgentInv
<1>2. QED
  BY <1>1, AgentInvariant, PTL
=============================================================================
