------------------------------- MODULE Updater -------------------------------
(***************************************************************************)
(* cmd/elite-updater/main.go: the one-shot updater of elite-agent, run by  *)
(* a systemd timer, with the files it moves and the agent it restarts.     *)
(*                                                                         *)
(* A file holds a released version, is Absent, or is Partial (a copy that  *)
(* has been opened, and truncated, but not finished).  One step of `pc' is *)
(* one system call or command that leaves something behind.  The updater   *)
(* may be killed between any two (it restarts with the next timer), a copy *)
(* may fail (disk full), systemctl or the download may fail: FaultPlans    *)
(* says which of these can happen together, each of them once.             *)
(***************************************************************************)
EXTENDS Integers

CONSTANTS
    Last,           \* versions are 0..Last; 0 is the one install.sh installed
    Good,           \* versions whose agent answers the health check
    CrossDevice,    \* rename to previous/ may fail
    FaultPlans      \* bound: sets of faults that may strike in one behaviour

ASSUME UpdaterAssumption ==
    /\ Last \in Nat /\ 0 \in Good /\ Good \subseteq 0..Last
    /\ CrossDevice \in BOOLEAN
    /\ FaultPlans \subseteq SUBSET {"kill", "io", "systemctl", "net"}

Versions == 0..Last
Partial == -1
Absent == -2
Down == -1
Files == Versions \cup {Partial, Absent}

VARIABLES
    release,    \* the latest release
    dst, prev,  \* bin/elite-agent and bin/previous/elite-agent
    tmp,        \* the downloaded binary
    agent,      \* version of the running agent
    pc,
    struck      \* history: the faults that have happened

updVars == <<release, dst, prev, tmp, agent, pc, struck>>

UpdInit ==
    /\ release = 0 /\ dst = 0 /\ agent = 0
    /\ prev = Absent /\ tmp = Absent
    /\ pc = "idle" /\ struck = {}

Healthy == agent \in Good

Fault(kind) ==
    /\ kind \notin struck /\ struck \cup {kind} \in FaultPlans
    /\ struck' = struck \cup {kind}
Goto(l) == pc' = l
\* run returns; the temporary directory is removed.
Return == pc' = "idle" /\ tmp' = Absent

Publish ==
    /\ release < Last
    /\ release' = release + 1
    /\ UNCHANGED <<dst, prev, tmp, agent, pc, struck>>

\* Mutant: a binary that does not run passes for the latest.
currentVersionTrusting == IF dst \in Versions THEN dst ELSE release

\* currentVersion runs the binary; if that fails it falls back on the version
\* file install.sh wrote.
currentVersion == IF dst \in Versions THEN dst ELSE 0

\* The release fetched from GitHub is not the installed one.
Newer == currentVersion # release

\* The release, the asset or SHA256SUMS cannot be fetched, or do not verify.
DownloadFails == Fault("net") /\ UNCHANGED <<tmp, pc>>

\* The timer starts a run that finds a newer release and downloads and checks it.
Download ==
    /\ pc = "idle" /\ Newer
    /\ \/ tmp' = release /\ Goto("swap") /\ UNCHANGED struck
       \/ DownloadFails
    /\ UNCHANGED <<release, dst, prev, agent>>

\* atomicSwap: if there is a binary, make room for it in previous/.
RemovePrevious ==
    /\ pc = "swap"
    /\ IF dst = Absent THEN Goto("copy") /\ UNCHANGED prev
                       ELSE Goto("keep") /\ prev' = Absent
    /\ UNCHANGED <<release, dst, tmp, agent, struck>>

\* Mutant: the old binary is removed, not kept.
KeepNothing ==
    /\ pc = "keep"
    /\ dst' = Absent /\ Goto("copy")
    /\ UNCHANGED <<release, prev, tmp, agent, struck>>

\* Move it there; when rename fails, across devices, open a copy.
KeepPrevious ==
    /\ pc = "keep"
    /\ \/ prev' = dst /\ dst' = Absent /\ Goto("copy")
       \/ CrossDevice /\ prev' = Partial /\ Goto("keepCopy") /\ UNCHANGED dst
    /\ UNCHANGED <<release, tmp, agent, struck>>

\* Finish the copy, then remove the original.
KeepCopied ==
    /\ pc = "keepCopy"
    /\ prev' = dst /\ Goto("removeOld")
    /\ UNCHANGED <<release, dst, tmp, agent, struck>>

RemoveOld ==
    /\ pc = "removeOld"
    /\ dst' = Absent /\ Goto("copy")
    /\ UNCHANGED <<release, prev, tmp, agent, struck>>

\* copyFile(src, dst): open and truncate, ...
OpenNew ==
    /\ pc = "copy"
    /\ dst' = Partial /\ Goto("copying")
    /\ UNCHANGED <<release, prev, tmp, agent, struck>>

\* ... then write.
CopyNew ==
    /\ pc = "copying"
    /\ dst' = tmp /\ Goto("restart")
    /\ UNCHANGED <<release, prev, tmp, agent, struck>>

\* systemd starts what is at dst, if it runs.
Started == IF dst \in Versions THEN dst ELSE Down

\* systemctl restart; its error is ignored.
Restart ==
    /\ pc = "restart"
    /\ Goto("health")
    /\ \/ agent' = Started /\ UNCHANGED struck
       \/ Fault("systemctl") /\ UNCHANGED agent
    /\ UNCHANGED <<release, dst, prev, tmp>>

\* waitHealthy: an unhealthy agent times out.
HealthOK ==
    /\ pc = "health" /\ Healthy
    /\ Return
    /\ UNCHANGED <<release, dst, prev, agent, struck>>

HealthFailed ==
    /\ pc = "health" /\ ~Healthy
    /\ IF prev = Absent THEN Return /\ UNCHANGED dst
                        ELSE dst' = Partial /\ Goto("rollback") /\ UNCHANGED tmp
    /\ UNCHANGED <<release, prev, agent, struck>>

\* rollback has removed dst and opened the copy.
CopyBack ==
    /\ pc = "rollback"
    /\ dst' = prev /\ Goto("restartOld")
    /\ UNCHANGED <<release, prev, tmp, agent, struck>>

\* An error in any of the three copies ends the run there and then.
CopyFails ==
    /\ pc \in {"keepCopy", "copying", "rollback"}
    /\ Fault("io") /\ Return
    /\ UNCHANGED <<release, dst, prev, agent>>

\* Mutant: the rolled-back binary is not started.
RestartOldSkipped ==
    /\ pc = "restartOld"
    /\ Return
    /\ UNCHANGED <<release, dst, prev, agent, struck>>

RestartOld ==
    /\ pc = "restartOld"
    /\ Return
    /\ \/ agent' = Started /\ UNCHANGED struck
       \/ Fault("systemctl") /\ UNCHANGED agent
    /\ UNCHANGED <<release, dst, prev>>

\* The updater is killed.
Kill ==
    /\ pc # "idle"
    /\ Fault("kill") /\ Return
    /\ UNCHANGED <<release, dst, prev, agent>>

Run == \/ Download \/ RemovePrevious \/ KeepPrevious \/ KeepCopied \/ RemoveOld \/ OpenNew
       \/ CopyNew \/ Restart \/ HealthOK \/ HealthFailed \/ CopyBack \/ RestartOld \/ CopyFails

UpdNext == Publish \/ Run \/ Kill

UpdSpec == UpdInit /\ [][UpdNext]_updVars
\* The timer keeps starting runs, and a run goes on.
UpdFairSpec == UpdSpec /\ WF_updVars(Run)

-----------------------------------------------------------------------------
(* Properties *)

\* Types; a download is in hand exactly while a run is under way.
UpdTypeOK ==
    /\ release \in Versions /\ dst \in Files /\ prev \in Files /\ tmp \in Files
    /\ agent \in Versions \cup {Down} /\ struck \in FaultPlans \cup {{}}
    /\ pc \in {"idle", "swap", "keep", "keepCopy", "removeOld", "copy", "copying",
               "restart", "health", "rollback", "restartOld"}
    /\ (tmp = Absent) <=> (pc = "idle")

\* While all releases have worked, one failure, wherever it strikes, never
\* destroys the last complete binary: there is one at dst, one in previous/, or
\* a run is under way that has one.
LastBinarySurvives ==
    0..release \subseteq Good => dst \in Versions \/ prev \in Versions \/ tmp \in Versions

\* Nothing has cut a run short between two of its steps.
Uncut == struck \cap {"kill", "io"} = {}

\* A release that works gets installed, also when a run was killed or ran out
\* of disk half-way: the timer tries again until the binary at dst is complete.
ReleaseInstalled == \A v \in Good : <>[](release = v) => <>[](dst = v)

\* Bad releases are rolled back: as long as no run is cut short the agent is
\* healthy again and again, also when systemctl fails or the network does.
RollsBack == []Uncut => []<>Healthy
===========================================================================
