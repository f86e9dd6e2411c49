---------------------------- MODULE OnionInstall ----------------------------
(***************************************************************************)
(* The Tor component of the main process (main.ts, registerOnionIpc, with  *)
(* main/onion): the versions on disk, the pointer to the current one and   *)
(* the runtime that runs it.                                               *)
(*                                                                         *)
(* Each request of the renderer is a chain of awaits of its own; nothing   *)
(* in the main process keeps two of them apart.  A job is one such chain,  *)
(* `at` the await it is in.  The renderer has one busy flag per button,    *)
(* so two jobs of the same button never overlap, and any others may.       *)
(*                                                                         *)
(* Abstracted: the archive and its hash (a download that does not verify   *)
(* is one that fails), the progress, the texts of errors, the port.  A     *)
(* start makes `StartTries` attempts.  Left out: the repairs on macOS.     *)
(***************************************************************************)
EXTENDS Naturals, FiniteSets

CONSTANTS
    LastVersion,   \* bound: versions are 1..LastVersion
    StartTries,    \* attempts of one start
    MaxJobs,       \* bound: requests
    MaxTors        \* bound: processes

ASSUME InstallAssumption == {LastVersion, StartTries, MaxJobs, MaxTors} \subseteq Nat \ {0}

Versions == 1..LastVersion
Slots == {"first", "second"}

VARIABLES
    published,   \* the newest version of the index
    folder,         \* a version's directory: "none", "part", "whole"
    pointer,     \* current.json, 0 for none
    card,        \* onionComponentCache.tor: [latest, status, version]
    mode,        \* onionRuntime.status
    torHandle,      \* the runtime's process, 0 for none
    alive,       \* processes that run
    job,         \* the requests under way
    jobs, tors,  \* bounds
    damaged,     \* history: the current version was taken away by a request that failed
    mixed,       \* history: two requests that change the directories overlapped
    met          \* history: two requests overlapped

folderVars == <<folder, pointer>>
runVars == <<mode, torHandle, alive, tors>>
installVars == <<published, folderVars, card, runVars, job, jobs, damaged, mixed, met>>

Ops == {"install", "update", "uninstall", "enable", "disable"}
Mutations == {"install", "update", "uninstall"}
NoJob == [op |-> "none", at |-> "done", ver |-> 0, prev |-> 0, again |-> FALSE, tries |-> 0,
          victim |-> 0, then |-> "done", undone |-> FALSE]

Busy(s) == job[s].op # "none"
Resting == \A s \in Slots : ~Busy(s)
To(s, changes) == job' = [job EXCEPT ![s] = changes]
Where(s, where) == job[s].at = where
Goto(s, where) == To(s, [job[s] EXCEPT !.at = where])
End(s) == To(s, NoJob)

\* A step of a request is one of none of these.
History == <<jobs, damaged, mixed, met>>

InstallTypeOK ==
    /\ published \in Versions /\ pointer \in 0..LastVersion
    /\ folder \in [Versions -> {"none", "part", "whole"}]
    /\ card.latest \in 0..LastVersion /\ card.version \in 0..LastVersion
    /\ card.status \in {"idle", "downloading", "ready", "failed"}
    /\ mode \in {"idle", "starting", "running", "failed"}
    /\ torHandle \in 0..MaxTors /\ alive \subseteq 1..MaxTors
    /\ \A s \in Slots : job[s].op \in Ops \cup {"none"}

-----------------------------------------------------------------------------
\* The handler of a button begins.
Ask(s, op) ==
    LET other == CHOOSE o \in Slots : o # s IN
    /\ ~Busy(s) /\ jobs < MaxJobs
    /\ op \in Mutations => job[other].op # op
    /\ op = "update" => card.latest # 0
    /\ jobs' = jobs + 1
    /\ To(s, [NoJob EXCEPT !.op = op,
              !.at = CASE op \in {"install", "update"} -> "check"
                       [] op = "enable" -> "start"
                       [] OTHER -> "stop"])
    /\ met' = (met \/ Busy(other))
    /\ mixed' = (mixed \/ {op, job[other].op} \subseteq Mutations)
    /\ UNCHANGED <<published, folderVars, card, runVars, damaged>>

\* onion:checkUpdates, the card of the component.
CheckUpdates(found) ==
    /\ published' \in published..LastVersion
    /\ card' = [card EXCEPT !.latest = IF found THEN published' ELSE 0, !.version = pointer]
    /\ UNCHANGED <<folderVars, runVars, job, History>>

Checked(s) ==
    /\ Where(s, "check")
    /\ published' \in published..LastVersion
    /\ To(s, [job[s] EXCEPT !.ver = published', !.at = "stop", !.then = "fetch",
                            !.again = job[s].op = "update" /\ mode = "running"])
    /\ card' = IF job[s].op = "install" THEN [card EXCEPT !.status = "downloading"] ELSE card
    /\ UNCHANGED <<folderVars, runVars, History>>

Failed == [card EXCEPT !.status = "failed"]

\* No verified release: an update rejects before its try block.
CheckFails(s) ==
    /\ Where(s, "check")
    /\ End(s)
    /\ card' = IF job[s].op = "install" THEN Failed ELSE card
    /\ UNCHANGED <<published, folderVars, runVars, History>>

-----------------------------------------------------------------------------
\* TorManager.stop(): the handle is given up first, then the exit is waited for.
Stop(s) ==
    /\ Where(s, "stop")
    /\ torHandle' = 0
    /\ To(s, [job[s] EXCEPT !.at = "stopping", !.victim = torHandle])
    /\ UNCHANGED <<published, folderVars, card, mode, alive, tors, History>>

AfterStop(then) ==
    CASE then = "read" -> "starting"
      [] then \in {"spawn", "giveup"} -> mode
      [] OTHER -> "idle"

\* The process has ended, of the signal or of the next one.
Stopped(s) ==
    /\ Where(s, "stopping")
    /\ alive' = alive \ {job[s].victim}
    /\ mode' = AfterStop(job[s].then)
    /\ LET next == IF job[s].op = "uninstall" THEN "remove" ELSE job[s].then
       IN IF next = "done" THEN End(s) ELSE Goto(s, next)
    /\ UNCHANGED <<published, folderVars, card, torHandle, tors, History>>

-----------------------------------------------------------------------------
\* OnionRuntime.start(): a runtime that says it runs is left alone.
Start(s) ==
    /\ Where(s, "start")
    /\ IF mode = "running" THEN Goto(s, "started")
       ELSE To(s, [job[s] EXCEPT !.at = "stop", !.then = "read"])
    /\ UNCHANGED <<published, folderVars, card, runVars, History>>

Launchable == pointer # 0 /\ folder[pointer] = "whole"

ReadPointer(s) ==
    /\ Where(s, "read")
    /\ IF Launchable
       THEN To(s, [job[s] EXCEPT !.at = "spawn", !.tries = StartTries]) /\ UNCHANGED mode
       ELSE mode' = "failed" /\ Goto(s, "refused")
    /\ UNCHANGED <<published, folderVars, card, torHandle, alive, tors, History>>

\* TorManager.start(): nothing when there is a process; else an await, then the spawn.
LookForProcess(s) ==
    /\ Where(s, "spawn")
    /\ Goto(s, IF torHandle = 0 THEN "spawning" ELSE "socks")
    /\ UNCHANGED <<published, folderVars, card, runVars, History>>

Spawn(s) ==
    /\ Where(s, "spawning")
    /\ tors < MaxTors
    /\ tors' = tors + 1 /\ torHandle' = tors' /\ alive' = alive \cup {tors'}
    /\ Goto(s, "socks")
    /\ UNCHANGED <<published, folderVars, card, mode, History>>

\* The port answers while the process is there; then the proxy is set, an await.
SocksReady(s) ==
    /\ Where(s, "socks")
    /\ torHandle # 0
    /\ Goto(s, "proxy")
    /\ UNCHANGED <<published, folderVars, card, runVars, History>>

ProxySet(s) ==
    /\ Where(s, "proxy")
    /\ mode' = "running"
    /\ Goto(s, "started")
    /\ UNCHANGED <<published, folderVars, card, torHandle, alive, tors, History>>

\* The process has ended, or the time is up: stop it, and try again.
SocksFail(s) ==
    /\ Where(s, "socks")
    /\ To(s, [job[s] EXCEPT !.at = "stop", !.tries = @ - 1,
                            !.then = IF job[s].tries > 1 THEN "spawn" ELSE "giveup"])
    /\ UNCHANGED <<published, folderVars, card, runVars, History>>

GiveUp(s) ==
    /\ Where(s, "giveup")
    /\ mode' = "failed"
    /\ Goto(s, "refused")
    /\ UNCHANGED <<published, folderVars, card, torHandle, alive, tors, History>>

\* A process ends by itself: the runtime's status is not told.
TorEnds(p) ==
    /\ p \in alive
    /\ alive' = alive \ {p}
    /\ torHandle' = IF torHandle = p THEN 0 ELSE torHandle
    /\ UNCHANGED <<published, folderVars, card, mode, job, tors, History>>

-----------------------------------------------------------------------------
\* installTor(): a failure of any of its steps, the removal of its own directory included.
InstallFails(s) ==
    /\ job[s].at \in {"fetch", "clear", "unpack"}
    /\ folder' \in IF Where(s, "clear")
                   THEN {[folder EXCEPT ![job[s].ver] = d] : d \in {folder[job[s].ver], "part"}}
                   ELSE {folder}
    /\ damaged' = (damaged \/ (pointer # 0 /\ folder'[pointer] # "whole"))
    /\ card' = Failed
    /\ End(s)
    /\ UNCHANGED <<published, pointer, runVars, jobs, mixed, met>>

Downloaded(s) ==
    /\ Where(s, "fetch")
    /\ Goto(s, "clear")
    /\ UNCHANGED <<published, folderVars, card, runVars, History>>

Clear(s) ==
    /\ Where(s, "clear")
    /\ folder' = [folder EXCEPT ![job[s].ver] = "part"]
    /\ Goto(s, "unpack")
    /\ UNCHANGED <<published, pointer, card, runVars, History>>

Unpacked(s) ==
    /\ Where(s, "unpack")
    /\ folder' = [folder EXCEPT ![job[s].ver] = "whole"]
    /\ Goto(s, "swap")
    /\ UNCHANGED <<published, pointer, card, runVars, History>>

\* swapWithRollback(): the pointer follows the directory.
ActivateEarly(s) ==
    /\ Where(s, "unpack")
    /\ pointer' = job[s].ver
    /\ To(s, [job[s] EXCEPT !.at = "start", !.prev = pointer])
    /\ UNCHANGED <<published, folder, card, runVars, History>>
Activate(s) ==
    /\ Where(s, "swap")
    /\ pointer' = job[s].ver
    /\ To(s, [job[s] EXCEPT !.at = IF job[s].again THEN "start" ELSE "started", !.prev = pointer])
    /\ UNCHANGED <<published, folder, card, runVars, History>>

\* The temporary directory cannot be removed: the request fails with the pointer swapped.
LeavesTemp(s) ==
    /\ Where(s, "swap")
    /\ pointer' = job[s].ver
    /\ card' = Failed
    /\ End(s)
    /\ UNCHANGED <<published, folder, runVars, History>>

\* The start has succeeded, or there was none to make.  A start after a roll-back ends in the
\* error of the first one.
Started(s) ==
    /\ Where(s, "started")
    /\ IF job[s].op = "enable" THEN End(s) /\ UNCHANGED card
       ELSE IF job[s].undone THEN End(s) /\ card' = Failed
       ELSE /\ Goto(s, "prune")
            /\ card' = [card EXCEPT !.status = "ready", !.version = job[s].ver]
    /\ UNCHANGED <<published, folderVars, runVars, History>>

\* The start has failed: an update goes back to the version before, once.
RollBack(s) == IF job[s].prev # 0 THEN job[s].prev ELSE pointer

Refused(s) ==
    /\ Where(s, "refused")
    /\ IF job[s].op = "update" /\ ~job[s].undone
       THEN /\ pointer' = RollBack(s)
            /\ To(s, [job[s] EXCEPT !.at = "start", !.undone = TRUE])
            /\ UNCHANGED card
       ELSE /\ card' = IF job[s].op = "enable" THEN card ELSE Failed
            /\ End(s)
            /\ UNCHANGED pointer
    /\ UNCHANGED <<published, folder, runVars, History>>

\* pruneComponentVersions(): every other version, as far as each can be removed.
OtherVersions(s) == {v \in Versions : v # job[s].ver}
Prune(s) ==
    /\ Where(s, "prune")
    /\ \E gone \in SUBSET OtherVersions(s) :
           folder' = [v \in Versions |-> IF v \in gone THEN "none" ELSE folder[v]]
    /\ End(s)
    /\ UNCHANGED <<published, pointer, card, runVars, History>>

-----------------------------------------------------------------------------
\* onion:uninstall: everything is removed, the pointer too.
Remove(s) ==
    /\ Where(s, "remove")
    /\ folder' = [v \in Versions |-> "none"]
    /\ pointer' = 0
    /\ card' = [latest |-> 0, status |-> "idle", version |-> 0]
    /\ End(s)
    /\ UNCHANGED <<published, runVars, History>>

RemoveFails(s) ==
    /\ Where(s, "remove")
    /\ \E v \in Versions : folder' = [folder EXCEPT ![v] = IF @ = "none" THEN @ ELSE "part"]
    /\ pointer' \in {pointer, 0}
    /\ damaged' = (damaged \/ <<folder', pointer'>> # folderVars)
    /\ End(s)
    /\ UNCHANGED <<published, card, runVars, jobs, mixed, met>>

-----------------------------------------------------------------------------
InstallInit ==
    /\ published = 1
    /\ \/ pointer = 1 /\ folder = [v \in Versions |-> IF v = 1 THEN "whole" ELSE "none"]
       \/ pointer = 0 /\ folder = [v \in Versions |-> "none"]
    /\ card = [latest |-> 0, status |-> "idle", version |-> 0]
    /\ mode = "idle" /\ torHandle = 0 /\ alive = {} /\ tors = 0
    /\ job = [s \in Slots |-> NoJob] /\ jobs = 0
    /\ damaged = FALSE /\ mixed = FALSE /\ met = FALSE

StartStep(s) ==
    \/ Start(s) \/ ReadPointer(s) \/ LookForProcess(s) \/ Spawn(s) \/ SocksReady(s)
    \/ ProxySet(s) \/ SocksFail(s) \/ GiveUp(s)

FilesStep(s) ==
    InstallFails(s) \/ Downloaded(s) \/ Clear(s) \/ Unpacked(s) \/ Activate(s) \/ LeavesTemp(s)

JobStep(s) ==
    \/ Checked(s) \/ CheckFails(s) \/ Stop(s) \/ Stopped(s)
    \/ StartStep(s) \/ FilesStep(s)
    \/ Started(s) \/ Refused(s) \/ Prune(s) \/ Remove(s) \/ RemoveFails(s)

InstallNext ==
    \/ \E s \in Slots : JobStep(s) \/ \E op \in Ops : Ask(s, op)
    \/ \E found \in BOOLEAN : CheckUpdates(found)
    \/ \E p \in alive : TorEnds(p)

InstallSpec == InstallInit /\ [][InstallNext]_installVars

-----------------------------------------------------------------------------
\* The current version can be started.  What takes it away has a cause: a request is just
\* replacing that very version, one has failed after it began to take it away, or two requests
\* changed the directories at once.
CurrentIsWhole ==
    pointer # 0 /\ folder[pointer] # "whole" =>
        damaged \/ mixed \/ \E s \in Slots : job[s].at = "unpack" /\ job[s].ver = pointer

\* A component shown as ready is the one that the pointer names.
ReadyIsCurrent ==
    card.status = "ready" /\ ~damaged /\ ~mixed /\ Resting => card.version = pointer /\ pointer # 0

\* A process that nobody holds is one that a request is stopping, unless two requests met.
NoStrayTor ==
    \A p \in alive :
        p = torHandle \/ met \/ \E s \in Slots : Where(s, "stopping") /\ job[s].victim = p

\* A runtime that is idle at rest has no process.
IdleIsQuiet == Resting /\ ~met /\ mode \in {"idle", "failed"} => alive = {}

\* Over failing downloads, roll-backs and removals the current version stays startable, is the
\* one that is shown, and no process is left behind.
InstallSound ==
    InstallTypeOK /\ CurrentIsWhole /\ ReadyIsCurrent /\ NoStrayTor /\ IdleIsQuiet
=============================================================================
