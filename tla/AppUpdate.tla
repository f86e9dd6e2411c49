----------------------------- MODULE AppUpdate ------------------------------
(***************************************************************************)
(* Updates of the application (main/appUpdater.ts and the settings page).  *)
(*                                                                         *)
(* The status is whatever the last event of electron-updater said.  A      *)
(* check and a download are the updater's own and may be under way         *)
(* together: a timer checks every few hours unless the status speaks       *)
(* against it, and the status says nothing of a download before its first  *)
(* progress.  The updater joins a second check to the one under way.       *)
(*                                                                         *)
(* Left out: builds without updates, versions, notes and percentages.      *)
(***************************************************************************)

VARIABLES
    update,      \* status.state
    checking,    \* the updater is asking for the newest version
    found,       \* the updater knows of a version to download
    fetching,    \* it downloads
    file,        \* the downloaded update is on disk
    installing,  \* quitAndInstall was called
    disturbed    \* history: a check overlapped a download, or was asked for after it

updateVars == <<update, checking, found, fetching, file, installing, disturbed>>

AppUpdateTypeOK ==
    /\ update \in {"idle", "checking", "available", "current", "downloading", "downloaded",
                   "error"}
    /\ checking \in BOOLEAN /\ found \in BOOLEAN /\ fetching \in BOOLEAN
    /\ file \in BOOLEAN /\ installing \in BOOLEAN /\ disturbed \in BOOLEAN

UpdateInit ==
    /\ update = "idle"
    /\ checking = FALSE /\ found = FALSE /\ fetching = FALSE /\ file = FALSE
    /\ installing = FALSE /\ disturbed = FALSE

\* checkForUpdates(): its first event comes at once, unless a check is under way.
BeginCheck ==
    /\ ~checking
    /\ checking' = TRUE /\ update' = "checking"
    /\ UNCHANGED <<found, fetching, file, installing>>

\* The user asks.
CheckNow ==
    /\ BeginCheck
    /\ disturbed' = (disturbed \/ fetching \/ file)

\* The statuses that keep the timer from checking.
Engaged == {"checking", "downloading", "downloaded"}

\* The timer of scheduleInitialAppUpdateCheck.
CheckInTurn ==
    /\ update \notin Engaged
    /\ BeginCheck
    /\ disturbed' = (disturbed \/ fetching)

\* update-available, update-not-available, error.
CheckEnds ==
    /\ checking /\ checking' = FALSE
    /\ \E result \in {"available", "current", "error"} :
           /\ update' = result
           /\ found' = (found \/ result = "available")
    /\ UNCHANGED <<fetching, file, installing, disturbed>>

\* downloadUpdate(): the button was there when the page last heard of the status.
Download ==
    /\ found /\ ~fetching /\ update \in {"available", "checking"}
    /\ fetching' = TRUE
    /\ disturbed' = (disturbed \/ checking)
    /\ UNCHANGED <<update, checking, found, file, installing>>

Progress ==
    /\ fetching
    /\ update' = "downloading"
    /\ UNCHANGED <<checking, found, fetching, file, installing, disturbed>>

DownloadEnds ==
    /\ fetching /\ fetching' = FALSE
    /\ \/ file' = TRUE /\ update' = "downloaded"
       \/ file' = file /\ update' = "error"
    /\ UNCHANGED <<checking, found, installing, disturbed>>

\* appUpdate:install.
Install ==
    /\ update = "downloaded"
    /\ installing' = TRUE
    /\ UNCHANGED <<update, checking, found, fetching, file, disturbed>>

AppUpdateNext ==
    \/ CheckNow \/ CheckInTurn \/ CheckEnds
    \/ Download \/ Progress \/ DownloadEnds \/ Install

(***************************************************************************)
(* What is downloaded can be installed: the timer's checks do not take the *)
(* status from an update that is ready, unless one overlapped its          *)
(* download.  And what is installed was downloaded.                        *)
(***************************************************************************)
ReadyToInstall ==
    /\ file /\ ~disturbed => update = "downloaded"
    /\ installing => file

AppUpdateSound == AppUpdateTypeOK /\ ReadyToInstall
=============================================================================
