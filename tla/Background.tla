----------------------------- MODULE Background -----------------------------
(***************************************************************************)
(* Background work and the end of the application: BackgroundService, the  *)
(* requests it sends to the renderer, the window, the tray and the quit    *)
(* (main.ts, preload.ts, App.tsx).                                         *)
(*                                                                         *)
(* A run of the synchronisation is a request to the renderer of the first  *)
(* window, known by its number: the renderer works and reports, the main   *)
(* process gives up after thirty seconds, whichever comes first, and what  *)
(* comes later finds no run that waits for it.  The renderer may be        *)
(* reloaded, or its window closed, in between.                             *)
(*                                                                         *)
(* Abstracted: when the timer is due, what the renderer does in a run      *)
(* (SyncFlow), the shown statuses, login items.                            *)
(***************************************************************************)
EXTENDS Naturals

CONSTANTS MaxRuns, MaxWishes  \* bounds: runs of the renderer; changes of the preferences

ASSUME BackgroundAssumption == MaxRuns \in Nat /\ MaxWishes \in Nat

VARIABLES
    enabled,   \* prefs.background.enabled
    toTray,    \* prefs.login: closing the window hides it
    interval,  \* the timer of BackgroundService runs
    inFlight,  \* syncInFlight
    pending,   \* pendingSyncRuns
    working,   \* runs the renderer works on
    results,   \* reports on their way to the main process: [run |->, ok |->]
    sync,      \* syncStatus.state
    window,    \* "none", "hidden", "shown"
    quitting,  \* isQuitting
    shutdown,  \* shutdownBackgroundRuntimes: "no", "running", "done"
    gone,      \* the process has ended
    runs, wishes  \* bounds

backVars == <<enabled, toTray, interval, inFlight, pending, working, results, sync, window,
              quitting, shutdown, gone, runs, wishes>>
workVars == <<interval, inFlight, pending, working, results, sync, runs>>
endVars == <<quitting, shutdown, gone>>

Runs == 1..MaxRuns

BackgroundTypeOK ==
    /\ enabled \in BOOLEAN /\ toTray \in BOOLEAN /\ interval \in BOOLEAN
    /\ inFlight \in BOOLEAN /\ quitting \in BOOLEAN /\ gone \in BOOLEAN
    /\ pending \subseteq Runs /\ working \subseteq Runs
    /\ results \subseteq [run : Runs, ok : BOOLEAN]
    /\ sync \in {"ok", "running", "error"}
    /\ window \in {"none", "hidden", "shown"} /\ shutdown \in {"no", "running", "done"}
    /\ runs \in 0..MaxRuns /\ wishes \in 0..MaxWishes

\* whenReady: the preferences are read and applied, and the window is made.
BackgroundInit ==
    /\ enabled \in BOOLEAN /\ toTray \in BOOLEAN
    /\ interval = enabled /\ inFlight = FALSE
    /\ pending = {} /\ working = {} /\ results = {} /\ sync = "ok"
    /\ window \in {"hidden", "shown"}
    /\ quitting = FALSE /\ shutdown = "no" /\ gone = FALSE
    /\ runs = 0 /\ wishes = 0

-----------------------------------------------------------------------------
\* prefs:set: the timer is stopped, or set again, whatever the service does.
ApplyPrefs ==
    /\ ~gone /\ wishes < MaxWishes /\ wishes' = wishes + 1
    /\ window # "none"
    /\ enabled' \in BOOLEAN /\ toTray' \in BOOLEAN
    /\ interval' = enabled'
    /\ UNCHANGED <<inFlight, pending, working, results, sync, window, endVars, runs>>

EndRunKeepsTimer(status) == sync' = status /\ inFlight' = FALSE /\ interval' = interval

\* The end of runSync: the timer is set again when the service is enabled.
EndRun(status) == sync' = status /\ inFlight' = FALSE /\ interval' = (enabled \/ interval)

\* requestRendererSyncRun: the first window is asked, and the timer is as it was left;
\* without a window the run fails at once.
AskRenderer(timerLeft) ==
    \/ /\ window # "none" /\ runs < MaxRuns
       /\ runs' = runs + 1
       /\ inFlight' = TRUE /\ sync' = "running" /\ interval' = timerLeft
       /\ pending' = pending \cup {runs'} /\ working' = working \cup {runs'}
       /\ UNCHANGED results
    \/ /\ window = "none"
       /\ EndRun("error")
       /\ UNCHANGED <<pending, working, results, runs>>

\* runSync, by the renderer or from the tray.
ManualSync ==
    /\ ~gone /\ enabled /\ ~inFlight
    /\ AskRenderer(interval)
    /\ UNCHANGED <<enabled, toTray, window, endVars, wishes>>

\* The timer fires: runSync does nothing while a run is in flight.
IntervalFires ==
    /\ ~gone /\ interval
    /\ \/ ~inFlight /\ AskRenderer(FALSE)
       \/ inFlight /\ interval' = FALSE
          /\ UNCHANGED <<inFlight, pending, working, results, sync, runs>>
    /\ UNCHANGED <<enabled, toTray, window, endVars, wishes>>

\* App.tsx: the run ends, well or not, and is reported.
RendererEnds ==
    /\ ~gone
    /\ \E r \in working, ok \in BOOLEAN :
           /\ working' = working \ {r}
           /\ results' = results \cup {[run |-> r, ok |-> ok]}
    /\ UNCHANGED <<enabled, toTray, interval, inFlight, pending, sync, window, endVars, runs,
                   wishes>>

\* sync:result: a report of a run that nobody waits for is ignored.
TakeResult ==
    /\ ~gone
    /\ \E m \in results :
           /\ results' = results \ {m}
           /\ pending' = pending \ {m.run}
           /\ IF m.run \in pending THEN EndRun(IF m.ok THEN "ok" ELSE "error")
              ELSE UNCHANGED <<sync, inFlight, interval>>
    /\ UNCHANGED <<enabled, toTray, working, window, endVars, runs, wishes>>

\* Thirty seconds without a report.
GivesUp ==
    /\ ~gone
    /\ \E r \in pending : pending' = pending \ {r}
    /\ EndRun("error")
    /\ UNCHANGED <<enabled, toTray, working, results, window, endVars, runs, wishes>>

-----------------------------------------------------------------------------
\* The user closes the window: it is hidden, or destroyed with its renderer.
CloseWindow ==
    /\ ~gone /\ window # "none"
    /\ IF toTray /\ ~quitting THEN window' = "hidden" /\ UNCHANGED working
       ELSE window' = "none" /\ working' = {}
    /\ UNCHANGED <<enabled, toTray, interval, inFlight, pending, results, sync, endVars, runs,
                   wishes>>

\* The renderer is loaded anew: what it worked on is lost.
Reload ==
    /\ ~gone /\ window # "none" /\ working # {} /\ working' = {}
    /\ UNCHANGED <<enabled, toTray, interval, inFlight, pending, results, sync, window, endVars,
                   runs, wishes>>

\* The tray, a second instance or the dock: the window is shown, or made anew,
\* which reports the status of the service and so sets its timer again.
Show ==
    /\ ~gone /\ window # "shown" /\ window' = "shown"
    /\ interval' = IF window = "none" THEN enabled ELSE interval
    /\ UNCHANGED <<enabled, toTray, inFlight, pending, working, results, sync, endVars, runs,
                   wishes>>

Hide ==
    /\ ~gone /\ window = "shown" /\ window' = "hidden"
    /\ UNCHANGED <<enabled, toTray, workVars, endVars, wishes>>

-----------------------------------------------------------------------------
\* app.quit(), which the last window's end asks for as well: before-quit holds it
\* until the runtimes have been shut down.
Quit ==
    /\ ~gone
    /\ quitting' = TRUE
    /\ IF shutdown = "done"
         THEN /\ gone' = TRUE /\ window' = "none" /\ working' = {}
              /\ UNCHANGED shutdown
         ELSE /\ shutdown' = "running"
              /\ UNCHANGED <<gone, window, working>>
    /\ UNCHANGED <<enabled, toTray, interval, inFlight, pending, results, sync, runs, wishes>>

\* The shutdown ends, and quits again for whoever was held.
ShutdownDone ==
    /\ ~gone /\ shutdown = "running"
    /\ shutdown' = "done"
    /\ UNCHANGED <<enabled, toTray, workVars, window, quitting, gone, wishes>>

BackgroundNext ==
    \/ ApplyPrefs \/ ManualSync \/ IntervalFires \/ RendererEnds \/ TakeResult \/ GivesUp
    \/ CloseWindow \/ Reload \/ Show \/ Hide
    \/ Quit \/ ShutdownDone

-----------------------------------------------------------------------------
(***************************************************************************)
(* The interval never stops: while the service is enabled its timer runs   *)
(* or a run is in flight that will set it, whatever was closed, reloaded,  *)
(* switched off and on, or reported too late; and switched off it is       *)
(* silent.                                                                 *)
(***************************************************************************)
IntervalGoesOn ==
    /\ enabled => interval \/ inFlight
    /\ interval => enabled

(***************************************************************************)
(* Nobody waits for nothing: a run is in flight exactly while one request  *)
(* waits for its report or its timeout, and only then the status says so.  *)
(***************************************************************************)
OneRun ==
    /\ inFlight <=> pending # {}
    /\ \A r, s \in pending : r = s
    /\ (sync = "running") <=> inFlight

\* The application ends only after its runtimes were shut down, and it meant to.
EndsInOrder == gone => quitting /\ shutdown = "done"

BackgroundSound == BackgroundTypeOK /\ IntervalGoesOn /\ OneRun /\ EndsInOrder
=============================================================================
