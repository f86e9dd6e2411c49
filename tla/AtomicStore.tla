----------------------------- MODULE AtomicStore ------------------------------
(***************************************************************************)
(* What the offline queue (queue.go: openQueueStore, persist) promises:    *)
(* a store whose save is one step.                                         *)
(*                                                                         *)
(* Messages only move forward in memory.  A save puts all of the memory    *)
(* into the store's file, a restart takes up what was saved, and what was  *)
(* promised to a caller is not forgotten by either.  There is one way to   *)
(* lose the file: a save that was cut off has left a copy that the next    *)
(* one removes first, and is then cut off too.                             *)
(***************************************************************************)
CONSTANTS
    Msgs,   \* message ids
    Older   \* what an older store holds, read where there is no file

VARIABLES
    memory,    \* the messages it has, and those that are done
    up,        \* whether the store is open
    there,     \* whether there is a file to read
    saved,     \* what it holds
    fragile,   \* whether the next save begins by removing it
    promised   \* messages whose callers were told that they are kept

storeVars == <<memory, up, there, saved, fragile, promised>>

\* Of the messages it has, a store knows which have reached their peers.
Contents == {c \in [has : SUBSET Msgs, done : SUBSET Msgs] : c.done \subseteq c.has}
Nothing  == [has |-> {}, done |-> {}]

StoreInit ==
    /\ memory = Nothing /\ up = FALSE
    /\ there = FALSE /\ saved = Nothing /\ fragile = FALSE
    /\ promised = {}

\* An operation changes the memory.
Change ==
    /\ up
    /\ memory' \in Contents
    /\ memory.has \subseteq memory'.has
    /\ memory.done \subseteq memory'.done
    /\ UNCHANGED <<up, there, saved, fragile, promised>>

Save ==
    /\ up
    /\ there' = TRUE /\ saved' = memory /\ fragile' = FALSE
    /\ UNCHANGED <<memory, up, promised>>

\* A caller is told that his message is kept.
Tell(m) ==
    /\ up
    /\ m \in memory.has
    /\ there => m \in saved.has
    /\ promised' = promised \cup {m}
    /\ UNCHANGED <<memory, up, there, saved, fragile>>

\* A save fails half-way, or goes on after one that did.
Weaken ==
    /\ up
    /\ there /\ fragile' \in BOOLEAN
    /\ UNCHANGED <<memory, up, there, saved, promised>>

Lose ==
    /\ up
    /\ fragile
    /\ there' = FALSE /\ saved' = Nothing /\ fragile' = FALSE
    /\ UNCHANGED <<memory, up, promised>>

Stop ==
    /\ up
    /\ up' = FALSE /\ memory' \in {memory, Nothing}
    /\ fragile' \in BOOLEAN /\ (fragile' => there)
    /\ UNCHANGED <<there, saved, promised>>

Restart ==
    /\ ~up
    /\ up' = TRUE
    /\ memory' = IF there THEN saved ELSE Older
    /\ promised' = IF there THEN promised ELSE {}
    /\ UNCHANGED <<there, saved, fragile>>

StoreNext ==
    \/ Change \/ Save \/ Weaken \/ Lose \/ Stop \/ Restart
    \/ \E m \in Msgs : Tell(m)

StoreSpec == StoreInit /\ [][StoreNext]_storeVars
=============================================================================
