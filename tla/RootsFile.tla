----------------------------- MODULE RootsFile -----------------------------
(***************************************************************************)
(* The lines of config.toml that say what is browsed, written by several   *)
(* and followed by a running server: src/src/checkout.rs (append_roots,    *)
(* comment_out_root, lock_config, replace_file) and src/src/roots.rs       *)
(* (LiveRoots: reload, add, remove, watch_config).                         *)
(*                                                                         *)
(* Adds and removes read the file, decide and rename a new one over it     *)
(* under a lock on a file of its own, on the command line or in the server *)
(* (which then reads it again); `onboard init` and an editor do not take   *)
(* the lock.  The file is a function from names to directories: of two     *)
(* lines for a name the first is in force, and the rest are left out.      *)
(***************************************************************************)
EXTENDS Naturals

CONSTANTS
    Writers,   \* adds and removes under way at the same time
    Inside,    \* those the server was asked for
    Names, Dirs,
    None,      \* no line for a name; no text read; nobody
    MaxOps, MaxEdits   \* bounds

VARIABLES
    config,    \* the file
    readable,
    lock,      \* who holds config.toml.lock
    op,        \* per writer: what it was asked and how far it is
    init,      \* what `onboard init` read and has not written yet
    server,    \* how far the server is
    event,     \* whether the watch has heard of a change
    reading,   \* who re-reads the roots, and what was read
    inForce,
    ops, edits,
    owed,      \* history: the lines that adds reported and no one took away
    unheard    \* history: the last change came before the watch was there

bounds == <<ops, edits>>
vars == <<config, readable, lock, op, init, server, event, reading, inForce, bounds, owed, unheard>>

Empty == [n \in Names |-> None]
Texts == [Names -> Dirs \cup {None}]
Idle == [at |-> "idle"]
NoReading == [by |-> None]
Watch == "watch"

\* Neither nobody nor the watch is a writer.
RootsConstants == Inside \subseteq Writers /\ {None, Watch} \cap Writers = {}

Init ==
    /\ config \in Texts /\ readable = TRUE
    /\ lock = None /\ op = [w \in Writers |-> Idle] /\ init = None
    /\ server = "starting" /\ event = FALSE
    /\ reading = NoReading /\ inForce = Empty
    /\ ops = 0 /\ edits = 0
    /\ owed = {} /\ unheard = FALSE

\* Every rename over the file, and every change of it, is an event of the directory.
Change(text) ==
    /\ config' = text
    /\ event' = (event \/ server = "watching")
    /\ unheard' = IF server = "watching" THEN FALSE ELSE unheard \/ server = "mounted"

-----------------------------------------------------------------------------
(* append_roots and comment_out_root                                       *)

AskAdd(w, n, d) ==
    /\ op[w] = Idle /\ ops < MaxOps /\ ops' = ops + 1
    /\ w \in Inside => server = "watching"
    /\ op' = [op EXCEPT ![w] = [at |-> "asked", add |-> TRUE, name |-> n, dir |-> d,
                                text |-> None]]
    /\ UNCHANGED <<config, readable, lock, init, server, event, reading, inForce, edits, owed,
                   unheard>>

AskRemove(w, n) ==
    /\ op[w] = Idle /\ ops < MaxOps /\ ops' = ops + 1
    /\ w \in Inside => server = "watching"
    /\ op' = [op EXCEPT ![w] = [at |-> "asked", add |-> FALSE, name |-> n, dir |-> None,
                                text |-> None]]
    /\ UNCHANGED <<config, readable, lock, init, server, event, reading, inForce, edits, owed,
                   unheard>>

\* Mutant: no lock is waited for.
LockNothing(w) ==
    /\ op[w].at = "asked"
    /\ lock' = w
    /\ op' = [op EXCEPT ![w].at = "locked"]
    /\ UNCHANGED <<config, readable, init, server, event, reading, inForce, bounds, owed,
                   unheard>>

LockConfig(w) ==
    /\ op[w].at = "asked" /\ lock = None
    /\ lock' = w
    /\ op' = [op EXCEPT ![w].at = "locked"]
    /\ UNCHANGED <<config, readable, init, server, event, reading, inForce, bounds, owed, unheard>>

Unlock(w) == lock' = IF lock = w THEN None ELSE lock

\* A file that cannot be read fails the add or the remove.
ReadText(w) ==
    /\ op[w].at = "locked"
    /\ IF readable
       THEN op' = [op EXCEPT ![w].at = "read", ![w].text = config] /\ UNCHANGED lock
       ELSE op' = [op EXCEPT ![w] = Idle] /\ Unlock(w)
    /\ UNCHANGED <<config, readable, init, server, event, reading, inForce, bounds, owed, unheard>>

\* What the line of the name becomes: one already there is never rewritten.
Decide(o) == IF ~o.add THEN None
             ELSE IF o.text[o.name] = None THEN o.dir ELSE o.text[o.name]

\* The new text is the text that was READ, with that line; no line to change, no write.
Rename(w) ==
    /\ op[w].at = "read"
    /\ LET o == op[w]
           new == [o.text EXCEPT ![o.name] = Decide(o)]
       IN  /\ IF new = o.text THEN UNCHANGED <<config, event, unheard>> ELSE Change(new)
           /\ owed' = {line \in owed : new = o.text \/ line[1] # o.name}
                      \cup (IF o.add /\ config'[o.name] = o.dir THEN {<<o.name, o.dir>>} ELSE {})
    /\ Unlock(w)
    /\ op' = [op EXCEPT ![w] = IF w \in Inside /\ ~(op[w].add /\ Decide(op[w]) # op[w].dir)
                               THEN [@ EXCEPT !.at = "written"] ELSE Idle]
    /\ UNCHANGED <<readable, init, server, reading, inForce, bounds>>

-----------------------------------------------------------------------------
(* Those who do not take the lock.                                         *)

Kept(text) == {line \in owed : text[line[1]] = line[2]}

\* An editor: lines of its own, or the file out of reach for a while.
EditByHand(text) ==
    /\ edits < MaxEdits /\ edits' = edits + 1
    /\ Change(text) /\ owed' = Kept(text)
    /\ readable' \in BOOLEAN
    /\ UNCHANGED <<lock, op, init, server, reading, inForce, ops>>

MakeReadable ==
    /\ ~readable /\ readable' = TRUE
    /\ Change(config)
    /\ UNCHANGED <<lock, op, init, server, reading, inForce, bounds, owed>>

\* `onboard init` writes lines of other keys into the text it read.
InitReads ==
    /\ init = None /\ readable /\ edits < MaxEdits /\ edits' = edits + 1
    /\ init' = config
    /\ UNCHANGED <<config, readable, lock, op, server, event, reading, inForce, ops, owed, unheard>>

InitWrites ==
    /\ init # None /\ init' = None
    /\ Change(init) /\ owed' = Kept(init)
    /\ UNCHANGED <<readable, lock, op, server, reading, inForce, bounds>>

-----------------------------------------------------------------------------
(* The server.                                                             *)

\* The settings are read and their roots mounted ...
Mount ==
    /\ server = "starting" /\ readable
    /\ server' = "mounted" /\ inForce' = config
    /\ UNCHANGED <<config, readable, lock, op, init, event, reading, bounds, owed, unheard>>

\* ... and the directory of the file is watched when the doors are up.
WatchConfig ==
    /\ server = "mounted" /\ server' = "watching"
    /\ UNCHANGED <<config, readable, lock, op, init, event, reading, inForce, bounds, owed, unheard>>

\* reload, up to the reading, with the state held.
BeginReload(by) ==
    /\ reading = NoReading
    /\ reading' = [by |-> by, text |-> IF readable THEN config ELSE inForce]

\* A burst of events is one: it is taken BEFORE the file is read.
Settle ==
    /\ server = "watching" /\ event /\ event' = FALSE
    /\ BeginReload(Watch)
    /\ UNCHANGED <<config, readable, lock, op, init, server, inForce, bounds, owed, unheard>>

Reload(w) ==
    /\ op[w].at = "written"
    /\ BeginReload(w)
    /\ op' = [op EXCEPT ![w].at = "reloading"]
    /\ UNCHANGED <<config, readable, lock, init, server, event, inForce, bounds, owed, unheard>>

Apply ==
    /\ reading # NoReading /\ reading' = NoReading
    /\ inForce' = reading.text
    /\ op' = [w \in Writers |-> IF w = reading.by THEN Idle ELSE op[w]]
    /\ UNCHANGED <<config, readable, lock, init, server, event, bounds, owed, unheard>>

-----------------------------------------------------------------------------
Write(w) == LockConfig(w) \/ ReadText(w) \/ Rename(w) \/ Reload(w)

Next ==
    \/ \E w \in Writers : \/ Write(w)
                          \/ \E n \in Names : AskRemove(w, n) \/ \E d \in Dirs : AskAdd(w, n, d)
    \/ \E text \in Texts : EditByHand(text)
    \/ MakeReadable \/ InitReads \/ InitWrites
    \/ Mount \/ WatchConfig \/ Settle \/ Apply

Spec == Init /\ [][Next]_vars

-----------------------------------------------------------------------------
TypeOK ==
    /\ {config, inForce} \subseteq Texts
    /\ lock \in Writers \cup {None}
    /\ \A w \in Writers : op[w].at \in {"locked", "read"} <=> lock = w

\* ledger #2783: the line of an add that was reported stays in the file, whatever adds and
\* removes of other names run beside it, until a remove of it, an editor or an unlocked
\* writer takes it away.
AddedStays == \A line \in owed : config[line[1]] = line[2]

\* What is in force is the file, or a reading of it is owed: no order of events and of
\* readings asked for leaves an older text in force. A change before the watch is unheard.
InForceOrDue ==
    server = "watching" /\ ~unheard /\ readable =>
        inForce = config \/ event \/ reading # NoReading

=============================================================================
