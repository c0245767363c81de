----------------------------- MODULE FileCache -----------------------------
(***************************************************************************)
(* The parse of an authority file, shared by every request and kept by the *)
(* version of the file: src/src/file_cache.rs (FileCache::get_optional).   *)
(*                                                                         *)
(* A file is edited in place, replaced by a rename or removed while it is  *)
(* opened, looked at and read.  Its text is two halves, each the number of *)
(* the write it is from; a text of two numbers is torn.  Where the clock   *)
(* of the file system is fine every write moves it; where it is coarse the *)
(* stamps have no fraction and the text itself is the version.             *)
(***************************************************************************)
EXTENDS Naturals

CONSTANTS Readers, Inodes, Nobody,
          Attempts,            \* how often a request looks: three
          MaxWrites, MaxAsks   \* bounds

\* What is assumed of them: no inode is numbered 0, a request looks at least once.
FileConstants ==
    /\ Inodes \subseteq Nat \ {0} /\ Inodes # {}
    /\ Nobody \notin Readers
    /\ Attempts \in Nat \ {0} /\ {MaxWrites, MaxAsks} \subseteq Nat

VARIABLES
    path,      \* the inode the path names; 0 when it names none
    inodes,    \* per inode: its text and when it was last written
    coarse,    \* whether times are whole seconds
    time, writes,
    editing,   \* the inode that is half rewritten; 0 when none is
    entry,     \* what is kept: a version and the text it was parsed from
    lock,      \* who writes the entry
    get, asks

file == <<path, inodes, coarse, time, writes, editing>>
vars == <<file, entry, lock, get, asks>>

Unread == <<0, 0>>
Idle == [at |-> "idle"]

StampOf(i) == <<i, inodes[i].time>>

Go(r, to) == get' = [get EXCEPT ![r].at = to]
Is(r, at) == get[r].at = at

Init ==
    /\ path \in {0, CHOOSE i \in Inodes : TRUE}
    /\ inodes = [i \in Inodes |-> [text |-> <<1, 1>>, time |-> 1]]
    /\ coarse \in BOOLEAN /\ time = 1 /\ writes = 1 /\ editing = 0
    /\ entry = [version |-> Unread, text |-> Unread]
    /\ lock = Nobody
    /\ get = [r \in Readers |-> Idle] /\ asks = [r \in Readers |-> 0]

-----------------------------------------------------------------------------
(* get_optional                                                            *)

Ask(r) ==
    /\ get[r].at \in {"idle", "answered"} /\ asks[r] < MaxAsks
    /\ asks' = [asks EXCEPT ![r] = @ + 1]
    /\ get' = [get EXCEPT ![r] = [at |-> "opening", left |-> Attempts, handle |-> 0,
                                  stamp |-> Unread, version |-> Unread, text |-> Unread,
                                  asOf |-> IF path = 0 THEN <<writes, writes>>
                                                       ELSE inodes[path].text]]
    /\ UNCHANGED <<file, entry, lock>>

Answer(r, text) == get' = [get EXCEPT ![r].at = "answered", ![r].text = text, ![r].handle = 0]

\* Every lookup opens the file: one that is gone is never answered from the cache.
Open(r) ==
    /\ Is(r, "opening")
    /\ IF path = 0 THEN Answer(r, Unread)
       ELSE get' = [get EXCEPT ![r].at = "open", ![r].handle = path]
    /\ UNCHANGED <<file, entry, lock, asks>>

\* A coarse stamp is no version: the text is read for one.
Stat(r) ==
    /\ Is(r, "open")
    /\ get' = [get EXCEPT ![r].at = IF coarse THEN "reading" ELSE "looking",
                          ![r].stamp = StampOf(get[r].handle),
                          ![r].version = IF coarse THEN Unread ELSE StampOf(get[r].handle)]
    /\ UNCHANGED <<file, entry, lock, asks>>

Hit(r) == entry.version = get[r].version

Look(r) ==
    /\ Is(r, "looking") /\ lock = Nobody
    /\ IF Hit(r) THEN Answer(r, entry.text) ELSE Go(r, "missing")
    /\ UNCHANGED <<file, entry, lock, asks>>

LockEntry(r) ==
    /\ Is(r, "missing") /\ lock = Nobody
    /\ Go(r, "locked") /\ lock' = r
    /\ UNCHANGED <<file, entry, asks>>

\* Another request may have filled it meanwhile.
LookAgain(r) ==
    /\ Is(r, "locked")
    /\ IF Hit(r) THEN Answer(r, entry.text) /\ lock' = Nobody
                 ELSE Go(r, IF coarse THEN "checking" ELSE "reading") /\ UNCHANGED lock
    /\ UNCHANGED <<file, entry, asks>>

ReadFirst(r) ==
    /\ Is(r, "reading")
    /\ get' = [get EXCEPT ![r].at = "halfway", ![r].text[1] = inodes[get[r].handle].text[1]]
    /\ UNCHANGED <<file, entry, lock, asks>>

ReadSecond(r) ==
    /\ Is(r, "halfway")
    /\ LET text == <<get[r].text[1], inodes[get[r].handle].text[2]>>
       IN  get' = [get EXCEPT ![r].at = IF coarse THEN "looking" ELSE "checking",
                              ![r].text = text,
                              ![r].version = IF coarse THEN text ELSE @]
    /\ UNCHANGED <<file, entry, lock, asks>>

\* The file changed while it was read: again, so many times in all.
Retry(r) ==
    /\ get' = IF get[r].left = 1 THEN [get EXCEPT ![r].at = "answered", ![r].text = Unread,
                                                  ![r].handle = 0]
              ELSE [get EXCEPT ![r].at = "opening", ![r].left = @ - 1, ![r].text = Unread,
                               ![r].handle = 0]
    /\ lock' = Nobody

\* Still the version that was looked at, of the file that was opened ...
CheckHandle(r) ==
    /\ Is(r, "checking")
    /\ IF StampOf(get[r].handle) = get[r].stamp THEN Go(r, "checked") /\ UNCHANGED lock
                                                ELSE Retry(r)
    /\ UNCHANGED <<file, entry, asks>>

\* ... and of the path; one that is gone is an error.
CheckPath(r) ==
    /\ Is(r, "checked")
    /\ \/ path = 0 /\ Answer(r, Unread) /\ lock' = Nobody
       \/ path # 0 /\ StampOf(path) = get[r].stamp /\ Go(r, "parsing") /\ UNCHANGED lock
       \/ path # 0 /\ StampOf(path) # get[r].stamp /\ Retry(r)
    /\ UNCHANGED <<file, entry, asks>>

\* Mutant: the version kept is the one the path has now.
ParseAsNow(r) ==
    /\ Is(r, "parsing")
    /\ entry' = [version |-> IF coarse \/ path = 0 THEN get[r].version ELSE StampOf(path),
                 text |-> get[r].text]
    /\ Answer(r, get[r].text) /\ lock' = Nobody
    /\ UNCHANGED <<file, asks>>

Parse(r) ==
    /\ Is(r, "parsing")
    /\ entry' = [version |-> get[r].version, text |-> get[r].text]
    /\ Answer(r, get[r].text) /\ lock' = Nobody
    /\ UNCHANGED <<file, asks>>

\* A text that does not parse, a read that fails: an error, and what is kept stays.
Malformed(r) ==
    /\ get[r].at \in {"parsing", "reading", "halfway"}
    /\ Answer(r, Unread) /\ lock' = (IF lock = r THEN Nobody ELSE lock)
    /\ UNCHANGED <<file, entry, asks>>

-----------------------------------------------------------------------------
(* Whoever writes the file, one at a time.                                 *)

Held == {get[r].handle : r \in {s \in Readers : get[s] # Idle}}

Writes ==
    /\ writes < MaxWrites /\ editing = 0 /\ writes' = writes + 1
    /\ time' \in (IF coarse THEN {time, time + 1} ELSE {time + 1})
    /\ UNCHANGED <<coarse, entry, lock, get, asks>>

Edit ==
    /\ path # 0 /\ Writes /\ editing' = path
    /\ inodes' = [inodes EXCEPT ![path].text[1] = writes', ![path].time = time']
    /\ UNCHANGED path

EditRest ==
    /\ editing # 0 /\ editing' = 0
    /\ time' \in (IF coarse THEN {time, time + 1} ELSE {time + 1})
    /\ inodes' = [inodes EXCEPT ![editing].text[2] = writes, ![editing].time = time']
    /\ UNCHANGED <<path, coarse, writes, entry, lock, get, asks>>

\* By a rename; an inode that no one holds is used again.
Replace ==
    /\ Writes /\ UNCHANGED editing
    /\ \E i \in Inodes \ (Held \cup {path}) :
          /\ path' = i
          /\ inodes' = [inodes EXCEPT ![i] = [text |-> <<writes', writes'>>, time |-> time']]

Remove ==
    /\ path # 0 /\ path' = 0 /\ Writes
    /\ UNCHANGED <<inodes, editing>>

-----------------------------------------------------------------------------
Serve(r) ==
    \/ Open(r) \/ Stat(r) \/ Look(r) \/ LockEntry(r) \/ LookAgain(r) \/ ReadFirst(r)
    \/ ReadSecond(r) \/ CheckHandle(r) \/ CheckPath(r) \/ Parse(r) \/ Malformed(r)

Next ==
    \/ \E r \in Readers : Ask(r) \/ Serve(r)
    \/ Edit \/ EditRest \/ Replace \/ Remove

Spec == Init /\ [][Next]_vars

-----------------------------------------------------------------------------
TypeOK ==
    /\ path \in Inodes \cup {0} /\ editing \in Inodes \cup {0}
    /\ lock \in Readers \cup {Nobody}
    /\ \A r \in Readers : get[r] # Idle =>
         /\ get[r].left \in 1 .. Attempts /\ get[r].handle \in Inodes \cup {0}
         /\ get[r].at \in {"locked", "checking", "checked", "parsing"} => lock = r

\* An answer is of the file as it was when it was asked for or later: an authority that was
\* withdrawn before a request is never honoured for it, whoever parsed the file before.
AnswerIsCurrent ==
    \A r \in Readers : Is(r, "answered") /\ get[r].text # Unread =>
        get[r].text[1] >= get[r].asOf[1] /\ get[r].text[2] >= get[r].asOf[2]

\* Where the clock is fine, no text of two writes is kept or answered unless the file
\* itself stood half written.
NeverTorn ==
    \A r \in Readers : ~coarse /\ Is(r, "answered") =>
        get[r].text[1] = get[r].text[2] \/ get[r].text[1] = get[r].text[2] + 1

\* What is kept under a version is the text of that version.
KeptIsItsVersion ==
    ~coarse /\ entry.version # Unread =>
        LET i == entry.version[1]
        IN  StampOf(i) = entry.version => inodes[i].text = entry.text

=============================================================================
