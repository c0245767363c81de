---------------------------- MODULE RestoreInto ----------------------------
(***************************************************************************)
(* Restores into one new directory, several at a time: src/src/backup.rs,  *)
(* Restore (a store, built in a Staging beside `into` and renamed there    *)
(* once it verifies) and RestoreScripts (written in place).                *)
(*                                                                         *)
(* A restore writes its parts one by one and verifies the whole; others    *)
(* restore, make directories and write files meanwhile, and the process    *)
(* can be killed between any two steps.                                    *)
(***************************************************************************)
EXTENDS Naturals, FiniteSets

CONSTANTS Stores, Scripts,   \* restores of each kind, all into the same directory
          Parts,             \* of what a restore writes
          Stranger           \* who else writes there

Restores == Stores \cup Scripts

\* Who writes can be told from what is written.
IntoConstants == Stores \cap Scripts = {} /\ Stranger \notin Restores

VARIABLES
    parent,     \* whether the directory `into` is to be in is there
    into,       \* the parts in `into`; Absent when it is not there
    staging,    \* per store restore: the parts in its temporary; Absent
    created,    \* the restores that found the parent missing
    at,         \* per restore
    good,       \* the archives that verify
    killed      \* history: restores that were killed

vars == <<parent, into, staging, created, at, good, killed>>

Absent == {<<Stranger, "absent">>}
There(dir) == dir # Absent
Whole(r) == {r} \X Parts
Go(r, from, to) == at[r] = from /\ at' = [at EXCEPT ![r] = to]

Init ==
    /\ parent \in BOOLEAN /\ into \in {Absent, {}}
    /\ There(into) => parent
    /\ staging = [r \in Stores |-> Absent] /\ created = {}
    /\ at = [r \in Restores |-> "asked"] /\ good \in SUBSET Restores
    /\ killed = {}

-----------------------------------------------------------------------------
\* check_target: absent, or an empty directory.
Check(r) ==
    /\ Go(r, "asked", IF into \in {Absent, {}} THEN "checked" ELSE "merge")
    /\ UNCHANGED <<parent, into, staging, created, good, killed>>

\* Staging::begin looks for the ancestors that are missing before it creates them.
Look(r) ==
    /\ r \in Stores /\ Go(r, "checked", "looked")
    /\ created' = IF parent THEN created ELSE created \cup {r}
    /\ UNCHANGED <<parent, into, staging, good, killed>>

MakeParent(r) ==
    /\ Go(r, "looked", "parented")
    /\ parent' = TRUE
    /\ UNCHANGED <<into, staging, created, good, killed>>

\* create_dir: another refusal may have taken the parent away.
Begin(r) ==
    /\ Go(r, "parented", IF parent THEN "loading" ELSE "refused")
    /\ staging' = IF parent THEN [staging EXCEPT ![r] = {}] ELSE staging
    /\ UNCHANGED <<parent, into, created, good, killed>>

Load(r, part) ==
    /\ r \in Stores /\ at[r] = "loading"
    /\ staging' = [staging EXCEPT ![r] = @ \cup {<<r, part>>}]
    /\ UNCHANGED <<parent, into, created, at, good, killed>>

\* load_and_verify: the graph set and the counts of what was loaded.
Verify(r) ==
    /\ r \in Stores /\ at[r] = "loading"
    /\ Go(r, "loading", IF r \in good /\ staging[r] = Whole(r) THEN "verified" ELSE "refused")
    /\ UNCHANGED <<parent, into, staging, created, good, killed>>

\* Mutant: what is there is replaced.
FinishOver(r) ==
    /\ Go(r, "verified", "restored")
    /\ into' = staging[r] \cup (IF There(into) THEN into ELSE {})
    /\ staging' = [staging EXCEPT ![r] = Absent]
    /\ UNCHANGED <<parent, created, good, killed>>

\* rename replaces an empty directory and refuses one that is not.
Finish(r) ==
    /\ IF into \in {Absent, {}}
       THEN /\ Go(r, "verified", "restored")
            /\ into' = staging[r] /\ staging' = [staging EXCEPT ![r] = Absent]
       ELSE Go(r, "verified", "refused") /\ UNCHANGED <<into, staging>>
    /\ UNCHANGED <<parent, created, good, killed>>

\* Drop: the temporary, then the ancestors it created, if nothing is in them.
Drop(r) ==
    /\ r \in Stores /\ Go(r, "refused", "over")
    /\ staging' = [staging EXCEPT ![r] = Absent]
    /\ parent' = (parent /\ ~(/\ r \in created /\ ~There(into)
                              /\ \A s \in Stores \ {r} : ~There(staging[s])))
    /\ UNCHANGED <<into, created, good, killed>>

-----------------------------------------------------------------------------
\* RestoreScripts: every file is written in place, its directories made for it.
Write(r, part) ==
    /\ r \in Scripts /\ at[r] = "checked"
    /\ parent' = TRUE
    /\ into' = (IF There(into) THEN into ELSE {}) \cup {<<r, part>>}
    /\ UNCHANGED <<staging, created, at, good, killed>>

\* The library lists exactly the archive's scripts, and reads back every one.
ReadBack(r) ==
    /\ r \in Scripts /\ There(into) /\ Whole(r) \subseteq into
    /\ Go(r, "checked", IF r \in good /\ into = Whole(r) THEN "restored" ELSE "over")
    /\ UNCHANGED <<parent, into, staging, created, good, killed>>

-----------------------------------------------------------------------------
\* Someone else writes into the directory.
Intrude ==
    /\ parent /\ into' = (IF There(into) THEN into ELSE {}) \cup {<<Stranger, "file">>}
    /\ UNCHANGED <<parent, staging, created, at, good, killed>>

\* A load or a write that fails.
Fail(r) ==
    /\ at[r] \in {"checked", "loading"}
    /\ at' = [at EXCEPT ![r] = IF r \in Stores /\ at[r] = "loading" THEN "refused" ELSE "over"]
    /\ UNCHANGED <<parent, into, staging, created, good, killed>>

Kill ==
    /\ killed' = {r \in Restores : at[r] \notin {"asked", "merge", "restored", "over"}}
    /\ killed' # {}
    /\ at' = [r \in Restores |-> IF r \in killed' THEN "over" ELSE at[r]]
    /\ UNCHANGED <<parent, into, staging, created, good>>

Next ==
    \/ \E r \in Restores : \/ Check(r) \/ Look(r) \/ MakeParent(r) \/ Begin(r) \/ Verify(r)
                           \/ Finish(r) \/ Drop(r) \/ ReadBack(r) \/ Fail(r)
                           \/ \E part \in Parts : Load(r, part) \/ Write(r, part)
    \/ Intrude \/ (killed = {} /\ Kill)

Spec == Init /\ [][Next]_vars

-----------------------------------------------------------------------------
TypeOK ==
    /\ parent \in BOOLEAN /\ created \subseteq Stores /\ good \subseteq Restores
    /\ There(into) => into \subseteq (Restores \X Parts) \cup {<<Stranger, "file">>}
    /\ \A r \in Stores : There(staging[r]) => staging[r] \subseteq Whole(r) /\ parent
    /\ There(into) => parent

\* A restore is never a merge: a store comes into `into` at once, whole and verified, and
\* nothing was there, whoever wrote there since the target was checked.
IntoIsOneStore ==
    [][\A r \in Stores : into' \cap Whole(r) # into \cap Whole(r) =>
          into \in {Absent, {}} /\ into' = Whole(r) /\ r \in good]_vars

\* A restore that was refused, and not killed, leaves nothing it built, and no ancestor it
\* created stands empty for it alone.
RefusedLeavesNothing ==
    \A r \in Stores \ killed : at[r] \in {"over", "merge"} => ~There(staging[r])

\* "A retry into the same path is not refused as a merge": only what a restore finished or
\* someone else wrote there is.
OnlyFullIsRefused ==
    [][\A r \in Stores : at[r] = "asked" /\ at'[r] = "merge" =>
          \/ <<Stranger, "file">> \in into
          \/ \E s \in Restores : at[s] = "restored" \/ (s \in Scripts /\ at[s] # "asked")]_vars

=============================================================================
