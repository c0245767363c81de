------------------------------- MODULE MCDisk -------------------------------
(* What the command line changes, in one run: who is enrolled, whose names  *)
(* and constants are the module's own, and beside it the rotation of        *)
(* backups, a restore into a directory, the roots in the configuration, and *)
(* what is filed in a ledger from elsewhere. They share nothing, so one of  *)
(* them moves in each behaviour, and the others stay as they began.         *)
EXTENDS Entitlements

CONSTANTS
    Keep, Every, CatchUp, RunTime, MaxClock, MaxBackups, MaxBoots, MaxFound,   \* BackupRotation
    store1, store2, scripts1, stranger,               \* RestoreInto: two stores and a scripts archive
    RootWriters, RootInside, RootNames, RootDirs, Nowhere, MaxOps, MaxEdits,   \* RootsFile
    import1, import2, MaxRuns, MaxActs,               \* KataImport: two importers
    keys1, keys2, bridge1, NoKey, MaxItems            \* BackfillKeys: the command twice beside a bridge

VARIABLES
    part,
    clock, archive, scripts, sidecar, withScripts, rotation, take, process, taken, boots, cut, stuck,
    last,
    parent, into, staging, created, at, good, killed,
    config, readable, lock, op, init, server, event, reading, inForce, ops, edits, owed, unheard,
    kata, items, run, begun, acts, settled, promise,
    subject, backfill, bridge

Backups == INSTANCE BackupRotation
             WITH lock <- rotation, MaxStarts <- MaxBoots, starts <- boots

Into == INSTANCE RestoreInto
          WITH Stores <- {store1, store2}, Scripts <- {scripts1}, Parts <- {"first", "second"},
               Stranger <- stranger

Roots == INSTANCE RootsFile
           WITH Writers <- RootWriters, Inside <- RootInside, Names <- RootNames,
                Dirs <- RootDirs, None <- Nowhere

ASSUME RootsBounds == Roots!RootsConstants
ASSUME RotationBounds == Backups!RotationConstants
ASSUME IntoBounds == Into!IntoConstants

\* An issue in a state of its own, whose owner becomes the importer's in the later export,
\* and one that is closed there; a link is new.
Plain == [closed |-> FALSE, deleted |-> FALSE, state |-> "filed", owner |-> "none", comments |-> {}]
Flying == [Plain EXCEPT !.state = "flying", !.owner = "other"]

KataWrites == <<[issues |-> <<Flying, Plain>>, links |-> {}],
                [issues |-> <<[Flying EXCEPT !.owner = "mine", !.comments = {"c"}],
                              [Plain EXCEPT !.closed = TRUE]>>,
                 links |-> {<<2, 1>>}]>>

Import == INSTANCE KataImport
            WITH Exports <- KataWrites, Importers <- {import1, import2}

ASSUME ImportBounds == Import!ImportConstants

\* Two filings about one IRI, and between them one about two.
KeyIris == {"a", "b"}
Older == <<{"a"}, {"a", "b"}, {"a"}>>

Keys == INSTANCE BackfillKeys
          WITH Iris <- KeyIris, Legacy <- Older, Backfills <- {keys1, keys2}, Bridges <- {bridge1}

ASSUME KeysBounds == Keys!KeysConstants

backupsVars == <<clock, archive, scripts, sidecar, withScripts, rotation, take, process, taken,
                 boots, cut, stuck, last>>
intoVars == <<parent, into, staging, created, at, good, killed>>
rootsVars == <<config, readable, lock, op, init, server, event, reading, inForce, ops, edits, owed,
               unheard>>
importVars == <<kata, items, run, begun, acts, settled, promise>>
keysVars == <<subject, backfill, bridge>>
partsVars == <<part, backupsVars, intoVars, rootsVars, vars, importVars, keysVars>>

PartsInit ==
    /\ part \in {"backups", "into", "roots", "nodes", "import", "keys"}
    /\ Backups!Init /\ (part # "backups" => clock = 0 /\ ~withScripts
                                            /\ \A s \in DOMAIN archive : archive[s] # 0)
    /\ Into!Init /\ (part # "into" => parent /\ into = {} /\ good = {})
    /\ Roots!Init /\ (part # "roots" => \A n \in DOMAIN config : config[n] = Nowhere)
    /\ Init /\ Import!Init /\ Keys!Init

PartsNext ==
    /\ \/ part = "backups" /\ Backups!Next
          /\ UNCHANGED <<intoVars, rootsVars, vars, importVars, keysVars>>
       \/ part = "into" /\ Into!Next
          /\ UNCHANGED <<backupsVars, rootsVars, vars, importVars, keysVars>>
       \/ part = "roots" /\ Roots!Next
          /\ UNCHANGED <<backupsVars, intoVars, vars, importVars, keysVars>>
       \/ part = "nodes" /\ Next
          /\ UNCHANGED <<backupsVars, intoVars, rootsVars, importVars, keysVars>>
       \/ part = "import" /\ Import!Next
          /\ UNCHANGED <<backupsVars, intoVars, rootsVars, vars, keysVars>>
       \/ part = "keys" /\ Keys!Next
          /\ UNCHANGED <<backupsVars, intoVars, rootsVars, vars, importVars>>
    /\ UNCHANGED part

PartsSpec == PartsInit /\ [][PartsNext]_partsVars

-----------------------------------------------------------------------------
(* Each conjunct is stated, with the code's words, in the part's module.   *)

\* The types of the parts.
PartsTypeOK ==
    CASE part = "nodes" -> TypeOK
      [] part = "roots" -> Roots!TypeOK
      [] part = "backups" -> Backups!TypeOK
      [] part = "into" -> Into!TypeOK
      [] part = "import" -> Import!TypeOK
      [] part = "keys" -> Keys!TypeOK

\* backup.rs: wherever a backup or a prune is stopped, a sidecar vouches for its own archive
\* and scripts, the last backup published stands, and a restart postpones no run; a backup that
\* reports has pruned to `keep` archives, and no prune leaves fewer. Two things are excepted: a
\* file that a prune could not remove, and what a second backup of one second left when it
\* stopped after its archive, which then lies under the sidecar of the first. A restore comes
\* into a directory at once, whole and verified, or not at all, what it is refused for is never
\* its own leftovers, and a refused one leaves nothing.
BackupsStand ==
    /\ [](part = "backups" => /\ Backups!NoStraySidecar /\ Backups!VouchedIsWhole
                              /\ Backups!LastStands /\ Backups!RestartCostsNothing)
    /\ Backups!PrunedToKeep
    /\ Into!IntoIsOneStore /\ Into!OnlyFullIsRefused /\ [](part = "into" => Into!RefusedLeavesNothing)

\* kata.rs and keys.rs: a run of an import that finishes leaves nothing of its export out,
\* running it again changes nothing, a dry run says what a run does, and none takes what a
\* person did; a key names one subject, no tombstone is keyed, and when the keys of the older
\* items are written no bridge files those again.
FiledOnce ==
    /\ [](part = "import" => /\ Import!FinishedIsImported /\ Import!AgainIsNothing
                             /\ Import!DryRunIsTrue)
    /\ Import!PeoplesWorkStands
    /\ Keys!KeyNamesOne /\ Keys!TombstonesStay
    /\ [](part = "keys" => Keys!GapIsClosed /\ Keys!FirstStands)

\* checkout.rs and roots.rs: a root whose add was reported stays in the file, and what is in
\* force is what the file says, or a reading of it is owed.
RootsStand == part = "roots" => Roots!AddedStays /\ Roots!InForceOrDue

\* onboard.rs: of the entitlements of one certificate at most one stands, a replay of one
\* changes nothing, and an invite is spent only by an entitlement that was said; an apply that
\* no one overtook brings the enrolment to the layer, whatever an earlier one left half done,
\* and the restart that a certificate needs is told: but for a certificate whose bundle a start
\* with its door off had found unenrolled, of which the next apply says that it needs none.
EnrolmentIsTheLayers ==
    part = "nodes" =>
        OneStands /\ ReplayIsRefused /\ SpentIsSaid /\ AppliedIsEnrolled /\ RestartIsTold

\* Two nodes of one name, and one invite: the second answers it when the first approval
\* stopped before it spent it.
MCNameOf == [i \in Invites |-> "a"]
MCGivesOf == [i \in Invites |-> "gonk"]
MCLobby == Prints \X Invites
=============================================================================
