--------------------------- MODULE PermissionReset ---------------------------
(***************************************************************************)
(* scripts/backup_permissions.py and scripts/permission_reset.py for one   *)
(* pairing: a backup of the OneLake data access roles and of the grants of *)
(* Unity Catalog, cleanup, and restore from the backup file.  An operator  *)
(* runs one script at a time and keeps one file; administrators go on with *)
(* their work.  The privileges of a principal on a securable are one here, *)
(* as they are revoked and granted together.                               *)
(***************************************************************************)
EXTENDS Naturals

CONSTANTS
  Items,             \* items of the workspace with the name of the catalog
  Roles,             \* data access roles, with what is in them
  Securables,        \* the catalog, its schemas and tables
  Ordinary, BuiltIn, SystemGenerated,   \* kinds of principals
  NoFile, Unread,
  MaxEdits           \* bound: what administrators do

Principals == Ordinary \cup BuiltIn \cup SystemGenerated

ASSUME ResetAssumption ==
  /\ \A p \in SystemGenerated : p \notin BuiltIn /\ p \notin Ordinary
  /\ \A p \in BuiltIn : p \notin Ordinary
  /\ Items \cap Securables = {}
  /\ MaxEdits \in Nat

VARIABLES
  dar,       \* dar[i]: the data access roles of item i
  grants,    \* grants[s]: who has privileges on securable s
  file,      \* the backup file
  script,    \* which script runs, with its options
  left,      \* the items and securables it has not done yet
  hand,      \* what it has just read of one of them
  draft,     \* what a backup has read so far
  given,     \* ghost: what administrators made of the protected principals
  opened,    \* ghost: a cleanup ran with --include-system
  restored,  \* ghost: how the restore that was started last is going
  edits      \* ghost: how often administrators did something

resetVars == <<dar, grants, file, script, left, hand, draft, given, opened, restored, edits>>

-----------------------------------------------------------------------------
(* Data *)

\* A backup: what was read, for the items and securables it has read, and (ghost)
\* what administrators have changed since.  A GET of Fabric that fails reads as [],
\* one of Unity Catalog as no grants.
Backup == [roles : [Items -> SUBSET Roles], grants : [Securables -> SUBSET Principals],
           ok : SUBSET (Items \cup Securables),
           changed : SUBSET ((Items \X Roles) \cup (Securables \X Principals))]

ASSUME NoFileIsNone == NoFile \notin Backup

NothingRead ==
  [roles |-> [i \in Items |-> {}], grants |-> [s \in Securables |-> {}], ok |-> {}, changed |-> {}]

Script == [name : {"none", "backup", "cleanup", "restore"}, apply : BOOLEAN, system : BOOLEAN]
NoScript == [name |-> "none", apply |-> FALSE, system |-> FALSE]

Protected == BuiltIn \cup SystemGenerated

ResetTypeOK ==
  /\ dar \in [Items -> SUBSET Roles]
  /\ grants \in [Securables -> SUBSET Principals]
  /\ file \in Backup \cup {NoFile}
  /\ script \in Script
  /\ left \subseteq Items \cup Securables
  /\ hand = Unread \/ hand \in [of : Items \cup Securables, read : SUBSET (Roles \cup Principals)]
  /\ draft \in Backup
  /\ given \in [Securables -> SUBSET Protected]
  /\ opened \in BOOLEAN /\ restored \in {"no", "so far", "yes"}
  /\ edits \in 0..MaxEdits

ResetInit ==
  /\ dar \in [Items -> SUBSET Roles]
  /\ grants \in [Securables -> SUBSET Principals]
  /\ file = NoFile
  /\ script = NoScript /\ left = {} /\ hand = Unread
  /\ draft = NothingRead
  /\ given = [s \in Securables |-> grants[s] \cap Protected]
  /\ opened = FALSE /\ restored = "no"
  /\ edits = 0

Platforms == <<dar, grants>>
Ghosts == <<given, edits>>

\* A script that starts: what it will go through, in some order.
Begin(name, apply, system, targets) ==
  /\ script.name = "none"
  /\ script' = [name |-> name, apply |-> apply, system |-> system]
  /\ left' = targets
  /\ hand' = Unread
  /\ restored' = IF name = "restore" /\ apply THEN "so far" ELSE "no"

\* It ends before its end: a listing fails, a call that is not caught raises, or it
\* is killed.
ScriptEnds ==
  /\ script.name # "none"
  /\ script' = NoScript /\ left' = {} /\ hand' = Unread /\ draft' = NothingRead
  /\ restored' = "no"
  /\ UNCHANGED <<Platforms, file, Ghosts, opened>>

-----------------------------------------------------------------------------
(* backup_permissions.py *)

BeginBackup ==
  /\ Begin("backup", FALSE, FALSE, Items \cup Securables)
  /\ UNCHANGED <<Platforms, file, draft, Ghosts, opened>>

Capture(x) ==
  /\ script.name = "backup" /\ x \in left
  /\ left' = left \ {x}
  /\ \/ draft' = [draft EXCEPT !.ok = @ \cup {x},
                     !.roles = [i \in Items |-> IF i = x THEN dar[i] ELSE @[i]],
                     !.grants = [s \in Securables |-> IF s = x THEN grants[s] ELSE @[s]]]
     \/ UNCHANGED draft
  /\ UNCHANGED <<Platforms, file, script, hand, Ghosts, opened, restored>>

\* The file is written at the end; the operator keeps it or the one there was.
WriteFile ==
  /\ script.name = "backup" /\ left = {}
  /\ file' \in {file, draft}
  /\ script' = NoScript /\ draft' = NothingRead
  /\ UNCHANGED <<Platforms, left, hand, Ghosts, opened, restored>>

-----------------------------------------------------------------------------
(* permission_reset.py cleanup *)

\* --side, --apply, --include-system.
BeginCleanup ==
  /\ \E apply, system \in BOOLEAN, targets \in {Items, Securables, Items \cup Securables} :
       /\ Begin("cleanup", apply, system, targets)
       /\ opened' = (opened \/ (system /\ apply))
  /\ UNCHANGED <<Platforms, file, draft, Ghosts>>

\* A GET; if it fails, on either side, the script goes on with the next.
ReadForCleanup(x) ==
  /\ script.name = "cleanup" /\ x \in left /\ hand = Unread
  /\ left' = left \ {x}
  /\ \/ hand' = [of |-> x, read |-> IF x \in Items THEN dar[x] ELSE grants[x]]
     \/ UNCHANGED hand
  /\ UNCHANGED <<Platforms, file, script, draft, Ghosts, opened, restored>>

\* Faulty: --include-system lets all of them go.
Revocable_All(read) == read \ (IF script.system THEN {} ELSE Protected)

\* Principals whose privileges go: never those the API could not give back, and the
\* built-in ones only if asked to.
Revocable(read) == read \ (SystemGenerated \cup IF script.system THEN {} ELSE BuiltIn)

ClearItem ==
  /\ script.name = "cleanup" /\ hand # Unread /\ hand.of \in Items
  /\ hand' = Unread
  /\ IF script.apply /\ hand.read # {}
     THEN dar' = [dar EXCEPT ![hand.of] = {}]
     ELSE UNCHANGED dar
  /\ UNCHANGED <<grants, file, script, left, draft, Ghosts, opened, restored>>

RevokeSecurable ==
  /\ script.name = "cleanup" /\ hand # Unread /\ hand.of \in Securables
  /\ hand' = Unread
  /\ IF script.apply
     THEN grants' = [grants EXCEPT ![hand.of] = @ \ Revocable(hand.read)]
     ELSE UNCHANGED grants
  /\ UNCHANGED <<dar, file, script, left, draft, Ghosts, opened, restored>>

CleanupEnds ==
  /\ script.name = "cleanup" /\ left = {} /\ hand = Unread
  /\ script' = NoScript
  /\ UNCHANGED <<Platforms, file, left, hand, draft, Ghosts, opened, restored>>

-----------------------------------------------------------------------------
(* permission_reset.py restore *)

BeginRestore ==
  /\ file # NoFile
  /\ \E apply \in BOOLEAN : Begin("restore", apply, FALSE, Items \cup Securables)
  /\ UNCHANGED <<Platforms, file, draft, Ghosts, opened>>

\* Faulty: an empty list is put as well.
RestoreItem_Empty(i) ==
  /\ script.name = "restore" /\ i \in left \cap Items
  /\ left' = left \ {i}
  /\ IF script.apply THEN dar' = [dar EXCEPT ![i] = file.roles[i]] ELSE UNCHANGED dar
  /\ UNCHANGED <<grants, file, script, hand, draft, Ghosts, opened, restored>>

\* The roles are put if the backup has any; a PUT that fails ends the script, and is
\* ScriptEnds, before or after this step.
RestoreItem(i) ==
  /\ script.name = "restore" /\ i \in left \cap Items
  /\ left' = left \ {i}
  /\ IF script.apply /\ file.roles[i] # {}
     THEN dar' = [dar EXCEPT ![i] = file.roles[i]]
     ELSE UNCHANGED dar
  /\ UNCHANGED <<grants, file, script, hand, draft, Ghosts, opened, restored>>

\* Faulty: whatever is preserved by cleanup is not restored.
Restorable_NoBuiltIn(read) == read \ Protected

Restorable(read) == read \ SystemGenerated

\* The Fabric side comes first.
RestoreSecurable(s) ==
  /\ script.name = "restore" /\ s \in left /\ s \in Securables /\ left \cap Items = {}
  /\ left' = left \ {s}
  /\ IF script.apply
     THEN grants' = [grants EXCEPT ![s] = @ \cup Restorable(file.grants[s])]
     ELSE UNCHANGED grants
  /\ UNCHANGED <<dar, file, script, hand, draft, Ghosts, opened, restored>>

\* A PATCH that fails is printed, and the restore goes on.
RestoreSecurableFails(s) ==
  /\ script.name = "restore" /\ script.apply
  /\ s \in left /\ s \in Securables /\ left \cap Items = {}
  /\ Restorable(file.grants[s]) # {}
  /\ left' = left \ {s}
  /\ restored' = "no"
  /\ \/ grants' = [grants EXCEPT ![s] = @ \cup Restorable(file.grants[s])]
     \/ UNCHANGED grants
  /\ UNCHANGED <<dar, file, script, hand, draft, Ghosts, opened>>

RestoreEnds ==
  /\ script.name = "restore" /\ left = {}
  /\ script' = NoScript
  /\ restored' = IF restored = "so far" THEN "yes" ELSE restored
  /\ UNCHANGED <<Platforms, file, left, hand, draft, Ghosts, opened>>

-----------------------------------------------------------------------------
(* Administrators, who give and take *)

Noted(backup, change) == [backup EXCEPT !.changed = @ \cup {change}]

Edit(change) ==
  /\ edits < MaxEdits
  /\ edits' = edits + 1
  /\ file' = IF file = NoFile THEN NoFile ELSE Noted(file, change)
  /\ draft' = IF change[1] \in draft.ok THEN Noted(draft, change) ELSE draft
  /\ UNCHANGED <<script, left, hand, opened, restored>>

Other(set, e) == IF e \in set THEN set \ {e} ELSE set \cup {e}

EditRole(i, r) ==
  /\ dar' = [dar EXCEPT ![i] = Other(@, r)]
  /\ Edit(<<i, r>>)
  /\ UNCHANGED <<grants, given>>

EditGrant(s, p) ==
  /\ grants' = [grants EXCEPT ![s] = Other(@, p)]
  /\ given' = [given EXCEPT ![s] = IF p \notin Protected THEN @
                                   ELSE IF p \in grants[s] THEN @ \ {p} ELSE @ \cup {p}]
  /\ Edit(<<s, p>>)
  /\ UNCHANGED dar

ResetNext ==
  \/ BeginBackup \/ BeginCleanup \/ BeginRestore \/ ScriptEnds
  \/ \E x \in Items \cup Securables : Capture(x) \/ ReadForCleanup(x)
  \/ WriteFile \/ ClearItem \/ RevokeSecurable \/ CleanupEnds
  \/ \E i \in Items : RestoreItem(i)
  \/ \E s \in Securables : RestoreSecurable(s) \/ RestoreSecurableFails(s)
  \/ RestoreEnds
  \/ \E i \in Items, r \in Roles : EditRole(i, r)
  \/ \E s \in Securables, p \in Principals : EditGrant(s, p)

ResetSpec == ResetInit /\ [][ResetNext]_resetVars

-----------------------------------------------------------------------------
(* Whatever is cleaned up, by any script, killed at any time: what the API could
   not give back is as administrators left it, and built-in principals keep what
   they have unless a cleanup was told to include them. *)
ProtectedStay ==
  \A s \in Securables :
    /\ grants[s] \cap SystemGenerated = given[s] \cap SystemGenerated
    /\ opened \/ given[s] \subseteq grants[s]

\* After a restore that went through, everything that the backup had read is there
\* again, unless administrators have changed it since: whatever cleanups, partial
\* restores and other backups came in between.
RestoreBringsBack ==
  restored = "yes" =>
    /\ \A i \in Items \cap file.ok, r \in Roles :
         r \in file.roles[i] /\ <<i, r>> \notin file.changed => r \in dar[i]
    /\ \A s \in Securables \cap file.ok, p \in Principals :
         p \in file.grants[s] /\ <<s, p>> \notin file.changed => p \in grants[s]

\* A restore replaces the roles of an item as a whole.  It takes away only what
\* administrators have made since the backup: above all, an item whose roles could
\* not be read for the backup loses nothing.
RestoreLosesOnlyNewer ==
  [][script.name = "restore" =>
       \A i \in Items : \A r \in dar[i] \ dar'[i] : <<i, r>> \in file'.changed]_resetVars
==============================================================================
