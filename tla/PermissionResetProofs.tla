------------------------ MODULE PermissionResetProofs ------------------------
(***************************************************************************)
(* Proofs about PermissionReset, for any items, roles, securables and      *)
(* principals, and any number of edits.                                    *)
(*                                                                         *)
(* The file, and the backup that is being taken, are inductive only with   *)
(* what administrators have changed since each entry was read.             *)
(***************************************************************************)
EXTENDS PermissionReset, TLAPS

-----------------------------------------------------------------------------
(* The inductive invariant *)

Control ==
  /\ script.name # "backup" => draft = NothingRead
  /\ script.name = "restore" => file # NoFile
  /\ script.name = "cleanup" /\ script.apply /\ script.system => opened
  /\ restored = "so far" => script.name = "restore" /\ script.apply
  /\ restored = "yes" => script.name = "none" /\ left = {} /\ file # NoFile

\* An entry of a backup that is no longer true has been changed by administrators,
\* as far as nobody else could have changed it.
Overtaken(b) ==
  /\ \A i \in Items : i \notin b.ok => b.roles[i] = {}
  /\ \A s \in Securables : s \notin b.ok => b.grants[s] = {}
  /\ \A i \in Items : \A r \in dar[i] :
       b.roles[i] # {} /\ r \notin b.roles[i] => <<i, r>> \in b.changed
  /\ \A s \in Securables : \A p \in SystemGenerated :
       p \in b.grants[s] /\ p \notin grants[s] => <<s, p>> \in b.changed

\* What a restore has done so far.
Progress ==
  restored # "no" =>
    /\ \A i \in Items \ left : \A r \in file.roles[i] :
         <<i, r>> \notin file.changed => r \in dar[i]
    /\ \A s \in Securables \ left : \A p \in file.grants[s] :
         <<s, p>> \notin file.changed => p \in grants[s]

ResetInv ==
  /\ ResetTypeOK /\ Control /\ ProtectedStay /\ Progress
  /\ Overtaken(draft)
  /\ file # NoFile => Overtaken(file)

LEMMA InvBringsBack == ResetInv => RestoreBringsBack
<1>1. SUFFICES ASSUME ResetInv, restored = "yes" PROVE RestoreBringsBack
  BY DEF RestoreBringsBack
<1>2. left = {}
  BY <1>1 DEF ResetInv, Control
<1>3. QED
  BY <1>1, <1>2 DEF ResetInv, Progress, RestoreBringsBack

-----------------------------------------------------------------------------
(* Types *)

LEMMA NothingReadTyped == NothingRead \in Backup
BY DEF NothingRead, Backup

LEMMA NotedTyped ==
  ASSUME NEW b \in Backup, NEW change \in (Items \X Roles) \cup (Securables \X Principals)
  PROVE  /\ Noted(b, change) \in Backup
         /\ Noted(b, change).roles = b.roles /\ Noted(b, change).grants = b.grants
         /\ Noted(b, change).ok = b.ok /\ Noted(b, change).changed = b.changed \cup {change}
BY DEF Noted, Backup

\* What is read of an item or a securable goes into the draft.
LEMMA CaptureEffect ==
  ASSUME ResetTypeOK, NEW x \in Items \cup Securables, Capture(x)
  PROVE  /\ draft' \in Backup /\ draft'.changed = draft.changed
         /\ draft' = draft \/ draft'.ok = draft.ok \cup {x}
         /\ \A i \in Items : draft'.roles[i] = draft.roles[i] \/ (i = x /\ draft'.roles[i] = dar[i])
         /\ \A s \in Securables :
              draft'.grants[s] = draft.grants[s] \/ (s = x /\ draft'.grants[s] = grants[s])
<1>1. CASE draft' = draft
  BY <1>1 DEF ResetTypeOK
<1>2. CASE draft' # draft
  <2>1. draft' = [draft EXCEPT !.ok = draft.ok \cup {x},
           !.roles = [i \in Items |-> IF i = x THEN dar[i] ELSE draft.roles[i]],
           !.grants = [s \in Securables |-> IF s = x THEN grants[s] ELSE draft.grants[s]]]
    BY <1>2 DEF Capture
  <2>2. /\ draft \in Backup /\ dar \in [Items -> SUBSET Roles]
        /\ grants \in [Securables -> SUBSET Principals]
    BY DEF ResetTypeOK
  <2>3. /\ [i \in Items |-> IF i = x THEN dar[i] ELSE draft.roles[i]] \in [Items -> SUBSET Roles]
        /\ [s \in Securables |-> IF s = x THEN grants[s] ELSE draft.grants[s]]
             \in [Securables -> SUBSET Principals]
    BY <2>2 DEF Backup
  <2>4. QED
    BY <2>1, <2>2, <2>3 DEF Backup
<1>3. QED
  BY <1>1, <1>2

LEMMA EditEffect ==
  ASSUME ResetTypeOK, NEW change \in (Items \X Roles) \cup (Securables \X Principals), Edit(change)
  PROVE  /\ file' \in Backup \cup {NoFile} /\ draft' \in Backup /\ edits' \in 0..MaxEdits
         /\ file = NoFile => file' = NoFile
         /\ file # NoFile => file' = Noted(file, change)
         /\ draft' = IF change[1] \in draft.ok THEN Noted(draft, change) ELSE draft
         /\ UNCHANGED <<script, left, hand, opened, restored>>
<1>1. file \in Backup \cup {NoFile} /\ draft \in Backup /\ edits \in 0..MaxEdits
  BY DEF ResetTypeOK
<1>2. edits' \in 0..MaxEdits
  BY <1>1, ResetAssumption DEF Edit
<1>3. QED
  BY <1>1, <1>2, NotedTyped DEF Edit

LEMMA ResetTyping == ResetTypeOK /\ Control /\ [ResetNext]_resetVars => ResetTypeOK' /\ Control'
<1>1. SUFFICES ASSUME ResetTypeOK, Control, [ResetNext]_resetVars PROVE ResetTypeOK' /\ Control'
  OBVIOUS
<1>a. /\ dar \in [Items -> SUBSET Roles] /\ grants \in [Securables -> SUBSET Principals]
      /\ file \in Backup \cup {NoFile} /\ draft \in Backup
      /\ script \in Script /\ left \subseteq Items \cup Securables
      /\ given \in [Securables -> SUBSET Protected]
      /\ opened \in BOOLEAN /\ edits \in 0..MaxEdits
  BY <1>1 DEF ResetTypeOK
<1> USE DEF Platforms, Ghosts
<1>2. CASE BeginBackup
  BY <1>1, <1>2 DEF BeginBackup, Begin, ResetTypeOK, Control, Script
<1>3. CASE BeginCleanup
  <2>1. PICK apply \in BOOLEAN, system \in BOOLEAN,
             targets \in {Items, Securables, Items \cup Securables} :
          Begin("cleanup", apply, system, targets) /\ opened' = (opened \/ (system /\ apply))
    BY <1>3 DEF BeginCleanup
  <2>2. /\ script' = [name |-> "cleanup", apply |-> apply, system |-> system]
        /\ left' = targets /\ hand' = Unread /\ restored' = "no" /\ script.name = "none"
        /\ UNCHANGED <<dar, grants, file, draft, given, edits>>
    BY <1>3, <2>1 DEF BeginCleanup, Begin
  <2>3. ResetTypeOK'
    BY <1>1, <2>1, <2>2 DEF ResetTypeOK, Script
  <2>4. script'.system = system /\ script'.apply = apply /\ script'.name = "cleanup"
    BY <2>2
  <2>5. (apply /\ system) => opened'
    BY <2>1
  <2>6. Control'
    BY <1>1, <2>2, <2>4, <2>5 DEF Control
  <2>7. QED
    BY <2>3, <2>6
<1>4. CASE BeginRestore
  <2>1. PICK apply \in BOOLEAN : Begin("restore", apply, FALSE, Items \cup Securables)
    BY <1>4 DEF BeginRestore
  <2>2. /\ script' = [name |-> "restore", apply |-> apply, system |-> FALSE]
        /\ left' = Items \cup Securables /\ hand' = Unread /\ file # NoFile
        /\ restored' = IF apply THEN "so far" ELSE "no"
        /\ script.name = "none"
        /\ UNCHANGED <<dar, grants, file, draft, given, edits, opened>>
    BY <1>4, <2>1 DEF BeginRestore, Begin
  <2>3. ResetTypeOK'
    BY <1>1, <2>2 DEF ResetTypeOK, Script
  <2>4. script'.name = "restore" /\ script'.apply = apply
    BY <2>2
  <2>5. Control'
    BY <1>1, <2>2, <2>4 DEF Control
  <2>6. QED
    BY <2>3, <2>5
<1>5. CASE ScriptEnds
  BY <1>1, <1>5, NothingReadTyped DEF ScriptEnds, ResetTypeOK, Control, Script, NoScript
<1>6. ASSUME NEW x \in Items \cup Securables, Capture(x)
      PROVE  ResetTypeOK' /\ Control'
  <2>1. draft' \in Backup
    BY <1>1, <1>6, CaptureEffect
  <2>2. /\ UNCHANGED <<dar, grants, file, script, hand, given, edits, opened, restored>>
        /\ left' = left \ {x} /\ script.name = "backup"
    BY <1>6 DEF Capture
  <2>3. ResetTypeOK'
    BY <1>1, <2>1, <2>2 DEF ResetTypeOK
  <2>4. Control'
    BY <1>1, <2>2 DEF Control
  <2>5. QED
    BY <2>3, <2>4
<1>7. ASSUME NEW x \in Items \cup Securables, ReadForCleanup(x)
      PROVE  ResetTypeOK' /\ Control'
  <2>1. \/ hand' = hand
        \/ hand' \in [of : Items \cup Securables, read : SUBSET (Roles \cup Principals)]
    <3>1. (IF x \in Items THEN dar[x] ELSE grants[x]) \subseteq Roles \cup Principals
      BY <1>a, <1>7
    <3>2. QED
      BY <1>7, <3>1 DEF ReadForCleanup
  <2>2. /\ UNCHANGED <<dar, grants, file, script, draft, given, edits, opened, restored>>
        /\ left' = left \ {x} /\ script.name = "cleanup"
    BY <1>7 DEF ReadForCleanup
  <2>3. ResetTypeOK'
    BY <1>1, <2>1, <2>2 DEF ResetTypeOK
  <2>4. Control'
    BY <1>1, <2>2 DEF Control
  <2>5. QED
    BY <2>3, <2>4
<1>8. CASE WriteFile
  <2>1. file' \in Backup \cup {NoFile}
    BY <1>a, <1>8 DEF WriteFile
  <2>2. /\ script' = NoScript /\ draft' = NothingRead /\ script.name = "backup"
        /\ UNCHANGED <<dar, grants, left, hand, given, edits, opened, restored>>
    BY <1>8 DEF WriteFile
  <2>3. ResetTypeOK'
    BY <1>1, <2>1, <2>2, NothingReadTyped DEF ResetTypeOK, Script, NoScript
  <2>4. Control'
    BY <1>1, <2>2 DEF Control, NoScript
  <2>5. QED
    BY <2>3, <2>4
<1>9. CASE ClearItem
  BY <1>1, <1>9 DEF ClearItem, ResetTypeOK, Control
<1>10. CASE RevokeSecurable
  <2>1. grants' \in [Securables -> SUBSET Principals]
    BY <1>a, <1>10 DEF RevokeSecurable
  <2>2. /\ UNCHANGED <<dar, file, script, left, draft, given, edits, opened, restored>>
        /\ hand' = Unread
    BY <1>10 DEF RevokeSecurable
  <2>3. ResetTypeOK'
    BY <1>1, <2>1, <2>2 DEF ResetTypeOK
  <2>4. Control'
    BY <1>1, <2>2 DEF Control
  <2>5. QED
    BY <2>3, <2>4
<1>11. CASE CleanupEnds \/ RestoreEnds
  <2>1. /\ UNCHANGED <<dar, grants, file, left, hand, draft, given, edits, opened>>
        /\ script' = NoScript /\ left = {} /\ script.name \in {"cleanup", "restore"}
        /\ restored' = restored \/ (restored' = "yes" /\ restored = "so far")
        /\ script.name = "cleanup" => restored' = restored
    BY <1>11 DEF CleanupEnds, RestoreEnds
  <2>2. ResetTypeOK'
    BY <1>1, <2>1 DEF ResetTypeOK, Script, NoScript
  <2>3. restored' = "so far" => FALSE
    BY <1>1, <1>11 DEF Control, CleanupEnds, RestoreEnds
  <2>4. restored' = "yes" => file # NoFile
    BY <1>1, <2>1 DEF Control
  <2>5. Control'
    BY <1>1, <2>1, <2>3, <2>4 DEF Control, NoScript
  <2>6. QED
    BY <2>2, <2>5
<1>12. ASSUME NEW i \in Items, RestoreItem(i)
       PROVE  ResetTypeOK' /\ Control'
  <2>1. file \in Backup
    BY <1>1, <1>a, <1>12 DEF Control, RestoreItem
  <2>2. dar' \in [Items -> SUBSET Roles]
    BY <1>a, <2>1, <1>12 DEF RestoreItem, Backup
  <2>3. /\ UNCHANGED <<grants, file, script, hand, draft, given, edits, opened, restored>>
        /\ left' = left \ {i} /\ script.name = "restore"
    BY <1>12 DEF RestoreItem
  <2>4. ResetTypeOK'
    BY <1>1, <2>2, <2>3 DEF ResetTypeOK
  <2>5. Control'
    BY <1>1, <2>3 DEF Control
  <2>6. QED
    BY <2>4, <2>5
<1>13. ASSUME NEW s \in Securables, RestoreSecurable(s) \/ RestoreSecurableFails(s)
       PROVE  ResetTypeOK' /\ Control'
  <2>1. file \in Backup
    BY <1>1, <1>a, <1>13 DEF Control, RestoreSecurable, RestoreSecurableFails
  <2>2. file.grants[s] \subseteq Principals
    BY <2>1 DEF Backup
  <2>3. grants' \in [Securables -> SUBSET Principals]
    BY <1>a, <2>2, <1>13 DEF RestoreSecurable, RestoreSecurableFails, Restorable
  <2>4. /\ UNCHANGED <<dar, file, script, hand, draft, given, edits, opened>>
        /\ left' = left \ {s} /\ script.name = "restore" /\ restored' \in {restored, "no"}
    BY <1>13 DEF RestoreSecurable, RestoreSecurableFails
  <2>5. ResetTypeOK'
    BY <1>1, <2>3, <2>4 DEF ResetTypeOK
  <2>6. Control'
    BY <1>1, <2>4 DEF Control
  <2>7. QED
    BY <2>5, <2>6
<1>14. ASSUME NEW change \in (Items \X Roles) \cup (Securables \X Principals), Edit(change),
              dar' \in [Items -> SUBSET Roles], grants' \in [Securables -> SUBSET Principals],
              given' \in [Securables -> SUBSET Protected], UNCHANGED opened
       PROVE  ResetTypeOK' /\ Control'
  <2>1. /\ file' \in Backup \cup {NoFile} /\ draft' \in Backup /\ edits' \in 0..MaxEdits
        /\ file # NoFile => file' = Noted(file, change)
        /\ draft' = IF change[1] \in draft.ok THEN Noted(draft, change) ELSE draft
        /\ UNCHANGED <<script, left, hand, restored>>
    BY <1>1, <1>14, EditEffect
  <2>2. ResetTypeOK'
    BY <1>1, <1>14, <2>1 DEF ResetTypeOK
  <2>3. file # NoFile => file' # NoFile
    BY <1>14, NoFileIsNone, <1>a, NotedTyped, <2>1
  <2>4. draft = NothingRead => draft' = NothingRead
    BY <2>1 DEF NothingRead
  <2>5. Control'
    BY <1>1, <1>14, <2>1, <2>3, <2>4 DEF Control
  <2>6. QED
    BY <2>2, <2>5
<1>15. ASSUME NEW i \in Items, NEW r \in Roles, EditRole(i, r)
       PROVE  ResetTypeOK' /\ Control'
  <2>1. dar' \in [Items -> SUBSET Roles] /\ UNCHANGED <<grants, given>> /\ Edit(<<i, r>>)
    BY <1>a, <1>15 DEF EditRole, Other
  <2>2. QED
    BY <1>a, <2>1, <1>14 DEF Edit
<1>16. ASSUME NEW s \in Securables, NEW p \in Principals, EditGrant(s, p)
       PROVE  ResetTypeOK' /\ Control'
  <2>1. grants' \in [Securables -> SUBSET Principals] /\ UNCHANGED dar /\ Edit(<<s, p>>)
    BY <1>a, <1>16 DEF EditGrant, Other
  <2>2. given' \in [Securables -> SUBSET Protected]
    BY <1>a, <1>16 DEF EditGrant
  <2>3. QED
    BY <1>a, <2>1, <2>2, <1>14 DEF Edit
<1>17. CASE UNCHANGED resetVars
  BY <1>1, <1>17 DEF resetVars, ResetTypeOK, Control
<1>18. QED
  BY <1>1, <1>2, <1>3, <1>4, <1>5, <1>6, <1>7, <1>8, <1>9, <1>10, <1>11, <1>12, <1>13,
     <1>15, <1>16, <1>17 DEF ResetNext

-----------------------------------------------------------------------------
(* Steps *)

\* While a cleanup or a backup runs, no restore is under way or through.
LEMMA OnlyRestores ==
  ASSUME ResetTypeOK, Control, script.name \in {"backup", "cleanup"}
  PROVE  restored = "no"
BY DEF ResetTypeOK, Control

LEMMA NothingOvertaken == Overtaken(NothingRead)
BY DEF Overtaken, NothingRead

\* Steps that leave the platforms, the file and what is protected alone.
LEMMA PlatformsStay ==
  ASSUME ResetInv, ResetTypeOK', Control', UNCHANGED <<dar, grants, given, file>>,
         opened => opened', draft' \in {draft, NothingRead},
         restored' # "no" =>
           left' = Items \cup Securables \/ (restored # "no" /\ left' = left)
  PROVE  ResetInv'
<1>1. ProtectedStay'
  BY DEF ResetInv, ProtectedStay
<1>2. Overtaken(draft)'
  BY NothingOvertaken DEF ResetInv, Overtaken, NothingRead
<1>3. file' # NoFile => Overtaken(file)'
  BY DEF ResetInv, Overtaken
<1>4. Progress'
  BY DEF ResetInv, Progress
<1>5. QED
  BY <1>1, <1>2, <1>3, <1>4 DEF ResetInv

LEMMA CaptureStep ==
  ASSUME ResetInv, ResetTypeOK', Control', NEW x \in Items \cup Securables, Capture(x)
  PROVE  ResetInv'
<1>1. /\ draft' \in Backup /\ draft'.changed = draft.changed
      /\ draft' = draft \/ draft'.ok = draft.ok \cup {x}
      /\ \A i \in Items : draft'.roles[i] = draft.roles[i] \/ (i = x /\ draft'.roles[i] = dar[i])
      /\ \A s \in Securables :
           draft'.grants[s] = draft.grants[s] \/ (s = x /\ draft'.grants[s] = grants[s])
  BY CaptureEffect DEF ResetInv
<1>2. /\ UNCHANGED <<dar, grants, file, given, opened, restored>>
      /\ script.name = "backup"
  BY DEF Capture, Platforms, Ghosts
<1>3. ProtectedStay'
  BY <1>2 DEF ResetInv, ProtectedStay
<1>4. Overtaken(draft)'
  <2>1. Overtaken(draft)
    BY DEF ResetInv
  <2>2. draft'.ok = draft.ok \/ draft'.ok = draft.ok \cup {x}
    BY <1>1
  <2>3. \A i \in Items : i \notin draft'.ok => draft'.roles[i] = {}
    <3>1. CASE draft' = draft
      BY <2>1, <3>1 DEF Overtaken
    <3>2. CASE draft'.ok = draft.ok \cup {x}
      BY <1>1, <2>1, <3>2 DEF Overtaken
    <3>3. QED
      BY <1>1, <3>1, <3>2
  <2>4. \A s \in Securables : s \notin draft'.ok => draft'.grants[s] = {}
    <3>1. CASE draft' = draft
      BY <2>1, <3>1 DEF Overtaken
    <3>2. CASE draft'.ok = draft.ok \cup {x}
      BY <1>1, <2>1, <3>2 DEF Overtaken
    <3>3. QED
      BY <1>1, <3>1, <3>2
  <2>5. \A i \in Items : \A r \in dar'[i] :
          draft'.roles[i] # {} /\ r \notin draft'.roles[i] => <<i, r>> \in draft'.changed
    BY <1>1, <1>2, <2>1 DEF Overtaken
  <2>6. \A s \in Securables : \A p \in SystemGenerated :
          p \in draft'.grants[s] /\ p \notin grants'[s] => <<s, p>> \in draft'.changed
    BY <1>1, <1>2, <2>1 DEF Overtaken
  <2>7. QED
    BY <2>3, <2>4, <2>5, <2>6 DEF Overtaken
<1>5. file' # NoFile => Overtaken(file)'
  BY <1>2 DEF ResetInv, Overtaken
<1>6. Progress'
  BY <1>2, OnlyRestores DEF ResetInv, Progress
<1>7. QED
  BY <1>3, <1>4, <1>5, <1>6 DEF ResetInv

LEMMA WriteStep ==
  ASSUME ResetInv, ResetTypeOK', Control', WriteFile
  PROVE  ResetInv'
<1>1. /\ UNCHANGED <<dar, grants, given, opened, restored>> /\ script.name = "backup"
      /\ draft' = NothingRead /\ file' \in {file, draft}
  BY DEF WriteFile, Platforms, Ghosts
<1>2. ProtectedStay'
  BY <1>1 DEF ResetInv, ProtectedStay
<1>3. Overtaken(draft)'
  BY <1>1 DEF Overtaken, NothingRead
<1>4. file' # NoFile => Overtaken(file)'
  BY <1>1 DEF ResetInv, Overtaken
<1>5. Progress'
  BY <1>1, OnlyRestores DEF ResetInv, Progress
<1>6. QED
  BY <1>2, <1>3, <1>4, <1>5 DEF ResetInv

LEMMA ClearStep ==
  ASSUME ResetInv, ResetTypeOK', Control', ClearItem
  PROVE  ResetInv'
<1>1. /\ UNCHANGED <<grants, file, draft, given, opened, restored>> /\ script.name = "cleanup"
      /\ \A i \in Items : dar'[i] \subseteq dar[i]
  <2>1. dar \in [Items -> SUBSET Roles]
    BY DEF ResetInv, ResetTypeOK
  <2>2. QED
    BY <2>1 DEF ClearItem, Ghosts
<1>2. ProtectedStay'
  BY <1>1 DEF ResetInv, ProtectedStay
<1>3. Overtaken(draft)'
  BY <1>1 DEF ResetInv, Overtaken
<1>4. file' # NoFile => Overtaken(file)'
  BY <1>1 DEF ResetInv, Overtaken
<1>5. Progress'
  BY <1>1, OnlyRestores DEF ResetInv, Progress
<1>6. QED
  BY <1>2, <1>3, <1>4, <1>5 DEF ResetInv

\* A cleanup revokes nothing system-generated, and nothing built-in unless asked to.
LEMMA RevokeStep ==
  ASSUME ResetInv, ResetTypeOK', Control', RevokeSecurable
  PROVE  ResetInv'
<1>1. /\ UNCHANGED <<dar, file, draft, given, opened, restored>> /\ script.name = "cleanup"
  BY DEF RevokeSecurable, Ghosts
<1>2. \A s \in Securables : \A p \in SystemGenerated : p \in grants'[s] <=> p \in grants[s]
  <2>1. grants \in [Securables -> SUBSET Principals]
    BY DEF ResetInv, ResetTypeOK
  <2>2. QED
    BY <2>1 DEF RevokeSecurable, Revocable
<1>3. ~opened => \A s \in Securables : \A p \in BuiltIn : p \in grants'[s] <=> p \in grants[s]
  <2>1. grants \in [Securables -> SUBSET Principals]
    BY DEF ResetInv, ResetTypeOK
  <2>2. CASE script.apply /\ script.system
    BY <1>1, <2>2 DEF ResetInv, Control
  <2>3. CASE ~script.apply
    BY <2>3 DEF RevokeSecurable
  <2>4. CASE ~script.system
    BY <2>1, <2>4 DEF RevokeSecurable, Revocable
  <2>5. QED
    BY <2>2, <2>3, <2>4
<1>4. ProtectedStay'
  <2>1. \A s \in Securables : given[s] \subseteq BuiltIn \cup SystemGenerated
    BY DEF ResetInv, ResetTypeOK, Protected
  <2>2. \A s \in Securables : grants'[s] \cap SystemGenerated = grants[s] \cap SystemGenerated
    BY <1>2
  <2>3. \A s \in Securables : ~opened => given[s] \subseteq grants'[s]
    BY <1>2, <1>3, <2>1 DEF ResetInv, ProtectedStay
  <2>4. QED
    BY <1>1, <2>2, <2>3 DEF ResetInv, ProtectedStay
<1>5. Overtaken(draft)'
  BY <1>1, <1>2 DEF ResetInv, Overtaken
<1>6. file' # NoFile => Overtaken(file)'
  BY <1>1, <1>2 DEF ResetInv, Overtaken
<1>7. Progress'
  BY <1>1, OnlyRestores DEF ResetInv, Progress
<1>8. QED
  BY <1>4, <1>5, <1>6, <1>7 DEF ResetInv

\* The script of a restore that is under way applies what it restores.
LEMMA UnderWay ==
  ASSUME ResetInv, script.name = "restore"
  PROVE  /\ file \in Backup /\ Overtaken(file) /\ draft = NothingRead
         /\ restored # "no" => script.apply
BY DEF ResetInv, ResetTypeOK, Control

LEMMA RestoreItemStep ==
  ASSUME ResetInv, ResetTypeOK', Control', NEW i \in Items, RestoreItem(i)
  PROVE  ResetInv'
<1>1. /\ UNCHANGED <<grants, file, draft, given, opened, restored>> /\ script.name = "restore"
      /\ left' = left \ {i}
  BY DEF RestoreItem, Ghosts
<1>2. /\ file \in Backup /\ Overtaken(file) /\ draft = NothingRead
      /\ restored # "no" => script.apply
  BY <1>1, UnderWay
<1>3. /\ \A j \in Items : dar'[j] = dar[j] \/ (j = i /\ dar'[j] = file.roles[j])
      /\ script.apply => file.roles[i] \subseteq dar'[i]
  <2>1. dar \in [Items -> SUBSET Roles]
    BY DEF ResetInv, ResetTypeOK
  <2>2. QED
    BY <2>1 DEF RestoreItem
<1>4. ProtectedStay'
  BY <1>1 DEF ResetInv, ProtectedStay
<1>5. Overtaken(draft)'
  BY <1>1, <1>2 DEF Overtaken, NothingRead
<1>6. file' # NoFile => Overtaken(file)'
  BY <1>1, <1>2, <1>3 DEF Overtaken
<1>7. Progress'
  <2>1. SUFFICES ASSUME restored # "no" PROVE Progress'
    BY <1>1 DEF Progress
  <2>2. \A j \in Items \ left' : \A r \in file.roles[j] :
          <<j, r>> \notin file.changed => r \in dar'[j]
    <3>1. SUFFICES ASSUME NEW j \in Items \ left', NEW r \in file.roles[j],
                          <<j, r>> \notin file.changed
                   PROVE  r \in dar'[j]
      OBVIOUS
    <3>2. CASE j = i
      BY <1>2, <1>3, <2>1, <3>2
    <3>3. CASE j # i
      <4>1. j \in Items \ left
        BY <1>1, <3>1, <3>3
      <4>2. dar'[j] = dar[j]
        BY <1>3, <3>3
      <4>3. r \in dar[j]
        BY <2>1, <3>1, <4>1 DEF ResetInv, Progress
      <4>4. QED
        BY <4>2, <4>3
    <3>4. QED
      BY <3>2, <3>3
  <2>3. \A s \in Securables \ left' : \A p \in file.grants[s] :
          <<s, p>> \notin file.changed => p \in grants[s]
    <3>1. \A s \in Securables : s # i
      BY ResetAssumption
    <3>2. QED
      BY <1>1, <2>1, <3>1 DEF ResetInv, Progress
  <2>4. QED
    BY <1>1, <2>2, <2>3 DEF Progress
<1>8. QED
  BY <1>4, <1>5, <1>6, <1>7 DEF ResetInv

\* A restore grants nothing system-generated; what of it is missing has been revoked
\* by an administrator.
LEMMA RestoreSecurableStep ==
  ASSUME ResetInv, ResetTypeOK', Control', NEW s \in Securables,
         RestoreSecurable(s) \/ RestoreSecurableFails(s)
  PROVE  ResetInv'
<1>1. /\ UNCHANGED <<dar, file, draft, given, opened>> /\ script.name = "restore"
      /\ left' = left \ {s} /\ restored' \in {restored, "no"}
  BY DEF RestoreSecurable, RestoreSecurableFails, Ghosts
<1>2. /\ file \in Backup /\ Overtaken(file) /\ draft = NothingRead
      /\ restored # "no" => script.apply
  BY <1>1, UnderWay
<1>3. /\ \A t \in Securables : grants[t] \subseteq grants'[t]
      /\ \A t \in Securables : \A p \in SystemGenerated : p \in grants'[t] => p \in grants[t]
      /\ restored' # "no" => Restorable(file.grants[s]) \subseteq grants'[s]
  <2>1. grants \in [Securables -> SUBSET Principals]
    BY DEF ResetInv, ResetTypeOK
  <2>2. CASE grants' = grants /\ restored' = "no"
    BY <2>2
  <2>3. CASE grants' = [grants EXCEPT ![s] = @ \cup Restorable(file.grants[s])]
    BY <2>1, <2>3 DEF Restorable
  <2>4. CASE grants' = grants /\ ~script.apply
    BY <1>1, <1>2, <2>4
  <2>5. QED
    BY <2>2, <2>3, <2>4 DEF RestoreSecurable, RestoreSecurableFails
<1>4. ProtectedStay'
  <2>1. \A t \in Securables : grants'[t] \cap SystemGenerated = grants[t] \cap SystemGenerated
    BY <1>3
  <2>2. \A t \in Securables : given[t] \subseteq grants[t] => given[t] \subseteq grants'[t]
    BY <1>3
  <2>3. QED
    BY <1>1, <2>1, <2>2 DEF ResetInv, ProtectedStay
<1>5. Overtaken(draft)'
  BY <1>1, <1>2 DEF Overtaken, NothingRead
<1>6. file' # NoFile => Overtaken(file)'
  BY <1>1, <1>2, <1>3 DEF Overtaken
<1>7. Progress'
  <2>1. SUFFICES ASSUME restored' # "no", restored # "no" PROVE Progress'
    BY <1>1 DEF Progress
  <2>2. \A i \in Items \ left' : \A r \in file.roles[i] :
          <<i, r>> \notin file.changed => r \in dar[i]
    <3>1. \A i \in Items : s # i
      BY ResetAssumption
    <3>2. QED
      BY <1>1, <2>1, <3>1 DEF ResetInv, Progress
  <2>3. \A t \in Securables \ left' : \A p \in file.grants[t] :
          <<t, p>> \notin file.changed => p \in grants'[t]
    <3>1. SUFFICES ASSUME NEW t \in Securables \ left', NEW p \in file.grants[t],
                          <<t, p>> \notin file.changed
                   PROVE  p \in grants'[t]
      OBVIOUS
    <3>2. CASE t # s
      <4>1. t \in Securables \ left
        BY <1>1, <3>1, <3>2
      <4>2. p \in grants[t]
        BY <2>1, <3>1, <4>1 DEF ResetInv, Progress
      <4>3. QED
        BY <1>3, <4>2
    <3>3. CASE t = s /\ p \in SystemGenerated
      <4>1. p \in grants[s]
        BY <1>2, <3>1, <3>3 DEF Overtaken
      <4>2. QED
        BY <1>3, <3>3, <4>1
    <3>4. CASE t = s /\ p \notin SystemGenerated
      BY <1>3, <2>1, <3>4 DEF Restorable
    <3>5. QED
      BY <3>2, <3>3, <3>4
  <2>4. QED
    BY <1>1, <2>2, <2>3 DEF Progress
<1>8. QED
  BY <1>4, <1>5, <1>6, <1>7 DEF ResetInv

\* What an administrator changes is noted in the file, and in the draft if it has been
\* read for it.
LEMMA EditRoleStep ==
  ASSUME ResetInv, ResetTypeOK', Control', NEW i \in Items, NEW r \in Roles, EditRole(i, r)
  PROVE  ResetInv'
<1>1. /\ file = NoFile => file' = NoFile
      /\ file # NoFile => file' = Noted(file, <<i, r>>)
      /\ draft' = IF i \in draft.ok THEN Noted(draft, <<i, r>>) ELSE draft
      /\ UNCHANGED <<script, left, opened, restored, grants, given>>
  BY EditEffect DEF ResetInv, EditRole
<1>2. \A j \in Items : \A q \in Roles :
        j # i \/ q # r => (q \in dar'[j] <=> q \in dar[j])
  <2>1. dar \in [Items -> SUBSET Roles]
    BY DEF ResetInv, ResetTypeOK
  <2>2. QED
    BY <2>1 DEF EditRole, Other
<1>3. dar \in [Items -> SUBSET Roles] /\ dar' \in [Items -> SUBSET Roles] /\ draft \in Backup
  BY DEF ResetInv, ResetTypeOK
<1>4. ASSUME NEW b \in Backup, Overtaken(b)
      PROVE  /\ Overtaken(Noted(b, <<i, r>>))'
             /\ i \notin b.ok => Overtaken(b)'
  <2>1. /\ Noted(b, <<i, r>>).roles = b.roles /\ Noted(b, <<i, r>>).grants = b.grants
        /\ Noted(b, <<i, r>>).ok = b.ok
        /\ Noted(b, <<i, r>>).changed = b.changed \cup {<<i, r>>}
    BY <1>4, NotedTyped
  <2>2. Overtaken(Noted(b, <<i, r>>))'
    BY <1>1, <1>2, <1>3, <1>4, <2>1 DEF Overtaken
  <2>3. i \notin b.ok => Overtaken(b)'
    BY <1>1, <1>2, <1>3, <1>4 DEF Overtaken
  <2>4. QED
    BY <2>2, <2>3
<1>5. Overtaken(draft)'
  BY <1>1, <1>3, <1>4 DEF ResetInv
<1>6. file' # NoFile => Overtaken(file)'
  BY <1>1, <1>4 DEF ResetInv, ResetTypeOK
<1>7. ProtectedStay'
  BY <1>1 DEF ResetInv, ProtectedStay
<1>8. Progress'
  <2>1. SUFFICES ASSUME restored # "no" PROVE Progress'
    BY <1>1 DEF Progress
  <2>2. file # NoFile /\ file \in Backup
    BY <2>1 DEF ResetInv, Control, ResetTypeOK
  <2>3. /\ file'.roles = file.roles /\ file'.grants = file.grants
        /\ file'.changed = file.changed \cup {<<i, r>>}
    BY <1>1, <2>2, NotedTyped
  <2>4. \A j \in Items : file.roles[j] \subseteq Roles
    BY <2>2 DEF Backup
  <2>5. QED
    BY <1>1, <1>2, <2>1, <2>3, <2>4 DEF ResetInv, Progress
<1>9. QED
  BY <1>5, <1>6, <1>7, <1>8 DEF ResetInv

LEMMA EditGrantStep ==
  ASSUME ResetInv, ResetTypeOK', Control', NEW s \in Securables, NEW p \in Principals, EditGrant(s, p)
  PROVE  ResetInv'
<1>1. /\ file = NoFile => file' = NoFile
      /\ file # NoFile => file' = Noted(file, <<s, p>>)
      /\ draft' = IF s \in draft.ok THEN Noted(draft, <<s, p>>) ELSE draft
      /\ UNCHANGED <<script, left, opened, restored, dar>>
  BY EditEffect DEF ResetInv, EditGrant
<1>2. grants \in [Securables -> SUBSET Principals] /\ draft \in Backup
      /\ given \in [Securables -> SUBSET Protected]
  BY DEF ResetInv, ResetTypeOK
<1>3. \A t \in Securables : \A q \in Principals :
        t # s \/ q # p => (q \in grants'[t] <=> q \in grants[t])
  BY <1>2 DEF EditGrant, Other
<1>4. ASSUME NEW b \in Backup, Overtaken(b)
      PROVE  /\ Overtaken(Noted(b, <<s, p>>))'
             /\ s \notin b.ok => Overtaken(b)'
  <2>1. /\ Noted(b, <<s, p>>).roles = b.roles /\ Noted(b, <<s, p>>).grants = b.grants
        /\ Noted(b, <<s, p>>).ok = b.ok
        /\ Noted(b, <<s, p>>).changed = b.changed \cup {<<s, p>>}
    BY <1>4, NotedTyped
  <2>2. SystemGenerated \subseteq Principals
    BY DEF Principals
  <2>3. Overtaken(Noted(b, <<s, p>>))'
    BY <1>1, <1>3, <1>4, <2>1, <2>2 DEF Overtaken
  <2>4. s \notin b.ok => Overtaken(b)'
    BY <1>1, <1>3, <1>4, <2>2 DEF Overtaken
  <2>5. QED
    BY <2>3, <2>4
<1>5. Overtaken(draft)'
  BY <1>1, <1>2, <1>4 DEF ResetInv
<1>6. file' # NoFile => Overtaken(file)'
  BY <1>1, <1>4 DEF ResetInv, ResetTypeOK
<1>7. ProtectedStay'
  <2>1. SUFFICES ASSUME NEW t \in Securables
                 PROVE  /\ grants'[t] \cap SystemGenerated = given'[t] \cap SystemGenerated
                        /\ opened' \/ given'[t] \subseteq grants'[t]
    BY DEF ProtectedStay
  <2>2. /\ grants[t] \cap SystemGenerated = given[t] \cap SystemGenerated
        /\ opened \/ given[t] \subseteq grants[t]
    BY DEF ResetInv, ProtectedStay
  <2>3. CASE t # s
    BY <1>1, <1>2, <2>2, <2>3 DEF EditGrant
  <2>4. CASE t = s /\ p \notin Protected
    BY <1>1, <1>2, <2>2, <2>4 DEF EditGrant, Other, Protected
  <2>5. CASE t = s /\ p \in Protected /\ p \in grants[s]
    BY <1>1, <1>2, <2>2, <2>5 DEF EditGrant, Other
  <2>6. CASE t = s /\ p \in Protected /\ p \notin grants[s]
    BY <1>1, <1>2, <2>2, <2>6 DEF EditGrant, Other
  <2>7. QED
    BY <2>3, <2>4, <2>5, <2>6
<1>8. Progress'
  <2>1. SUFFICES ASSUME restored # "no" PROVE Progress'
    BY <1>1 DEF Progress
  <2>2. file # NoFile /\ file \in Backup
    BY <2>1 DEF ResetInv, Control, ResetTypeOK
  <2>3. /\ file'.roles = file.roles /\ file'.grants = file.grants
        /\ file'.changed = file.changed \cup {<<s, p>>}
    BY <1>1, <2>2, NotedTyped
  <2>4. \A t \in Securables : file.grants[t] \subseteq Principals
    BY <2>2 DEF Backup
  <2>5. QED
    BY <1>1, <1>3, <2>1, <2>3, <2>4 DEF ResetInv, Progress
<1>9. QED
  BY <1>5, <1>6, <1>7, <1>8 DEF ResetInv

LEMMA ResetStepKeeps == ResetInv /\ [ResetNext]_resetVars => ResetInv'
<1>1. SUFFICES ASSUME ResetInv, [ResetNext]_resetVars PROVE ResetInv'
  OBVIOUS
<1>2. ResetTypeOK' /\ Control'
  BY <1>1, ResetTyping DEF ResetInv
<1>3. CASE BeginBackup \/ BeginCleanup \/ BeginRestore
  <2>1. /\ UNCHANGED <<dar, grants, given, file, draft>>
        /\ restored' # "no" => left' = Items \cup Securables
    BY <1>3 DEF BeginBackup, BeginCleanup, BeginRestore, Begin, Platforms, Ghosts
  <2>2. opened => opened'
    <3>1. CASE BeginCleanup
      BY <3>1, Zenon DEF BeginCleanup
    <3>2. CASE BeginBackup \/ BeginRestore
      BY <3>2 DEF BeginBackup, BeginRestore
    <3>3. QED
      BY <1>3, <3>1, <3>2
  <2>3. draft' \in {draft, NothingRead}
    BY <2>1
  <2>4. QED
    BY <1>1, <1>2, <2>1, <2>2, <2>3, PlatformsStay
<1>4. CASE ScriptEnds
  <2>1. /\ UNCHANGED <<dar, grants, given, file, opened>> /\ draft' = NothingRead
        /\ restored' = "no"
    BY <1>4 DEF ScriptEnds, Platforms, Ghosts
  <2>2. QED
    BY <1>1, <1>2, <2>1, PlatformsStay
<1>5. ASSUME NEW x \in Items \cup Securables, ReadForCleanup(x)
      PROVE  ResetInv'
  <2>1. /\ UNCHANGED <<dar, grants, given, file, draft, opened, restored>>
        /\ script.name = "cleanup"
    BY <1>5 DEF ReadForCleanup, Platforms, Ghosts
  <2>2. restored = "no"
    BY <1>1, <2>1, OnlyRestores DEF ResetInv
  <2>3. QED
    BY <1>1, <1>2, <2>1, <2>2, PlatformsStay
<1>6. CASE CleanupEnds \/ RestoreEnds
  <2>1. /\ UNCHANGED <<dar, grants, given, file, draft, opened, left>>
        /\ restored' # "no" => restored # "no"
    BY <1>6 DEF CleanupEnds, RestoreEnds, Platforms, Ghosts
  <2>2. QED
    BY <1>1, <1>2, <2>1, PlatformsStay
<1>7. CASE UNCHANGED resetVars
  <2>1. UNCHANGED <<dar, grants, given, file, draft, opened, left, restored>>
    BY <1>7 DEF resetVars
  <2>2. QED
    BY <1>1, <1>2, <2>1, PlatformsStay
<1>8. ASSUME NEW x \in Items \cup Securables, Capture(x) PROVE ResetInv'
  BY <1>1, <1>2, <1>8, CaptureStep
<1>9. CASE WriteFile
  BY <1>1, <1>2, <1>9, WriteStep
<1>10. CASE ClearItem
  BY <1>1, <1>2, <1>10, ClearStep
<1>11. CASE RevokeSecurable
  BY <1>1, <1>2, <1>11, RevokeStep
<1>12. ASSUME NEW i \in Items, RestoreItem(i) PROVE ResetInv'
  BY <1>1, <1>2, <1>12, RestoreItemStep
<1>13. ASSUME NEW s \in Securables, RestoreSecurable(s) \/ RestoreSecurableFails(s) PROVE ResetInv'
  BY <1>1, <1>2, <1>13, RestoreSecurableStep
<1>14. ASSUME NEW i \in Items, NEW r \in Roles, EditRole(i, r) PROVE ResetInv'
  BY <1>1, <1>2, <1>14, EditRoleStep
<1>15. ASSUME NEW s \in Securables, NEW p \in Principals, EditGrant(s, p) PROVE ResetInv'
  BY <1>1, <1>2, <1>15, EditGrantStep
<1>16. QED
  BY <1>1, <1>3, <1>4, <1>5, <1>6, <1>7, <1>8, <1>9, <1>10, <1>11, <1>12, <1>13, <1>14, <1>15
  DEF ResetNext

LEMMA ResetInitHolds == ResetInit => ResetInv
<1>1. SUFFICES ASSUME ResetInit PROVE ResetInv
  OBVIOUS
<1>2. ResetTypeOK
  <2>1. given \in [Securables -> SUBSET Protected]
    BY <1>1 DEF ResetInit
  <2>2. script \in Script
    BY <1>1 DEF ResetInit, Script, NoScript
  <2>3. edits \in 0..MaxEdits
    BY <1>1, ResetAssumption DEF ResetInit
  <2>4. /\ dar \in [Items -> SUBSET Roles] /\ grants \in [Securables -> SUBSET Principals]
        /\ file \in Backup \cup {NoFile} /\ draft \in Backup
        /\ left \subseteq Items \cup Securables /\ hand = Unread
        /\ opened \in BOOLEAN /\ restored \in {"no", "so far", "yes"}
    BY <1>1, NothingReadTyped DEF ResetInit
  <2>5. QED
    BY <2>1, <2>2, <2>3, <2>4 DEF ResetTypeOK
<1>3. Control
  BY <1>1 DEF ResetInit, Control, NoScript
<1>4. ProtectedStay
  <2>1. SystemGenerated \subseteq Protected
    BY DEF Protected
  <2>2. QED
    BY <1>1, <2>1 DEF ResetInit, ProtectedStay
<1>5. Progress /\ Overtaken(draft) /\ (file # NoFile => Overtaken(file))
  BY <1>1, NothingOvertaken DEF ResetInit, Progress
<1>6. QED
  BY <1>2, <1>3, <1>4, <1>5 DEF ResetInv

LEMMA ResetInvariance == ResetSpec => []ResetInv
<1>1. QED
  BY ResetInitHolds, ResetStepKeeps, PTL DEF ResetSpec

-----------------------------------------------------------------------------
(* Theorems *)

\* The variables of the three scripts keep their types.
THEOREM ResetTypeCorrect == ResetSpec => []ResetTypeOK
<1>1. ResetInv => ResetTypeOK
  BY DEF ResetInv
<1>2. QED
  BY <1>1, ResetInvariance, PTL

\* No sequence of backups, cleanups and restores, whole or cut short, touches what
\* the system has granted, or what is built in unless a cleanup was told to.
THEOREM ProtectedAreKept == ResetSpec => []ProtectedStay
<1>1. ResetInv => ProtectedStay
  BY DEF ResetInv
<1>2. QED
  BY <1>1, ResetInvariance, PTL

\* A restore that went through has brought back all that the backup had read, but for
\* what administrators have changed since then.
THEOREM RestoreIsComplete == ResetSpec => []RestoreBringsBack
<1>1. QED
  BY InvBringsBack, ResetInvariance, PTL

LEMMA LosesOnlyNewer ==
  ASSUME ResetInv, [ResetNext]_resetVars, script.name = "restore",
         NEW i \in Items, NEW r \in dar[i] \ dar'[i]
  PROVE  <<i, r>> \in file'.changed
<1>1. /\ file \in Backup /\ Overtaken(file) /\ file # NoFile
  BY UnderWay DEF ResetInv, Control
<1>2. /\ dar \in [Items -> SUBSET Roles] /\ r \in Roles
  BY DEF ResetInv, ResetTypeOK
<1>3. dar' # dar
  OBVIOUS
<1>4. CASE \E j \in Items : RestoreItem(j)
  <2>1. PICK j \in Items : RestoreItem(j)
    BY <1>4
  <2>2. /\ j = i /\ file.roles[i] # {} /\ r \notin file.roles[i] /\ file' = file
    BY <1>2, <1>3, <2>1 DEF RestoreItem
  <2>3. QED
    BY <1>1, <2>2 DEF Overtaken
<1>5. CASE \E j \in Items, q \in Roles : EditRole(j, q)
  <2>1. PICK j \in Items, q \in Roles : EditRole(j, q)
    BY <1>5
  <2>2. j = i /\ q = r
    BY <1>2, <2>1 DEF EditRole, Other
  <2>3. file' = Noted(file, <<i, r>>)
    BY <1>1, <2>1, <2>2 DEF EditRole, Edit
  <2>4. QED
    BY <1>1, <1>2, <2>3, NotedTyped
<1>6. \A x \in Items \cup Securables : ~Capture(x) /\ ~ReadForCleanup(x)
  BY DEF Capture, ReadForCleanup
<1>7. ~WriteFile /\ ~ClearItem /\ ~RevokeSecurable /\ ~CleanupEnds
  BY DEF WriteFile, ClearItem, RevokeSecurable, CleanupEnds
<1>8. ~BeginBackup /\ ~BeginCleanup /\ ~BeginRestore /\ ~ScriptEnds /\ ~RestoreEnds
  BY <1>3 DEF BeginBackup, BeginCleanup, BeginRestore, ScriptEnds, RestoreEnds, Platforms
<1>9. /\ \A s \in Securables : ~RestoreSecurable(s) /\ ~RestoreSecurableFails(s)
      /\ \A s \in Securables, p \in Principals : ~EditGrant(s, p)
      /\ ~UNCHANGED resetVars
  BY <1>3 DEF RestoreSecurable, RestoreSecurableFails, EditGrant, resetVars
<1>10. QED
  BY <1>4, <1>5, <1>6, <1>7, <1>8, <1>9 DEF ResetNext

\* While a restore runs, an item loses only roles that are newer than the backup: what
\* was not read for the backup is not wiped out.
THEOREM RestoresSpareOlder == ResetSpec => RestoreLosesOnlyNewer
<1>1. ResetInv /\ [ResetNext]_resetVars =>
        [script.name = "restore" =>
           \A i \in Items : \A r \in dar[i] \ dar'[i] : <<i, r>> \in file'.changed]_resetVars
  BY LosesOnlyNewer
<1>2. QED
  BY <1>1, ResetInvariance, PTL DEF ResetSpec, RestoreLosesOnlyNewer
=============================================================================
