-------------------------- MODULE UserConfigProofs --------------------------
(***************************************************************************)
(* What an edit of the user's config replaces is in a backup, for any      *)
(* files, commands, stops and saves of the user's editor that the edit     *)
(* sees.  The rename is two steps after the backup and one after the       *)
(* second reading, and straight after the first where there was no file:   *)
(* BackupInv says what those steps have established and the editor may     *)
(* have undone.                                                            *)
(***************************************************************************)
EXTENDS UserConfig, TLAPS

\* Leaves that reason about records use the SMT solver.
USE ZenonT(60)

IsCommand(c) ==
  c = [op |-> c.op, pc |-> c.pc, plan |-> c.plan, blocks |-> c.blocks, body |-> c.body]

\* c has not got as far as its backup.
Early(c) == c = NoCmd \/ (IsCommand(c) /\ c.pc # "recheck" /\ c.pc # "rename")

BackupInv ==
  /\ cmd = NoCmd \/ IsCommand(cmd)
  /\ At("recheck") => cmd.body \in backups
  /\ At("rename") => /\ cmd.body \in backups \/ cmd.body = NoFile
                     /\ unseen \/ file = cmd.body

-----------------------------------------------------------------------------
LEMMA NoCmdIsEarly ==
  /\ NoCmd.pc = "none" /\ NoCmd.pc # "recheck" /\ NoCmd.pc # "rename" 
  BY SMTT(30) DEF NoCmd

\* A command that is not past its backup may do anything to the file.
LEMMA EarlyKeeps ==
  ASSUME Early(cmd')
  PROVE  BackupInv'
  BY NoCmdIsEarly DEF Early, BackupInv, At

\* The steps of a command set where it is, and other fields of it.
SetsPlace(c, q, pc) == q = [c EXCEPT !.pc = pc]

LEMMA PlaceSet ==
  ASSUME NEW c, IsCommand(c), NEW pc, NEW q, SetsPlace(c, q, pc)
  PROVE  IsCommand(q) /\ q.pc = pc /\ q.body = c.body
  BY SMTT(30) DEF IsCommand, SetsPlace

SetsBody(c, q, v) == q = [c EXCEPT !.body = v]

LEMMA BodySet ==
  ASSUME NEW c, IsCommand(c), NEW v, NEW q, SetsBody(c, q, v)
  PROVE  IsCommand(q) /\ q.pc = c.pc /\ q.body = v
  BY SMTT(30) DEF IsCommand, SetsBody

SetsField(c, q, v) ==
  q = [c EXCEPT !.plan = v] \/ q = [c EXCEPT !.blocks = v] \/ q = [c EXCEPT !.body = v]

LEMMA FieldSet ==
  ASSUME NEW c, IsCommand(c), NEW v, NEW q, SetsField(c, q, v)
  PROVE  IsCommand(q) /\ q.pc = c.pc
  <1>1. CASE q = [c EXCEPT !.plan = v]
    BY <1>1, SMTT(30) DEF IsCommand
  <1>2. CASE q = [c EXCEPT !.blocks = v]
    BY <1>2, SMTT(30) DEF IsCommand
  <1>3. CASE q = [c EXCEPT !.body = v]
    BY <1>3, SMTT(30) DEF IsCommand
  <1> QED BY <1>1, <1>2, <1>3 DEF SetsField

\* A command goes to a place before its backup.
Before(pc) == pc = "import" \/ pc = "read" \/ pc = "backup"

GoesTo(c, q, pc, v, w) ==
  \/ q = [c EXCEPT !.pc = pc, !.plan = v]
  \/ q = [c EXCEPT !.pc = pc, !.blocks = v]
  \/ q = [c EXCEPT !.pc = pc, !.body = v]
  \/ q = [c EXCEPT !.pc = pc, !.plan = v, !.blocks = w]

Goes(c, q) == q = NoCmd \/ \E pc, v, w : Before(pc) /\ GoesTo(c, q, pc, v, w)

LEMMA GoesEarly ==
  ASSUME NEW c, IsCommand(c), NEW q, Goes(c, q)
  PROVE  Early(q)
  <1> SUFFICES ASSUME NEW pc, NEW v, NEW w, Before(pc), GoesTo(c, q, pc, v, w)
               PROVE  Early(q)
    BY DEF Goes, Early
  <1>1. PICK a : SetsPlace(c, a, pc)
    BY DEF SetsPlace
  <1>2. IsCommand(a) /\ a.pc = pc
    BY <1>1, PlaceSet
  <1>3. pc # "recheck" /\ pc # "rename"
    BY SMTT(30) DEF Before
  <1>4. CASE SetsField(a, q, v)
    BY <1>2, <1>3, <1>4, FieldSet DEF Early
  <1>5. CASE q = [c EXCEPT !.pc = pc, !.plan = v, !.blocks = w]
    <2>1. PICK b : b = [a EXCEPT !.plan = v]
      OBVIOUS
    <2>2. SetsField(a, b, v) /\ SetsField(b, q, w)
      BY <1>1, <1>5, <2>1 DEF SetsField, SetsPlace
    <2>3. IsCommand(b) /\ b.pc = pc
      BY <1>2, <2>2, FieldSet
    <2> QED BY <1>3, <2>2, <2>3, FieldSet DEF Early
  <1>6. SetsField(a, q, v) \/ q = [c EXCEPT !.pc = pc, !.plan = v, !.blocks = w]
    BY <1>1 DEF SetsField, SetsPlace, GoesTo
  <1> QED BY <1>4, <1>5, <1>6

\* A command that is somewhere is one.
LEMMA RunningIsCommand ==
  ASSUME BackupInv, NEW pc, At(pc), pc # "none"
  PROVE  IsCommand(cmd)
  BY NoCmdIsEarly DEF BackupInv, At

-----------------------------------------------------------------------------
LEMMA StartKeeps ==
  ASSUME (\E op \in {"import", "setup"} : RunImport(op)) \/ RunInstall \/ RunUninstall
  PROVE  BackupInv'
  <1>1. \E op, pc, plan :
          /\ pc = "parse" \/ pc = "read"
          /\ cmd' = [op |-> op, pc |-> pc, plan |-> plan, blocks |-> {}, body |-> <<>>]
    BY DEF RunImport, ImportConfig, RunInstall, RunUninstall
  <1>2. IsCommand(cmd') /\ cmd'.pc # "recheck" /\ cmd'.pc # "rename"
    BY <1>1, SMTT(30) DEF IsCommand
  <1> QED BY <1>2, EarlyKeeps DEF Early

LEMMA GoesKeeps ==
  ASSUME IsCommand(cmd), NEW q, Goes(cmd, q), cmd' = q
  PROVE  BackupInv'
  BY GoesEarly, EarlyKeeps

LEMMA ParseKeeps ==
  ASSUME BackupInv, Parse
  PROVE  BackupInv'
  <1>1. IsCommand(cmd)
    BY RunningIsCommand DEF Parse
  <1>2. PICK q : q = cmd'
    OBVIOUS
  <1>3. Goes(cmd, q)
    BY <1>2 DEF Parse, End, Goes, GoesTo, Before
  <1> QED BY <1>1, <1>2, <1>3, GoesKeeps

LEMMA ImportHostsKeeps ==
  ASSUME BackupInv, ImportHosts
  PROVE  BackupInv'
  <1>1. IsCommand(cmd)
    BY RunningIsCommand DEF ImportHosts
  <1>2. PICK q : q = cmd'
    OBVIOUS
  <1>3. Goes(cmd, q)
    BY <1>2 DEF ImportHosts, End, Goes, GoesTo, Before
  <1> QED BY <1>1, <1>2, <1>3, GoesKeeps

LEMMA RetireKeeps ==
  ASSUME BackupInv, RetireImportedBlocks
  PROVE  BackupInv'
  <1>1. IsCommand(cmd) /\ cmd.pc = "read"
    BY RunningIsCommand DEF RetireImportedBlocks, At
  <1>2. cmd' = NoCmd \/ \E v, w : cmd' = [cmd EXCEPT !.plan = v, !.blocks = w]
    BY DEF RetireImportedBlocks
  <1>3. ASSUME NEW v, NEW w, cmd' = [cmd EXCEPT !.plan = v, !.blocks = w]
        PROVE  Early(cmd')
    <2>1. PICK b : b = [cmd EXCEPT !.plan = v]
      OBVIOUS
    <2>2. PICK q : q = cmd' /\ SetsField(cmd, b, v) /\ SetsField(b, q, w)
      BY <1>3, <2>1 DEF SetsField
    <2>3. IsCommand(b) /\ b.pc = "read"
      BY <1>1, <2>2, FieldSet
    <2>4. IsCommand(q) /\ q.pc = "read"
      BY <2>2, <2>3, FieldSet
    <2> QED BY <2>2, <2>4 DEF Early
  <1>4. Early(cmd')
    BY <1>2, <1>3 DEF Early
  <1> QED BY <1>4, EarlyKeeps

LEMMA EditDoneKeeps ==
  ASSUME IsCommand(cmd), NEW kind, EditDone(kind)
  PROVE  BackupInv'
  <1>1. PICK q : q = cmd'
    OBVIOUS
  <1>2. Goes(cmd, q)
    BY <1>1 DEF EditDone, Goes, GoesTo, Before
  <1> QED BY <1>1, <1>2, GoesKeeps

\* There is no file to back up, or a backup comes next.
LEMMA ReadKeeps ==
  ASSUME BackupInv, ReadUserConfig
  PROVE  BackupInv'
  <1>1. IsCommand(cmd)
    BY RunningIsCommand DEF ReadUserConfig
  <1>2. PICK q : q = cmd'
    OBVIOUS
  <1>3. CASE cmd' = [cmd EXCEPT !.pc = "rename", !.body = file] /\ file = NoFile
    <2>1. PICK a : SetsPlace(cmd, a, "rename")
      BY DEF SetsPlace
    <2>2. IsCommand(a) /\ a.pc = "rename"
      BY <1>1, <2>1, PlaceSet
    <2>3. SetsBody(a, q, file)
      BY <1>2, <1>3, <2>1 DEF SetsBody, SetsPlace
    <2>4. IsCommand(q) /\ q.pc = "rename" /\ q.body = file
      BY <2>2, <2>3, BodySet
    <2>5. q.pc # "recheck"
      BY <2>4, SMTT(30)
    <2>6. file' = file
      BY DEF ReadUserConfig
    <2> QED BY <1>2, <1>3, <2>4, <2>6, <2>5 DEF BackupInv, At
  <1>4. \/ \E kind : EditDone(kind)
        \/ Goes(cmd, q)
        \/ cmd' = [cmd EXCEPT !.pc = "rename", !.body = file] /\ file = NoFile
    BY <1>2 DEF ReadUserConfig, End, Goes, GoesTo, Before
  <1> QED BY <1>1, <1>2, <1>3, <1>4, GoesKeeps, EditDoneKeeps

\* The text that was read is in a backup ...
LEMMA BackupKeeps ==
  ASSUME BackupInv, BackupUserConfig
  PROVE  BackupInv'
  <1>1. IsCommand(cmd)
    BY RunningIsCommand DEF BackupUserConfig
  <1>2. PICK q : SetsPlace(cmd, q, "recheck")
    BY DEF SetsPlace
  <1>3. IsCommand(q) /\ q.pc = "recheck" /\ q.body = cmd.body
    BY <1>1, <1>2, PlaceSet
  <1>4. cmd' = q /\ cmd.body \in backups'
    BY <1>2 DEF BackupUserConfig, SetsPlace
  <1>5. q.pc # "rename"
    BY <1>3, SMTT(30)
  <1> QED BY <1>3, <1>4, <1>5 DEF BackupInv, At

\* ... and is the file's when it is read again.
LEMMA RecheckKeeps ==
  ASSUME BackupInv, Recheck
  PROVE  BackupInv'
  <1>1. IsCommand(cmd) /\ cmd.body \in backups
    BY RunningIsCommand DEF Recheck, BackupInv, At
  <1>2. CASE file = cmd.body
    <2>1. PICK q : SetsPlace(cmd, q, "rename")
      BY DEF SetsPlace
    <2>2. IsCommand(q) /\ q.pc = "rename" /\ q.body = cmd.body
      BY <1>1, <2>1, PlaceSet
    <2>3. cmd' = q /\ UNCHANGED <<file, backups>>
      BY <1>2, <2>1 DEF Recheck, SetsPlace
    <2>4. q.pc # "recheck"
      BY <2>2, SMTT(30)
    <2>5. file' = q.body /\ q.body \in backups'
      BY <1>1, <1>2, <2>2, <2>3
    <2> QED BY <2>2, <2>3, <2>4, <2>5 DEF BackupInv, At
  <1>3. CASE file # cmd.body
    <2>1. Early(cmd')
      BY <1>3 DEF Recheck, Early
    <2> QED BY <2>1, EarlyKeeps
  <1> QED BY <1>2, <1>3

\* The editor may save over it, which a command at its rename does not see.
LEMMA UserSavesKeeps ==
  ASSUME BackupInv, NEW l \in UserLines, NEW i \in 0..Len(Text(file)), UserSaves(i, l)
  PROVE  BackupInv'
  <1>1. UNCHANGED <<cmd, backups>> /\ (At("rename") => unseen')
    BY DEF UserSaves, Unseen
  <1> QED BY <1>1 DEF BackupInv, At

LEMMA BackupInvNext ==
  ASSUME BackupInv, [Next]_vars
  PROVE  BackupInv'
  <1>1. CASE AtomicWrite
    <2>1. IsCommand(cmd)
      BY <1>1, RunningIsCommand DEF AtomicWrite
    <2> QED BY <1>1, <2>1, EditDoneKeeps DEF AtomicWrite
  <1>2. CASE Stop
    <2>1. Early(cmd')
      BY <1>2 DEF Stop, End, Early
    <2> QED BY <2>1, EarlyKeeps
  <1>3. CASE UNCHANGED vars
    BY <1>3 DEF vars, BackupInv, At
  <1>4. CASE CommandStep
    BY <1>1, <1>4, ParseKeeps, ImportHostsKeeps, RetireKeeps, ReadKeeps, BackupKeeps,
       RecheckKeeps DEF CommandStep
  <1> QED BY <1>2, <1>3, <1>4, StartKeeps, UserSavesKeeps DEF Next

(***************************************************************************)
(* What an edit replaces is the text of some backup or there was no file,  *)
(* unless the user saved where replaceUserConfig does not look: between    *)
(* its second reading and the rename, or from the only reading on when     *)
(* there was no file (sshconfig/install.go:183); for any files, absent and *)
(* empty ones included, commands, stops and saves.                         *)
(***************************************************************************)
THEOREM ChangesAreBackedUp == Spec => EveryChangeIsBackedUp
  <1>1. Init => BackupInv
    BY NoCmdIsEarly DEF Init, BackupInv, At
  <1>2. BackupInv /\ [Next]_vars => BackupInv'
    BY BackupInvNext
  <1>3. BackupInv => [AtomicWrite /\ ~unseen => file \in backups \/ file = NoFile]_vars
    BY DEF BackupInv, AtomicWrite
  <1> QED BY <1>1, <1>2, <1>3, PTL DEF Spec, EveryChangeIsBackedUp
=============================================================================
