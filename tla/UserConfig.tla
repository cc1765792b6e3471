----------------------------- MODULE UserConfig -----------------------------
(***************************************************************************)
(* The user's own ~/.ssh/config, which sshstate and the user both edit:    *)
(* install adds the managed Include at its top, import --comment-source    *)
(* and setup --import comment out the Host blocks the vault has taken      *)
(* over, and uninstall takes the Include out and reactivates them.  Every  *)
(* edit reads the file, writes a backup, reads the file again and renames  *)
(* a new one over it; the user's editor saves the file at any point        *)
(* between, and a command stops at any point.  When there is no file there *)
(* is nothing to back up, and it is not looked for again.                  *)
(*                                                                         *)
(* A line is a record that says what kind of line it is: Off(l) is line l  *)
(* behind a "# ", whoever commented it out.                                *)
(***************************************************************************)
EXTENDS Naturals, Sequences, FiniteSets, SequencesExt

CONSTANTS InitialFiles,  \* files to start from
          UserLines,     \* lines the user inserts
          InitialVaults, \* the definitions the vault may have to begin with
          MaxSaves,      \* bound: saves of the user's editor
          MaxCommands,   \* bound: commands run
          MaxStops       \* bound: commands that stop part-way

VARIABLES file,      \* the user's config
          backups,   \* the texts of the backup files beside it
          vault,     \* the host definitions in the vault
          cmd,       \* the command under way
          halfway,   \* an uninstall took the Include out and did not finish
          original,  \* the file at the start, or none once the user has saved
          wanted,    \* the aliases the user has defined
          unseen,    \* the user saved where a command does not look
          used       \* what has been used of the bounds

vars == <<file, backups, vault, cmd, halfway, original, wanted, unseen, used>>

HostLine(h) == [k |-> "host", h |-> h]
Dir(n)   == [k |-> "dir", n |-> n]
Note     == [k |-> "note"]
Blank    == [k |-> "blank"]
Marker   == [k |-> "marker"]
Managed  == [k |-> "managed"]
Other    == [k |-> "other"]  \* a directive outside the import subset
Off(l)   == [k |-> "off", of |-> l]

NoFile == <<[k |-> "no file"]>>  \* which is not the empty file
Text(f) == IF f = NoFile THEN <<>> ELSE f

NoCmd == [op |-> "none", pc |-> "none"]
NoChange == <<[k |-> "no change"]>>  \* the edit leaves the file alone
BadSpan  == <<[k |-> "bad span"]>>   \* the edit is refused

IsInstalled(f) == Managed \in ToSet(f)

Aliases(f) == {f[i].h : i \in {j \in DOMAIN f : f[j].k = "host"}}

Init == /\ file \in InitialFiles
        /\ backups = {}
        /\ vault \in InitialVaults
        /\ cmd = NoCmd
        /\ halfway = FALSE
        /\ original = {file}
        /\ wanted = Aliases(file)
        /\ unseen = FALSE
        /\ used = [saves |-> 0, commands |-> 0, stops |-> 0]

(***************************************************************************)
(* ParseImport: the Host blocks of a file, each with the lines it spans,   *)
(* or that some line, or the file, is refused.  A block ends with its last directive;    *)
(* that line is remembered over the whole file and the Host line itself    *)
(* does not count.                                                         *)
(***************************************************************************)
Closed(p) ==
  IF p.current = {} THEN p.hosts
  ELSE p.hosts \o [i \in 1..1 |->
         LET b == CHOOSE c \in p.current : TRUE
         IN [h |-> b.h, dirs |-> b.dirs, line |-> b.line, end |-> p.last]]

ParseLine(p, i, l) ==
  CASE l.k = "host" ->
         IF l.h \in p.seen THEN [p EXCEPT !.refused = TRUE, !.hosts = Closed(p), !.current = {}]
         ELSE [p EXCEPT !.hosts = Closed(p), !.seen = @ \cup {l.h},
                        !.current = {[h |-> l.h, dirs |-> <<>>, line |-> i]}]
    [] l.k = "dir" ->
         IF p.current = {} THEN [p EXCEPT !.refused = TRUE]
         ELSE [p EXCEPT !.last = i,
                        !.current = {[b EXCEPT !.dirs = Append(@, l.n)] : b \in p.current}]
    [] l.k = "other" -> [p EXCEPT !.refused = TRUE]
    [] OTHER -> p

ParseImport(f) ==
  LET p == FoldLeft(LAMBDA acc, i : ParseLine(acc, i, f[i]),
                    [hosts |-> <<>>, current |-> {}, seen |-> {}, last |-> 0, refused |-> FALSE],
                    [i \in DOMAIN f |-> i])
  IN [hosts |-> ToSet(Closed(p)), refused |-> p.refused \/ f = NoFile]

Definition(b) == [h |-> b.h, dirs |-> b.dirs]

(***************************************************************************)
(* The four edits, from the text that was read to the text to be written.  *)
(***************************************************************************)
Installed(f) ==
  IF IsInstalled(f) THEN NoChange
  ELSE <<Managed>> \o (IF Text(f) = <<>> THEN <<>> ELSE <<Blank>> \o f)

Uninstalled(f) ==
  IF ~IsInstalled(f) THEN NoChange
  ELSE LET i == CHOOSE j \in DOMAIN f : f[j] = Managed
           rest == SubSeq(f, i + 1, Len(f))
       IN SubSeq(f, 1, i - 1) \o
          (IF rest # <<>> /\ rest[1] = Blank THEN Tail(rest) ELSE rest)

\* CommentOutBlocks goes by the line numbers of an earlier parse.
CommentedOut(f, blocks) ==
  LET lines == UNION {b.line..b.end : b \in blocks}
      out(i) == IF i \notin lines THEN <<f[i]>>
                ELSE (IF i - 1 \in lines THEN <<>> ELSE <<Marker>>) \o <<Off(f[i])>>
  IN IF blocks = {} THEN NoChange
     ELSE IF \E b \in blocks : b.end > Len(f) \/ b.end < b.line THEN BadSpan
     ELSE FlattenSeq([i \in DOMAIN f |-> out(i)])

\* Mutation of CommentedBlockLine: a comment within the block ends it.
CommentedBlockLineStrict(l) == l.k = "off" /\ l.of.k \in {"host", "dir"}

\* A line the edit above can have made: a directive of the import subset, a
\* comment or nothing, behind a "# ".
CommentedBlockLine(l) == l.k = "off"

Reactivated(f) ==
  LET step(acc, l) ==
        IF l = Marker THEN [acc EXCEPT !.on = TRUE]
        ELSE IF acc.on /\ CommentedBlockLine(l)
        THEN [acc EXCEPT !.out = Append(@, l.of), !.lines = @ + 1]
        ELSE [acc EXCEPT !.out = Append(@, l), !.on = FALSE]
      res == FoldLeft(step, [out |-> <<>>, on |-> FALSE, lines |-> 0], f)
  IN IF res.lines = 0 THEN NoChange ELSE res.out

Edited(kind, f, blocks) ==
  CASE kind = "install"    -> Installed(f)
    [] kind = "uninstall"  -> Uninstalled(f)
    [] kind = "comment"    -> CommentedOut(f, blocks)
    [] kind = "reactivate" -> Reactivated(f)

(***************************************************************************)
(* Commands.  plan is what is left to do of one: the edits, and "retire",  *)
(* which parses the file again.                                            *)
(***************************************************************************)
At(pc) == cmd.pc = pc

End == cmd' = NoCmd

\* Mutation of ImportConfig: the Include need not be active.
ImportConfigAnyway(op) ==
  cmd' = [op |-> op, pc |-> "parse", plan |-> <<>>, blocks |-> {}, body |-> <<>>]

\* import --comment-source is refused until the Include is active, or the
\* hosts it comments out would stop resolving.
ImportConfig(op) ==
  /\ op = "import" => IsInstalled(file)
  /\ cmd' = [op |-> op, pc |-> "parse", plan |-> <<>>, blocks |-> {}, body |-> <<>>]

Starts == used.commands < MaxCommands /\ used' = [used EXCEPT !.commands = @ + 1]

RunImport(op) ==
  /\ cmd = NoCmd /\ op \in {"import", "setup"} /\ Starts
  /\ ImportConfig(op)
  /\ UNCHANGED <<file, backups, vault, halfway, original, wanted, unseen>>

RunInstall ==
  /\ cmd = NoCmd /\ Starts
  /\ cmd' = [op |-> "install", pc |-> "read", plan |-> <<"install">>,
             blocks |-> {}, body |-> <<>>]
  /\ UNCHANGED <<file, backups, vault, halfway, original, wanted, unseen>>

UninstallPlan == <<"uninstall", "reactivate">>

RunUninstall ==
  /\ cmd = NoCmd
  /\ used.commands < MaxCommands \/ halfway
  /\ used' = IF used.commands < MaxCommands
             THEN [used EXCEPT !.commands = @ + 1] ELSE used
  /\ cmd' = [op |-> "uninstall", pc |-> "read", plan |-> UninstallPlan,
             blocks |-> {}, body |-> <<>>]
  /\ UNCHANGED <<file, backups, vault, halfway, original, wanted, unseen>>

\* The source is read and parsed; setup goes on without it when it has no
\* blocks left.
Parse ==
  LET p == ParseImport(file) IN
  /\ At("parse")
  /\ \/ /\ p.refused \/ (p.hosts = {} /\ cmd.op = "import")
        /\ End
     \/ /\ ~p.refused /\ p.hosts # {}
        /\ cmd' = [cmd EXCEPT !.pc = "import", !.blocks = p.hosts]
     \/ /\ ~p.refused /\ p.hosts = {} /\ cmd.op = "setup"
        /\ cmd' = IF vault = {} /\ ~IsInstalled(file) THEN NoCmd
                  ELSE [cmd EXCEPT !.pc = "read", !.plan = <<"install">>]
  /\ UNCHANGED <<file, backups, vault, halfway, original, wanted, unseen, used>>

\* setup activates the Include before it comments out what it imported.
SetupPlan == <<"install", "retire", "comment">>

\* The daemon imports the hosts.  One the vault defines otherwise is kept as
\* a conflict; its block stays active, and setup stops.
ImportHosts ==
  LET new  == {b \in cmd.blocks : \A d \in vault : d.h # b.h}
      same == {b \in cmd.blocks : Definition(b) \in vault}
  IN
  /\ At("import")
  /\ vault' = vault \cup {Definition(b) : b \in new}
  /\ \/ /\ cmd.op = "setup" /\ new \cup same # cmd.blocks
        /\ End
     \/ /\ cmd.op = "setup" /\ new \cup same = cmd.blocks
        /\ cmd' = [cmd EXCEPT !.pc = "read", !.plan = SetupPlan]
     \/ /\ cmd.op = "import"
        /\ cmd' = [cmd EXCEPT !.pc = "read", !.plan = <<"comment">>, !.blocks = new \cup same]
  /\ UNCHANGED <<file, backups, halfway, original, wanted, unseen, used>>

\* After its prompts setup parses the file again and takes the blocks that
\* are still what it imported.
RetireImportedBlocks ==
  LET p == ParseImport(file)
      defs == {Definition(b) : b \in cmd.blocks}
  IN
  /\ At("read") /\ Head(cmd.plan) = "retire"
  /\ cmd' = IF p.refused THEN NoCmd
            ELSE [cmd EXCEPT !.plan = Tail(@),
                             !.blocks = {b \in p.hosts : Definition(b) \in defs}]
  /\ UNCHANGED <<file, backups, vault, halfway, original, wanted, unseen, used>>

(***************************************************************************)
(* One edit of the file.                                                   *)
(***************************************************************************)
EditDone(kind) ==
  /\ cmd' = IF Len(cmd.plan) = 1 THEN NoCmd
            ELSE [cmd EXCEPT !.pc = "read", !.plan = Tail(@)]
  /\ halfway' = CASE kind = "uninstall" -> halfway \/ At("rename")
                  [] kind = "reactivate" -> FALSE
                  [] OTHER -> halfway

\* A file that is not there needs no backup, and replaceUserConfig does not
\* look whether it still is not.
ReadUserConfig ==
  LET kind == Head(cmd.plan)
      next == Edited(kind, file, cmd.blocks)
  IN
  /\ At("read") /\ kind # "retire"
  /\ \/ /\ next = NoChange
        /\ EditDone(kind)
     \/ /\ next = BadSpan
        /\ End /\ UNCHANGED halfway
     \/ /\ next \notin {NoChange, BadSpan}
        /\ cmd' = [cmd EXCEPT !.pc = IF file = NoFile THEN "rename" ELSE "backup",
                              !.body = file]
        /\ UNCHANGED halfway
  /\ UNCHANGED <<file, backups, vault, original, wanted, unseen, used>>

BackupUserConfig ==
  /\ At("backup")
  /\ backups' = backups \cup {cmd.body}
  /\ cmd' = [cmd EXCEPT !.pc = "recheck"]
  /\ UNCHANGED <<file, vault, halfway, original, wanted, unseen, used>>

\* Mutation of Recheck: the new file is written over whatever is there.
RecheckNever ==
  /\ At("recheck")
  /\ cmd' = [cmd EXCEPT !.pc = "rename"]
  /\ UNCHANGED <<file, backups, vault, halfway, original, wanted, unseen, used>>

\* replaceUserConfig reads the file once more and gives up if it changed.
Recheck ==
  /\ At("recheck")
  /\ cmd' = IF file = cmd.body THEN [cmd EXCEPT !.pc = "rename"] ELSE NoCmd
  /\ UNCHANGED <<file, backups, vault, halfway, original, wanted, unseen, used>>

AtomicWrite ==
  /\ At("rename")
  /\ file' = Edited(Head(cmd.plan), cmd.body, cmd.blocks)
  /\ EditDone(Head(cmd.plan))
  /\ UNCHANGED <<backups, vault, original, wanted, unseen, used>>

Stop ==
  /\ cmd # NoCmd /\ used.stops < MaxStops
  /\ used' = [used EXCEPT !.stops = @ + 1]
  /\ End
  /\ UNCHANGED <<file, backups, vault, halfway, original, wanted, unseen>>

\* Where a command does not see a save: between the second reading of the file,
\* or the only one when there was none, and the rename, and between a parse and
\* the edit that goes by its line numbers.
Unseen == \/ At("rename")
          \/ At("import") /\ cmd.op = "import"
          \/ At("read") /\ Head(cmd.plan) = "comment"

(***************************************************************************)
(* The user inserts a line, or makes the file, and saves.  They leave      *)
(* alone what sshstate wrote: its block and the blocks it commented out.   *)
(***************************************************************************)
OutsideCommented(f, i) ==
  /\ i > 0 => f[i] \notin {Marker, Managed}
  /\ i < Len(f) => f[i + 1] # Managed
  /\ ~ (i > 0 /\ i < Len(f) /\ f[i].k = "off" /\ f[i + 1].k = "off")

UserSaves(i, l) ==
  /\ used.saves < MaxSaves
  /\ OutsideCommented(Text(file), i)
  /\ file' = InsertAt(Text(file), i + 1, l)
  /\ original' = {}
  /\ unseen' = (unseen \/ Unseen)
  /\ wanted' = IF l.k = "host" THEN wanted \cup {l.h} ELSE wanted
  /\ used' = [used EXCEPT !.saves = @ + 1]
  /\ UNCHANGED <<backups, vault, cmd, halfway>>

CommandStep == \/ Parse \/ ImportHosts \/ RetireImportedBlocks \/ ReadUserConfig
               \/ BackupUserConfig \/ Recheck \/ AtomicWrite

Next == \/ \E op \in {"import", "setup"} : RunImport(op)
        \/ RunInstall \/ RunUninstall \/ CommandStep \/ Stop
        \/ \E l \in UserLines : \E i \in 0..Len(Text(file)) : UserSaves(i, l)

Spec == Init /\ [][Next]_vars

-----------------------------------------------------------------------------

(***************************************************************************)
(* Every alias the user has defined goes on resolving, through the user's  *)
(* own block or through the Include and the vault, whichever commands ran, *)
(* stopped and ran again beside the user's editor.  Only an uninstall that *)
(* has not finished may leave one without either, or a save a command did  *)
(* not see (sshconfig/comment.go CommentOutBlocks, install.go              *)
(* replaceUserConfig, cli/import.go:68).                                   *)
(***************************************************************************)
AliasesResolve ==
  ~halfway /\ ~unseen => \A h \in wanted :
    h \in Aliases(file) \/ (IsInstalled(file) /\ \E d \in vault : d.h = h)

(***************************************************************************)
(* "Every change to ~/.ssh/config is backed up first"                      *)
(* (docs/cli-flows.md:466): what an edit replaces is the text of some      *)
(* backup, or there was no file.  A save between the second reading and    *)
(* the rename is lost, and so is a file the user makes after install found *)
(* none (sshconfig/install.go:46 and :183): no backup has it.              *)
(***************************************************************************)
EveryChangeIsBackedUp ==
  [][AtomicWrite /\ ~unseen => file \in backups \/ file = NoFile]_vars

(***************************************************************************)
(* Uninstall gives back the user's file as it was before sshstate edited   *)
(* it, line by line, whichever of install, import and setup ran, were cut  *)
(* off and ran again before, for a file in which nothing was commented     *)
(* out; where there was none it leaves an empty one or none                *)
(* (sshconfig/comment.go ReactivateBlocks, install.go Uninstall).          *)
(***************************************************************************)
UninstallRestores ==
  [][cmd.op = "uninstall" /\ cmd' = NoCmd /\ used.stops' = used.stops
       => \A f \in original :
            (\A i \in DOMAIN f : f[i].k # "off") => Text(file') = Text(f)]_vars
=============================================================================
