---------------------------- MODULE MCUserConfig ----------------------------
EXTENDS UserConfig

CONSTANTS web, git, laptop

\* Two blocks, the first with a comment and an empty line within it, and a
\* note of the user's between them.
Noted == <<HostLine(web), Dir(1), Note, Blank, Dir(2), Note, HostLine(git), Dir(3)>>
Plain == <<HostLine(web), Dir(1), HostLine(git), Dir(2)>>
\* The user has commented out a directive below a block.
Disabled == <<HostLine(web), Dir(1), Off(Dir(2)), Blank>>
\* A block with no directives, for an alias that is also its host name.
Bare == <<HostLine(web), Dir(1), HostLine(git)>>
Files == {Noted, Plain, Disabled, Bare, <<>>, NoFile}

\* Nothing, or another definition of one of the hosts.
Vaults == {{}, {[h |-> git, dirs |-> <<9>>]}}

Lines == {HostLine(laptop), Note, Other}
=============================================================================
