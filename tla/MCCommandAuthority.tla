--------------------------- MODULE MCCommandAuthority ---------------------------
(* Three clients' commands: a laptop player command, a controller command and
   a laptop metadata edit, each sent once and delivered any number of times.  With
   a storage that may fail the two laptop commands are enough: that needs the
   crash and the failed save, not the race of roles. *)
EXTENDS CommandAuthority

CONSTANTS local, remote, edit

MCCommand == {local, remote, edit}
MCFaultyCommand == {local, edit}
MCRoleOf == [c \in MCCommand |-> IF c = remote THEN "controller" ELSE "local"]
MCKindOf == [c \in MCCommand |-> IF c = edit THEN "edit" ELSE "player"]
=============================================================================
