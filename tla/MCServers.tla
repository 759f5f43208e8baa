----------------------------- MODULE MCServers -----------------------------
(***************************************************************************)
(* The instance of the servers TLC checks.  Blocks have 4 bytes; the files *)
(* are empty, shorter than a block, whole blocks, or longer.  In the       *)
(* second archive vfs.elf is missing.                                      *)
(***************************************************************************)
EXTENDS Servers

CONSTANTS vfs, init, other

File(name, size) == [name |-> <<".", name>>, size |-> size]

MCPrograms == {vfs, init}

MCArchives == {<<File(other, 3), File(vfs, 8), File(init, 9)>>,
               <<File(other, 0), File(init, 4)>>}

MCFileRequests ==
  {[signal |-> "open", path |-> <<vfs>>, mode |-> "RO"],
   [signal |-> "stat", path |-> <<init>>],
   [signal |-> "read", path |-> <<init>>, offset |-> 2, size |-> 4],
   [signal |-> "unknown"]}
=============================================================================
