----------------------------- MODULE MCBusyInit -----------------------------
(***************************************************************************)
(* Two versions of an inittab that have between them an entry of every     *)
(* type: in the second a console is gone, another new, and the shutdown    *)
(* entries are exchanged.                                                  *)
(***************************************************************************)
EXTENDS BusyInit

Line(id, type) == [id |-> id, type |-> type]

First ==
    << Line("rc.sysinit", "sysinit"), Line("rc", "wait"),
       Line("sh", "respawn"), Line("init", "restart"),
       Line("umount", "shutdown"), Line("swapoff", "shutdown") >>
Second ==
    << Line("update", "once"), Line("tty2", "askfirst"),
       Line("reboot", "ctrlaltdel"),
       Line("swapoff", "shutdown"), Line("umount", "shutdown") >>

MCTables == {First, Second}
MCPids == 1 .. 6
=============================================================================
