------------------------------ MODULE MCIOBlock ------------------------------
(* IOBlock for TLC: the programs that the runs look at. *)
EXTENDS IOBlock

CONSTANTS rd, wr, fd1, fd2

\* A fiber that reads and one that writes, or takes the other's part when it is done.
Socket == [uses |-> {<<rd, fd1, "read">>, <<wr, fd1, "read">>, <<wr, fd1, "write">>},
           contend |-> FALSE, full |-> {}, canceled |-> {rd}, masked |-> {}]

\* The same, and they may get in each other's way.
Contended == [Socket EXCEPT !.contend = TRUE, !.canceled = {rd, wr}, !.masked = {rd}]

\* Two descriptors, so that the monitor holds events of both; one does not register.
Pipes == [uses |-> {<<rd, fd1, "read">>, <<wr, fd2, "write">>, <<wr, fd1, "read">>},
          contend |-> FALSE, full |-> {fd2}, canceled |-> {rd}, masked |-> {}]

AllPrograms == {Socket, Contended, Pipes}

FullPrograms == {[Socket EXCEPT !.full = {fd1}, !.canceled = {}]}
=============================================================================
