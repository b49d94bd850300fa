-------------------------------- MODULE MCIFC --------------------------------
(* IFC for TLC: the programs that the runs look at. *)
EXTENDS IFC, TLC

CONSTANTS srv, up, ca, cb, cc, fn1, fn2

Program == [accepts |-> {}, joins |-> {}, serverSide |-> {},
            canceled |-> {}, masked |-> {}, ending |-> {}]

\* One server on two functions, three clients: locked, shared, and either.
OneServer == [Program EXCEPT
    !.accepts = {<<srv, {fn1}>>, <<srv, {fn1, fn2}>>},
    !.joins = {<<ca, srv, fn1, "lock">>, <<cb, srv, fn1, "shared">>,
               <<cc, srv, fn1, "shared">>, <<cc, srv, fn2, "lock">>},
    !.canceled = {srv},
    !.ending = {srv}]

\* A chain: cc joins srv, which accepts while it is joined with up.
Chain == [Program EXCEPT
    !.accepts = {<<up, {fn1}>>, <<srv, {fn2}>>},
    !.joins = {<<srv, up, fn1, "lock">>, <<cc, srv, fn2, "shared">>},
    !.canceled = {up, srv},
    !.masked = {srv}]

\* cc joins srv, and up from within that join, or the other way round, or one of them twice.
Nest == [Program EXCEPT
    !.accepts = {<<srv, {fn1}>>, <<up, {fn1}>>},
    !.joins = {<<cc, srv, fn1, "shared">>, <<cc, up, fn1, "shared">>},
    !.canceled = {up},
    !.masked = {cc},
    !.ending = {up}]

\* srv accepts on the id of up that it joined (server side), cc joins up on both.
Side == [Program EXCEPT
    !.accepts = {<<up, {fn1}>>, <<srv, {fn1}>>, <<srv, {fn2}>>},
    !.joins = {<<srv, up, fn1, "shared">>,
               <<cc, up, fn1, "shared">>, <<cc, up, fn2, "lock">>},
    !.serverSide = {srv},
    !.canceled = {up},
    !.ending = {up}]

AllPrograms == {OneServer, Chain, Nest, Side}

\* Two shared clients that may take turns for ever, and a locked one.
Turns == [Program EXCEPT
    !.accepts = {<<srv, {fn1}>>},
    !.joins = {<<ca, srv, fn1, "lock">>, <<cb, srv, fn1, "shared">>, <<cc, srv, fn1, "shared">>}]

\* A locked and a shared client; the first may park (join itself, ifc_park).
Park == [Program EXCEPT
    !.accepts = {<<srv, {fn1}>>},
    !.joins = {<<ca, srv, fn1, "lock">>, <<ca, ca, fn2, "lock">>, <<cb, srv, fn1, "shared">>},
    !.canceled = {ca},
    !.masked = {ca},
    !.ending = {srv}]

\* The chain, whose far end is canceled.
ChainCanceled == [Chain EXCEPT !.canceled = {up}, !.masked = {}]

LivePrograms == {Turns, Park, ChainCanceled}

\* The chain, of which both servers are canceled.
RestorePrograms == {[Chain EXCEPT !.masked = {}]}
=============================================================================
