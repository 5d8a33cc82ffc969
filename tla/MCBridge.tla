------------------------------ MODULE MCBridge ------------------------------
EXTENDS Bridge

CONSTANTS w1, w2, m1, m2, m3

Setup(workers, packets, requests, sizes, makers, bytes, reader) ==
    [workers |-> workers, packets |-> packets, requests |-> requests, sizes |-> sizes,
     makers |-> makers, bytes |-> bytes, reader |-> reader]

Plain == [call : {"sync"}, id : {TRUE}]

\* Two workers and any two requests; one worker and three requests whose methods
\* may read a pipe; one pipe with an application thread that reads it, and enough
\* bytes to fill it after the reader has overslept; two pipes;
\* three threads that register a pipe at once.
AllRequests == Setup({w1, w2}, 2, Requests, Sizes, {}, 0, "app")
Methods == Setup({w1}, 3, Plain, {"ok"}, {m1}, 2, "method")
OnePipe == Setup({w1}, 1, Plain, {"ok"}, {m1}, 5, "app")
TwoPipes == Setup({}, 0, {}, {}, {m1, m2}, 2, "app")
Registry == Setup({}, 0, {}, {}, {m1, m2, m3}, 0, "method")

AllSetups == {AllRequests, Methods, OnePipe, TwoPipes, Registry}
JustMethods == {Methods}
JustMakers == {Setup({}, 0, {}, {}, {m1, m2}, 2, "app")}
=============================================================================
