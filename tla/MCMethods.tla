------------------------------ MODULE MCMethods ------------------------------
EXTENDS Methods

\* A stand-in for the 64 rounds of MD5 that depends on every byte and its place.
Mix(sum, chunk) ==
    [i \in 1..16 |-> (3 * sum[i] + chunk[i] + 5 * chunk[i + 16] + 7 * chunk[i + 32]
                        + 11 * chunk[i + 48] + i) % 256]
Zeros == [i \in 1..16 |-> 0]

x == <<120>>
As(n) == [i \in 1..n |-> 97]

MCKeys == {x, id}
MCStrings == {<< >>, As(1)}
MCInts == {-1, 300}
MCDoubles == {<<0, 0, 0, 0, 0, 0, 240, 63>>}
MCContents == {<< >>, <<7, 0>>}
MCForeign == {[type |-> ObjectId, value |-> [i \in 1..12 |-> i - 1]], [type |-> Regex, value |-> <<97, 0, 0>>],
              [type |-> 127, value |-> << >>]}
MCRequests == {<< >>, <<Element(Int32, id, Int4(5))>>,
               <<Element(Int32, x, Int4(1)), Element(String, id, EncodeString(As(1)))>>}
MCFiles == {[i \in 1..n |-> (i * 7) % 256] : n \in {0, 3, 5, 55, 56, 64}}
MCThreads == {1, 3}
MCRuntimes == {[name |-> As(14), version |-> As(12)], [name |-> As(14), version |-> As(13)],
               [name |-> As(1), version |-> << >>]}
MCStorages == {[name |-> As(4), path |-> As(n)] : n \in {40, 48, 49}}
Scope == [type |-> CodeScope, value |-> Int4(14) \o EncodeString(<< >>) \o Encode(<< >>)]
MCScope == {Scope}
=============================================================================
