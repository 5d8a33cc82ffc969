---------------------------- MODULE MCRubicAgent ----------------------------
EXTENDS RubicAgent
CONSTANTS c1, c2

\* What the host asks of worker 0, or of any worker
Start == [name |-> "start", tid |-> NONE, valid |-> TRUE]
BadStart == [name |-> "start", tid |-> NONE, valid |-> FALSE]
Started == [name |-> "start", tid |-> 0, valid |-> TRUE]
Abort == [name |-> "abort", tid |-> 0, valid |-> FALSE]
AbortAny == [name |-> "abort", tid |-> NONE, valid |-> FALSE]
AwaitResult == [name |-> "callback", tid |-> 0, valid |-> FALSE]

Starts == {Start, BadStart}
Controls == {Start, Abort, AwaitResult}
Patients == Starts \cup Controls
Mixed == Starts \cup Controls \cup {Started, AbortAny}

Setup(agents, autoboot, jobs, requests) ==
    [agents |-> agents, autoboot |-> autoboot, jobs |-> jobs, requests |-> requests]

\* One worker without a boot program; two with one; each with fewer requests of
\* all kinds and with more of a few kinds.
One == Setup({0}, FALSE, 3, Patients)
OneLong == Setup({0}, FALSE, 4, Controls)
Two == Setup({0, 1}, TRUE, 2, Mixed)
TwoLong == Setup({0, 1}, TRUE, 3, {Start, Abort})

AllSetups == {One, OneLong, Two, TwoLong}

\* For the disagreements: one worker, or two without a boot program.
TwoControls == {Setup({0}, FALSE, 2, Controls)}
ThreeStarts == {Setup({0, 1}, FALSE, 3, Starts)}
BootOnly == {Setup({0}, TRUE, 1, Starts)}

\* boot.json: up to two members, of which one names the file, and any values.
Text(s) == [string |-> TRUE, text |-> s]
Value(s) == [string |-> FALSE, text |-> s]
Members(names, values) == [key : {<<k>> : k \in names}, value : values]
Files == {Text(<<"main">>), Text(<<"/", "main">>), Text(<< >>), Text(<<"a", "\\", "\"", "}">>)}
Values == {Text(<<"mruby">>), Text(<<"lua">>), Text(<<"]", ",">>), Value(<<"1">>), Value(<<"[", "]">>),
           Value(<<"[", "1", "]">>), Value(<<"[", "1", ",", "1", "]">>),
           Value(<<"{", "\"", "file", "\"", ":", "\"", "b", "\"", "}">>)}
MCBootObjects ==
    LET file == Members({"file"}, Files) other == Members({"runtime", "x"}, Values)
    IN {<<m>> : m \in file \cup other} \cup {<<m, n>> : m \in file, n \in other}
         \cup {<<m, n>> : m \in other, n \in file}
MCBootPath == <<"/", "mnt", "/", "internal">>
MCBootRuntimes == <<"mruby">>
=============================================================================
