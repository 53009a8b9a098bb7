------------------------------- MODULE MCTasks -------------------------------
(***************************************************************************)
(* Tasks with the configurations that TLC checks: two nodes, and of the     *)
(* crash reports, the merges and the fuzzing several variants.              *)
(***************************************************************************)
EXTENDS Tasks, TLC

CONSTANTS w1, w2

Symmetry == Permutations({w1, w2})

OneMsg == [m1 |-> "i1"]
ReportMsg == [m1 |-> "i1", m2 |-> BadUrl]
BothMsg == [m1 |-> "i1", m2 |-> "i2"]
CoverageMsg == [m1 |-> "i2", m2 |-> "i3"]
Cover12 == [i1 |-> {"f1"}, i2 |-> {"f2"}]
Cover13 == [i1 |-> {"f1"}, i3 |-> {"f1", "f2"}]
Cover123 == [i1 |-> {"f1"}, i2 |-> {"f2"}, i3 |-> {"f1", "f2"}]
KnownBlocks == [i1 |-> {"b1", "b2"}, i2 |-> {"b1", "b2", "b3"}, i3 |-> {"b1", "b2", "b3"}]
HitBlocks == [i1 |-> {"b1"}, i2 |-> {"b2"}, i3 |-> {"b1", "b3"}]
\* Tests are flaky, so that this build behaves as one without the second crash, too.
Builds == {[i1 |-> "s1", i2 |-> "s1"]}
ReportFile(nm, result, i) == [name |-> nm, result |-> result, input |-> i]
ReportFiles ==
    [reports |-> {ReportFile(<<"input", "i1">>, "crash", "i1"),
                  ReportFile(<<"input", "i2">>, "garbage", "i2")},
     unique_reports |-> {ReportFile(<<"stack", "s1">>, "crash", "i1")},
     no_repro |-> {ReportFile(<<"input", "i1">>, "norepro", "i1")}]

ReportConfigs ==
    [generic |-> [Worker |-> {w1, w2}, MsgInput |-> OneMsg,
        Dirs |-> {"unique", "reports", "no_repro"}, CheckQueue |-> TRUE,
        Input |-> {"i1", "i2"}, Stack |-> {"s1"}, Msg |-> {"m1"},
        Kind |-> "generic", MaxRetry |-> 0, MaxPops |-> 2],
     libfuzzer |-> [Worker |-> {w1, w2}, MsgInput |-> OneMsg,
        Dirs |-> {"unique", "reports", "no_repro"}, CheckQueue |-> TRUE,
        Input |-> {"i1"}, Stack |-> {"s1", "s2"}, Msg |-> {"m1"},
        Kind |-> "libfuzzer", MaxRetry |-> 1, MaxPops |-> 2],
     libfuzzer_dotnet |-> [Worker |-> {w1, w2}, MsgInput |-> ReportMsg,
        Dirs |-> {"unique", "reports", "no_repro"}, CheckQueue |-> TRUE,
        Input |-> {"i1"}, Stack |-> {"s1"}, Msg |-> {"m1", "m2"}, Kind |-> "dotnet",
        MaxRetry |-> 0, MaxPops |-> 2]]

MergeConfigs ==
    [libfuzzer |-> [Worker |-> {w1, w2}, Feature |-> {"f1", "f2"}, Covers |-> Cover12,
        Msg |-> {"m1"}, MsgInput |-> OneMsg, Input |-> {"i1", "i2"},
        Kind |-> "libfuzzer", QueueMode |-> TRUE, Preserve |-> TRUE,
        MaxFailure |-> 1, MaxRetry |-> 2, MaxPops |-> 3],
     generic |-> [Worker |-> {w1, w2}, Feature |-> {"f1", "f2"}, Covers |-> Cover13,
        Msg |-> {"m1", "m2"}, MsgInput |-> ReportMsg, Input |-> {"i1", "i3"},
        Kind |-> "generic", QueueMode |-> TRUE, Preserve |-> TRUE, MaxFailure |-> 1,
        MaxRetry |-> 1, MaxPops |-> 2],
     libfuzzer_batch |-> [Worker |-> {w1, w2}, Feature |-> {"f1", "f2"},
        Covers |-> Cover123, Msg |-> {"m1", "m2"}, MsgInput |-> BothMsg,
        Input |-> {"i1", "i2", "i3"}, Kind |-> "libfuzzer", QueueMode |-> FALSE,
        Preserve |-> FALSE, MaxFailure |-> 1, MaxRetry |-> 1, MaxPops |-> 2]]

AnalysisConfigs ==
    [generic |-> [Worker |-> {w1, w2}, Input |-> {"i1", "i2"}, Msg |-> {"m1", "m2"},
        MsgInput |-> BothMsg, HasCrashes |-> TRUE, HasReports |-> TRUE,
        SyncEvery |-> 2, MaxPops |-> 2]]

CoverageConfigs ==
    [libfuzzer |-> [Input |-> {"i1", "i2", "i3"}, Block |-> {"b1", "b2", "b3"},
        Known |-> KnownBlocks, Hit |-> HitBlocks, Corpus |-> {"i1", "i2"},
        Msg |-> {"m1", "m2"}, MsgInput |-> CoverageMsg, Attempts |-> 2,
        SaveEvery |-> 2, MaxPops |-> 3, MaxCrashes |-> 2]]

DotnetConfigs ==
    [libfuzzer_dotnet |-> [Input |-> {"i1", "i2", "i3"}, Corpus |-> {"i1"},
        Attempts |-> 2]]

RegressionConfigs ==
    [libfuzzer |-> [Nodes |-> {w1, w2}, Inputs |-> {"i1", "i2"}, Stacks |-> {"s1"},
        Files |-> ReportFiles, Lists |-> {None, {<<"input", "i1">>}},
        Flaky |-> TRUE, Scheme |-> "https", Builds |-> Builds]]

FuzzConfigs ==
    [libfuzzer |-> [Workers |-> {w1, w2}, CrashFiles |-> {"crash"},
        InputFiles |-> {"input"}, ExpectCrash |-> TRUE, MaxAttempts |-> 2,
        MaxRuns |-> 1],
     libfuzzer_again |-> [Workers |-> {w1, w2}, CrashFiles |-> {"crash"},
        InputFiles |-> {}, ExpectCrash |-> TRUE, MaxAttempts |-> 2, MaxRuns |-> 2]]
==============================================================================
