---------------------------- MODULE MCDataLoader ----------------------------
(* DataLoader for TLC. *)
EXTENDS DataLoader

Cfg(size, cached, run) == [maxBatchSize |-> size, cache |-> cached, runner |-> run]

\* Without a cache two loads of a key are two tasks: three of them make a full
\* batch and a short one.  With it, batches of one and of everything.
ThreeConfigs == {Cfg(2, FALSE, TRUE), Cfg(1, TRUE, FALSE), Cfg(0, TRUE, TRUE)}

\* Jobs go to a Runner, which may refuse them.
RunnerConfig == {Cfg(0, TRUE, TRUE)}
=============================================================================
