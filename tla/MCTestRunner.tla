---------------------------- MODULE MCTestRunner ----------------------------
(* An instance of TestRunner for TLC: four tests in three suites. *)
EXTENDS TestRunner

CONSTANTS t1, t2, t3, t4

MCSuites == <<<<t1>>, <<t2, t3>>, <<t4>>>>

Plain ==
  [fail_fast |-> FALSE, catch_exceptions |-> TRUE, throw_on_failure |-> FALSE,
   shuffle |-> FALSE, also_run_disabled |-> FALSE, recreate |-> TRUE,
   repeat |-> 1, total_shards |-> 1, shard_index |-> 0, matching |-> Test]

\* The flags one by one, and those together that act on each other.
MCFlags ==
  { Plain,
    [Plain EXCEPT !.fail_fast = TRUE, !.shuffle = TRUE],
    [Plain EXCEPT !.fail_fast = TRUE, !.repeat = 2, !.recreate = FALSE,
                  !.matching = {t2, t3, t4}],
    [Plain EXCEPT !.repeat = 2, !.matching = {t3, t4},
                  !.also_run_disabled = TRUE],
    [Plain EXCEPT !.repeat = -1, !.recreate = FALSE, !.matching = {t1}],
    [Plain EXCEPT !.repeat = 2, !.matching = {}],
    [Plain EXCEPT !.repeat = 0],
    [Plain EXCEPT !.catch_exceptions = FALSE, !.matching = {t1, t2}],
    [Plain EXCEPT !.throw_on_failure = TRUE, !.matching = {t2, t3}],
    [Plain EXCEPT !.total_shards = 2, !.shard_index = 1] }
=============================================================================
