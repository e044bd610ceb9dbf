---------------------------- MODULE MCTaskMaker ----------------------------
(* An object that is started, stopped and started again at any time and a  *)
(* function that returns or not, over two records: the records change      *)
(* jobs, a stop holds the handle of a record another job runs in, and the  *)
(* pool is destroyed with or without a busy record.                        *)
EXTENDS TaskMaker

=============================================================================
