--------------------------- MODULE MCQueueWorker ---------------------------
(* Small queues and few workers for TLC. *)
EXTENDS QueueWorker, TLC

(* Messages, tokens and workers are interchangeable; safety runs only. *)
Symmetry == Permutations(Ids) \cup Permutations(Tokens) \cup Permutations(Workers)
=============================================================================
