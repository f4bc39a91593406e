------------------------- MODULE MCDatasetLifecycle -------------------------
(* Small instances of DatasetLifecycle for TLC.  Each .cfg chooses the      *)
(* datasets, how many requests overlap, and one of these sets of operations *)
(* and failures.                                                            *)
EXTENDS DatasetLifecycle, TLC

\* The life of a dataset, from creation to retirement.
Transitions == {"Create", "Edit", "ReadyToPublish", "Live", "Retire"}

\* The same with the operations on a draft.
Drafting == Transitions \cup {"Update", "Delete"}

\* The same without Delete: the draft of a failed publication stays.
Retrying == Transitions \cup {"Update"}

\* Publication of new and changed datasets.
Publishing == {"Create", "Update", "Edit", "ReadyToPublish", "Live"}

\* Failures of the services, of what they depend on, and of a transaction.
Outages == {"abort", "workerCrash", "apiCrash", "rollback", "submit", "restart", "alerts", "terminate"}

\* Requests are interchangeable.
RequestSymmetry == Permutations(Requests)

=============================================================================
