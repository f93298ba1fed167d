------------------------ MODULE MCQueueImplementsBank ------------------------
(* The instances of MCTransactionQueue, checked against Bank. *)
EXTENDS MCTransactionQueue, QueueImplementsBank
=============================================================================
