------------------------ MODULE MCBlockingPrimitives ------------------------
(* Instance of BlockingPrimitives for TLC. *)
EXTENDS BlockingPrimitives

CONSTANTS t1, t2, t3

MCThreads == {t1, t2, t3}
MCUsers == {t1, t2}
MCProducers == {t1}
=============================================================================
