------------------------------ MODULE MCMysqlHub -----------------------------
(* A MySQL item and another one; of the four queries two, with two rows     *)
(* each, and two batches.                                                   *)
EXTENDS MysqlHub

CONSTANTS h1, d1, k1, k2
=============================================================================
