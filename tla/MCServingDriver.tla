---------------------------- MODULE MCServingDriver ----------------------------
(* Small workloads for ServingDriver.                                          *)
EXTENDS ServingDriver

SmallDatasets == { <<"fits", "fits">>, <<"refused", "fits">>, <<"fits", "refused">> }

Pool(quantized, group) ==
  [layers |-> 1, kv_dim |-> 16, heads |-> 2, block_size |-> 8, max_seq_len |-> 20,
   quantized |-> quantized, group_size |-> group]

\* A plain pool, and quantized ones with one and with two groups to a block.
PoolShapes == { Pool(FALSE, 8), Pool(TRUE, 8), Pool(TRUE, 4) }

=============================================================================
