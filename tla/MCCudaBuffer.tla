---------------------------- MODULE MCCudaBuffer ----------------------------
(***************************************************************************)
(* An instance of CudaBuffer for TLC: two host threads that share a device *)
(* and buffers of one to three entries.  Each configuration has the bounds *)
(* that let its cases happen.                                              *)
(***************************************************************************)
EXTENDS CudaBuffer

Symmetry == Permutations(Streams)
MCHosts == 1 .. 2

Config(kernels, memcpyAsync, idle, concurrent, sync, size, bound, delay, run) ==
  [kernels |-> kernels, memcpyAsync |-> memcpyAsync, idle |-> idle,
   concurrent |-> concurrent, sync |-> sync, size |-> size, deviceCount |-> 2,
   maxCalls |-> bound, maxDelay |-> delay, maxRun |-> run]
MCConfigs ==
  {Config(TRUE, TRUE, FALSE, TRUE, 3, 9, <<3, 0>>, 12, 1),
   Config(TRUE, TRUE, TRUE, FALSE, 3, 13, <<4, 0>>, 12, 2),
   Config(TRUE, FALSE, TRUE, FALSE, 2, 8, <<3, 0>>, 0, 3),
   Config(TRUE, TRUE, FALSE, TRUE, 1, 9, <<2, 1>>, 0, 1),
   Config(FALSE, TRUE, FALSE, FALSE, 0, 5, <<3, 1>>, 0, 1)}
=============================================================================
