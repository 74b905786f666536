--------------------------- MODULE KernelInternal ---------------------------
(***************************************************************************)
(* What the memory managers share: include/kernel_internal.h.              *)
(***************************************************************************)
EXTENDS Naturals

\* The next multiple of a, which is a power of two in the code.
ALIGN_UP(x, a) == ((x + a - 1) \div a) * a
=============================================================================
