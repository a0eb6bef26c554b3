---------------------------- MODULE MCPostOffice -----------------------------
(***************************************************************************)
(* PostOffice on two hosts: Kernel::NetworkTest on both, and two threads   *)
(* that send from one host at the same time.                               *)
(***************************************************************************)
EXTENDS PostOffice, TLC

MCPrograms ==
  {"test0" :> NetworkTest(0) @@ "test1" :> NetworkTest(1),
   "writer" :> [host |-> 0, ops |-> <<SendTo(1, 2), SendTo(1, 1)>>]
     @@ "rival" :> [host |-> 0, ops |-> <<SendTo(1, 2)>>]
     @@ "reader" :> [host |-> 1, ops |-> <<ReceiveFrom(2), SendTo(0, 0), ReceiveFrom(2)>>]}
=============================================================================
