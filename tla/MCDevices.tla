----------------------------- MODULE MCDevices ------------------------------
(***************************************************************************)
(* Devices with the kernel's workloads: "nachos -C" after the file system  *)
(* was opened (Boot) and in a FILESYS_STUB build, and threads that share   *)
(* the console and the disk.                                               *)
(***************************************************************************)
EXTENDS Devices

Echo == [kind |-> "echo"]
Put(c) == [kind |-> "put", ch |-> c]
DiskRead(s) == [kind |-> "read", sector |-> s]
DiskWrite(s) == [kind |-> "write", sector |-> s]

Instructions(n) == [k \in 1 .. n |-> [kind |-> "run"]]

MCWorkloads ==
  {"main" :> <<DiskRead(1), [kind |-> "enable"], Echo, DiskRead(0)>>,
   "main" :> <<Echo>> @@ "a" :> Instructions(14),
   "main" :> <<Echo>> @@ "a" :> <<Echo>> @@ "b" :> Instructions(5) \o <<DiskRead(4)>>,
   "main" :> <<DiskRead(1), DiskRead(2), DiskWrite(1), DiskRead(4)>>
     @@ "a" :> <<Put("x"), DiskRead(2), Put("y"), DiskRead(0)>>}

MCKeyboards == {[chars |-> <<>>, ended |-> TRUE], [chars |-> <<"p", "q">>, ended |-> TRUE],
                [chars |-> <<"p">>, ended |-> FALSE]}
=============================================================================
