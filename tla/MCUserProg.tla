----------------------------- MODULE MCUserProg ------------------------------
(***************************************************************************)
(* UserProg on command lines: -cp, -p, -r and -f in several orders, with   *)
(* UNIX files of up to more than the disk holds, and user programs like    *)
(* those of test/, alone, one after the other and at once.                 *)
(***************************************************************************)
EXTENDS UserProg, TLC

MkFile(name, n) == [op |-> "create", name |-> name, n |-> n]
OpenIt(name) == [op |-> "open", name |-> name]
WriteN(bytes) == [op |-> "write", n |-> Len(bytes), bytes |-> bytes]
ReadN(n) == [op |-> "read", n |-> n]
CloseIt == [op |-> "close"]

MCImages ==
  "test1" :> <<MkFile("f", 3), OpenIt("f"), WriteN(<<1>>), WriteN(<<2, 3>>), CloseIt, [op |-> "exit"]>>
  @@ "test2" :> <<OpenIt("f"), ReadN(2), ReadN(2), CloseIt, [op |-> "halt"]>>
  @@ "other" :> <<MkFile("g", 1), OpenIt("g"), WriteN(<<4>>), CloseIt, [op |-> "exit"]>>
  @@ "patch" :> <<OpenIt("f"), WriteN(<<7>>), ReadN(2), WriteN(<<8, 9>>), CloseIt, [op |-> "exit"]>>
  @@ "two" :> <<MkFile("h", 40), MkFile("k", 1), MkFile("g", 1), OpenIt("k"), OpenIt("g"), CloseIt, CloseIt,
                [op |-> "exit"]>>

MCUnixFiles ==
  "u0" :> <<>> @@ "u1" :> <<1>> @@ "u3" :> <<1, 2, 3>> @@ "u5" :> <<1, 2, 3, 4, 5>>
  @@ "u6" :> <<1, 2, 3, 4, 5, 6>> @@ "u9" :> <<1, 2, 3, 4, 5, 6, 7, 8, 9>>
  @@ "u12" :> <<1, 2, 3, 4, 5, 6, 7, 8, 9, 10, 11, 12>>

MCOldFiles == {[name |-> "f", bytes |-> <<9, 8, 7>>, dir |-> FALSE],
               [name |-> "f", bytes |-> <<0, 0>>, dir |-> TRUE]}

MCCommandLines ==
  UNION {{<<"-cp", u, "f", "-p", "f">>, <<"-p", "f", "-cp", u, "f", "-r", "f">>,
          <<"-f", "-p", "f", "-cp", u, "f">>, <<"-rr", "f", "-cp", u, "f", "-lr", "/">>} :
           u \in DOMAIN MCUnixFiles}
  \union {<<"-cp", u, "f", "-r", "f", "-e", "patch">> : u \in {"u3", "u5", "u6"}}
  \union {<<"-mkdir", "d", "-cp", "none", "d", "-p", "d", "-D", "-rr", "d">>,
          <<"-e", "test1">>, <<"-e", "test1", "-e", "test2">>,
          <<"-e", "test1", "-e", "other">>, <<"-e", "other", "-e", "other">>,
          <<"-e", "two">>, <<"-e", "none">>, <<"-f", "-e", "test1">>}
=============================================================================
