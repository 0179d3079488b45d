------------------------------ MODULE MCServers ------------------------------
(* Servers on small instances: the requests, texts, packets and messages    *)
(* that their peers send.                                                   *)
EXTENDS Servers

CONSTANTS old, new, help, binary, w, c

(* Version control: a file and a file in a folder of its name, contents     *)
(* that read as a command, and every way of a request to be refused.        *)
MCFilePath == {<<"a">>, <<"a", "b">>}
MCFolder == {<<>>, <<"a">>}
A == <<"", "a">>
AB == <<"", "a", "b">>
Root == <<"", "">>
Slashed == <<"", "a", "">>
Line(method, path) == [method |-> method, path |-> path]
Bare(method) == [method |-> method]
Put(path, content) == <<Line("put", path), [method |-> "data", content |-> content]>>
Get(path, revision) == <<[method |-> "get", path |-> path, revision |-> revision]>>
MCReadAs == [d \in FileContent |-> Bare(IF d = help THEN "help" ELSE "other")]
MCRequest ==
  {Put(A, old), Put(A, new), Put(AB, old)}
  \union {Put(A, binary), Put(Slashed, help), <<Bare("usage"), Put(A, old)[2]>>,
          <<Line("put", A), Bare("end")>>, <<Bare("end")>>,
          Get(AB, Nothing), Get(A, 0), Get(A, 1)}
  \union {<<Line("list", p)>> : p \in {Root, A, Slashed}}

(* The proxy: addresses that share a space, parts of lines, and a wide      *)
(* character in the middle of one.                                          *)
MCTexts ==
  {<<Address, Space, Address, NewLine>>, <<NewLine, w>>, <<w, NewLine, w, Wide>>}

(* Bytes of three bits: 0 and 1 are letters, 2 and 3 counts of toys.  The   *)
(* long specification changes bytes at the last position only.              *)
MCCipherSpec ==
  {<<1>>, <<1, 1>>, <<2, 3>>, <<2, 0>>, <<3, 3>>, <<4, 5>>, <<4, 4, 4, 4>>, <<5>>,
   <<2, 3, 5, 1>>, <<3, 1, 5>>, <<6>>, <<4>>,
   <<3, 1, 5, 3, 2, 2, 5, 1, 3, 1, 5, 5, 5, 5, 5, 5, 5, 2, 2, 3, 5, 5, 5, 5, 5, 5, 5, 1>>}
MCPlaintext ==
  {<<2, 6, 3, 0, 6, 3, 1, 7, 2, 6, 2, 1, 7, 3, 4, 5, 7, 2>>, <<2, 7, 7, 2, 7>>, <<3, 1, 7, 0, 7>>}

(* Numbers of six bits: the ends of their range, and values next to zero.   *)
MCTime == {-32, -1}
MCPrice == {-32, 30, 31}

MCPacket ==
  {<<"a", "=", "x">>, <<"a", "=", "y", "=", "x">>, <<"=", "x">>, <<"version", "=", "x">>,
   <<"a">>, <<>>, <<"version">>, <<"a", "bad">>, <<"a", "=">>,
   <<"a", "b", "a", "b", "=", "x">>}
MCVersionKey == <<"version">>
MCVersionVal == <<"1.0">>

(* In halves: -2, 0, 1, 2, 2.5, 9, 13, 16 that is u64::MAX + 1, 18, 34.     *)
MCNumber == {-4, 0, 2, 4, 5, 18, 26, 32, 36, 68}

MCSize == [type \in {"u8", "u16", "u32"} |->
             CASE type = "u8" -> 1 [] type = "u16" -> 2 [] type = "u32" -> 3]
MCPestMessage ==
  {[kind |-> "Ok", values |-> <<>>],
   [kind |-> "Hello", values |-> <<<<3, 1>>, 1>>],
   [kind |-> "TargetPopulations", values |-> <<2, <<<<<<5>>, 1, 16>>>>>>],
   [kind |-> "SiteVisit", values |-> <<1, <<<<<<2>>, 3>>, <<<<>>, 0>>>>>>],
   [kind |-> "DeletePolicy", values |-> <<3>>]}
MCSpeedMessage ==
  {[kind |-> "Plate", values |-> <<<<1, 7, 2, 3, 4, 5, 6>>, 4095>>],
   [kind |-> "Plate", values |-> <<<<>>, 16>>],
   [kind |-> "WantHeartBeat", values |-> <<10>>],
   [kind |-> "IAmCamera", values |-> <<255, 16, 1>>],
   [kind |-> "IAmDispatcher", values |-> <<<<<<9>>, <<2>>>>>>],
   [kind |-> "IAmDispatcher", values |-> <<<<>>>>],
   [kind |-> "Error", values |-> <<<<2, 1>>>>],
   [kind |-> "HeartBeat", values |-> <<>>],
   [kind |-> "Ticket", values |-> <<<<3>>, 7, 16, 500, 9, 4095, 255>>]}
=============================================================================
