------------------------------- MODULE Servers -------------------------------
(***************************************************************************)
(* The program (src/src/main.rs): one executable with a server for every   *)
(* problem, of which its argument chooses one, for good.  It is composed   *)
(* here of the servers, and the parts of servers, that have no module that *)
(* composes them with others: the chosen one runs, the others keep their   *)
(* initial state.                                                          *)
(***************************************************************************)
EXTENDS Integers, Sequences

CONSTANTS
  Client, Name, Empty, FilePath, Folder, FileContent, NotText, ReadAs, Request,
  Nothing, Illegal, MaxRequests,                                 \* VersionControl
  Word, Address, Tony, Space, NewLine, Wide, Texts, MaxTokens,   \* ChatProxy
  ByteWidth,                                   \* bits of a byte of the next two
  NewLineByte, Comma, Lead, Trail, Digit, CipherSpec, Plaintext,
  MaxRead,                                                       \* InsecureSockets
  Bytes, Time, Price, MaxInserts,                                \* Means
  Packet, Equals, NotUtf8, VERSION_KEY, VERSION_VAL, PacketLen,
  MaxPackets,                                                    \* Database
  U64Width, Number, MaxNumbers,                                  \* PrimeTime
  Base, Size, MaxMessages,                     \* of the next two
  PestMessage, PestLength, TOO_MUCH_LENGTH,                      \* PestMessages
  SpeedMessage, SpeedLength,                                     \* SpeedMessages
  Char, Backslash, Slash, Newline, MaxSize, MaxText, ConnectWord, DataWord,
  AckWord, CloseWord, NoMessage,                                 \* LrcpText
  Session, NoSession, Capacity, MaxInternal                      \* LineListener

VARIABLES
  server,  \* the executor main has chosen, "none" before
  files, folders, input, asked, pc, reply, told, misled, requests,
  sent, taken, prev_part, written, writing, target, name_established, ended,
  closed, broken, relay,
  spec, plain, phase, operations, req_pos, res_pos, prev_buf, replies, cut,
  pricings, inserts, query, response, finished,
  kv_store, received, answers,
  lines, outputs, stopped,
  pest_sent, pest_stream, damaged, pest_got, refused,
  reader, speed_sent, speed_stream, arrived, speed_got, failed,
  text,
  up, held, task, channel, asleep

vcsVars == <<files, folders, input, asked, pc, reply, told, misled, requests>>
proxyVars == <<sent, taken, prev_part, written, writing, target, name_established,
               ended, closed, broken, relay>>
socketVars == <<spec, plain, phase, operations, req_pos, res_pos, prev_buf, replies, cut>>
meansVars == <<pricings, inserts, query, response, finished>>
databaseVars == <<kv_store, received, answers>>
primeVars == <<lines, outputs, stopped>>
pestVars == <<pest_sent, pest_stream, damaged, pest_got, refused>>
speedVars == <<reader, speed_sent, speed_stream, arrived, speed_got, failed>>
sessionVars == <<up, held, task, channel, asleep>>

V == INSTANCE VersionControl WITH Content <- FileContent
P == INSTANCE ChatProxy
S == INSTANCE InsecureSockets WITH Width <- ByteWidth, NewLine <- NewLineByte
M == INSTANCE Means WITH Width <- ByteWidth
D == INSTANCE Database
T == INSTANCE PrimeTime WITH Width <- U64Width, MaxRequests <- MaxNumbers
E == INSTANCE PestMessages
  WITH Message <- PestMessage, LengthType <- PestLength,
       sent <- pest_sent, stream <- pest_stream, got <- pest_got
G == INSTANCE SpeedMessages
  WITH Message <- SpeedMessage, LengthType <- SpeedLength,
       sent <- speed_sent, stream <- speed_stream, got <- speed_got
L == INSTANCE LrcpText
K == INSTANCE LineListener

ASSUME VersionAssumption == V!VersionAssumption
ASSUME ProxyAssumption == P!ProxyAssumption
ASSUME PacketAssumption == L!PacketAssumption
ASSUME SocketsAssumption == S!SocketsAssumption
ASSUME MeansAssumption == M!MeansAssumption
ASSUME DatabaseAssumption == D!DatabaseAssumption
ASSUME NumberAssumption == T!NumberAssumption
ASSUME PestFieldsAssumption == E!FieldsAssumption
ASSUME SpeedFieldsAssumption == G!FieldsAssumption
ASSUME ListenerAssumption == K!ListenerAssumption

serverVars ==
  <<server, vcsVars, proxyVars, socketVars, meansVars, databaseVars,
    primeVars, pestVars, speedVars, text, sessionVars>>

Init ==
  /\ server = "none"
  /\ V!Init /\ P!Init /\ S!Init /\ M!Init /\ D!Init
  /\ T!Init /\ E!Init /\ G!Init /\ L!Init /\ K!Init

(* The match over the number of the problem.                               *)
Executor ==
  {"p1_prime", "p2_means", "p4_db", "p5_middle", "p6_speed", "p7_reversal",
   "p8_insecure", "p10_vcs", "p11_pest_control"}

Choose(executor) ==
  /\ server = "none" /\ server' = executor
  /\ UNCHANGED <<vcsVars, proxyVars, socketVars, meansVars, databaseVars,
                 primeVars, pestVars, speedVars, text, sessionVars>>

(* The chosen one runs until the program ends.                             *)
Versions ==
  /\ server = "p10_vcs" /\ V!Next
  /\ UNCHANGED <<server, proxyVars, socketVars, meansVars, databaseVars,
                 primeVars, pestVars, speedVars, text, sessionVars>>

OnlyProxy(A) ==
  /\ server = "p5_middle" /\ A
  /\ UNCHANGED <<server, vcsVars, socketVars, meansVars, databaseVars,
                 primeVars, pestVars, speedVars, text, sessionVars>>
Proxy == OnlyProxy(P!Next)

Sockets ==
  /\ server = "p8_insecure" /\ S!Next
  /\ UNCHANGED <<server, vcsVars, proxyVars, meansVars, databaseVars,
                 primeVars, pestVars, speedVars, text, sessionVars>>

Means ==
  /\ server = "p2_means" /\ M!Next
  /\ UNCHANGED <<server, vcsVars, proxyVars, socketVars, databaseVars,
                 primeVars, pestVars, speedVars, text, sessionVars>>

Database ==
  /\ server = "p4_db" /\ D!Next
  /\ UNCHANGED <<server, vcsVars, proxyVars, socketVars, meansVars,
                 primeVars, pestVars, speedVars, text, sessionVars>>

Primes ==
  /\ server = "p1_prime" /\ T!Next
  /\ UNCHANGED <<server, vcsVars, proxyVars, socketVars, meansVars,
                 databaseVars, pestVars, speedVars, text, sessionVars>>

PestPeers ==
  /\ server = "p11_pest_control" /\ E!Next
  /\ UNCHANGED <<server, vcsVars, proxyVars, socketVars, meansVars,
                 databaseVars, primeVars, speedVars, text, sessionVars>>

SpeedPeers ==
  /\ server = "p6_speed" /\ G!Next
  /\ UNCHANGED <<server, vcsVars, proxyVars, socketVars, meansVars,
                 databaseVars, primeVars, pestVars, text, sessionVars>>

(* The texts of packets are tried while no packet has arrived, and packets *)
(* arrive while no text is tried: the sessions of the listener do not look *)
(* at texts.                                                               *)
LrcpPackets ==
  /\ server = "p7_reversal" /\ K!Init /\ L!Next
  /\ UNCHANGED <<server, vcsVars, proxyVars, socketVars, meansVars,
                 databaseVars, primeVars, pestVars, speedVars, sessionVars>>

OnlySessions(A) ==
  /\ server = "p7_reversal" /\ L!Init /\ A
  /\ UNCHANGED <<server, vcsVars, proxyVars, socketVars, meansVars,
                 databaseVars, primeVars, pestVars, speedVars, text>>
Sessions == OnlySessions(K!Next)

Next ==
  \/ \E executor \in Executor : Choose(executor)
  \/ Versions \/ Proxy \/ Sockets \/ Means \/ Database \/ Primes
  \/ PestPeers \/ SpeedPeers \/ LrcpPackets \/ Sessions

Spec == Init /\ [][Next]_serverVars

(* The fairness of the proxy and of the listener, where they are chosen.   *)
Fairness ==
  /\ \A s \in P!Side :
       /\ WF_serverVars(OnlyProxy(P!ReadToken(s))) /\ WF_serverVars(OnlyProxy(P!EndSide(s)))
       /\ SF_serverVars(OnlyProxy(P!TakeLine(s)))
  /\ WF_serverVars(OnlyProxy(P!WriteLine)) /\ WF_serverVars(OnlyProxy(P!FailToWrite))
  /\ \A s \in Session :
       /\ WF_serverVars(OnlySessions(K!Handle(s) \/ K!SelfSend(s)))
       /\ SF_serverVars(OnlySessions(K!Forward(s) \/ K!Fail(s)))

FairSpec == Spec /\ Fairness
-----------------------------------------------------------------------------
(* The properties of the servers are stated, and explained, in their       *)
(* modules.                                                                *)

(* Each server keeps to its types; the folders of version control are      *)
(* those of its files.                                                     *)
TypeOK ==
  /\ server \in Executor \union {"none"}
  /\ V!TypeOK /\ V!FoldersNested /\ P!TypeOK /\ S!TypeOK /\ M!TypeOK /\ D!TypeOK
  /\ T!TypeOK /\ E!TypeOK /\ G!TypeOK /\ K!TypeOK

(* A revision told to a client of version control stays what it was.       *)
PromisesKept == server = "p10_vcs" => V!PromisesKept
(* A connection of version control expects a command where one begins.     *)
AnswersInStep == server = "p10_vcs" => V!AnswersInStep
(* Version control with its folders is a flat store of histories.          *)
ImplementsStore == V!ImplementsStore
(* The proxy relays what it reads, rewritten, and nothing else.            *)
RelayedExactly == server = "p5_middle" => P!RelayedExactly
(* The proxy relays every whole line in the end.                           *)
LinesRelayed == P!LinesRelayed
(* The client of an insecure socket decodes the answers to its orders.     *)
RepliesUnderstood == server = "p8_insecure" => S!RepliesUnderstood
(* A query of prices is answered the mean of the last prices inserted.     *)
MeanAnswered == server = "p2_means" => M!MeanAnswered
(* The database answers with the last packet that inserted a key.          *)
AnswersRepeatInserts == server = "p4_db" => D!AnswersRepeatInserts
(* Exactly the primes are called so.                                       *)
PrimesTold == server = "p1_prime" => T!PrimesTold
(* The pest control server reads no message that was not sent.             *)
MessagesUnforged == server = "p11_pest_control" => E!MessagesUnforged
(* Messages of the speed limit server are read as they were written.       *)
MessagesReadBack == server = "p6_speed" => G!MessagesReadBack
(* Packets of LRCP are read as they were written, in chunks as they are    *)
(* sent, and only those are read.                                          *)
PacketsReadBack == server = "p7_reversal" => L!PacketsReadBack
(* The listener waits for ever only for a session that waits on itself.    *)
LoopGoesOn == K!LoopGoesOn
=============================================================================
