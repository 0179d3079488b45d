--------------------------- MODULE VersionControl ---------------------------
(***************************************************************************)
(* Problem 10, the version control server (src/src/p10_vcs.rs).            *)
(*                                                                         *)
(* A connection is a loop: write READY, read a command, run it under the   *)
(* lock over the one storage of all connections, and write the answer      *)
(* when the lock is free again.  A command is a line, and for a PUT that   *)
(* many bytes of data after it.                                            *)
(*                                                                         *)
(* Input is a queue of tokens, lines and data.  The nested maps of         *)
(* InMemoryStorage are two: a folder owns its folders, so a folder is its  *)
(* path.  A path in a line is what split('/') makes of it: "/a/b" is       *)
(* <<Empty, "a", "b">>, and "/" is <<Empty, Empty>>.                       *)
(***************************************************************************)
EXTENDS Naturals, Sequences, FiniteSets

CONSTANTS
  Client,
  Name,        \* words that may be a file name
  Empty,       \* the word without characters
  FilePath,    \* the paths the clients' lines name, as sequences of names
  Folder,
  Content,     \* the data of PUTs
  NotText,     \* the contents that are not text
  ReadAs,      \* the line one gets who reads a content as a command
  Request,     \* what a client sends at a time: a command, with its data
  Nothing,     \* no revision in a GET, and no answer
  Illegal,     \* the parse of no path
  MaxRequests  \* bound: requests of all clients

PutLine(parts) == [method |-> "put", path |-> parts]
GetLine(parts, revision) == [method |-> "get", path |-> parts, revision |-> revision]
ListLine(parts) == [method |-> "list", path |-> parts]
HelpLine == [method |-> "help"]
UsageLine == [method |-> "usage"]  \* a known method, with the wrong words after it
OtherLine == [method |-> "other"]  \* any other word
EndOfInput == [method |-> "end"]   \* read as an empty line, or as too few data
Data(content) == [method |-> "data", content |-> content]

VARIABLES
  files,      \* per file that exists, its versions
  folders,    \* the folders that exist below the root
  input,      \* per client, the tokens sent and not read yet
  asked,      \* per client, the requests sent and not answered yet
  pc,         \* "parsing", "answering", "closed"
  reply,      \* per client, the answer it is about to write
  told,       \* the revisions clients were told of, with their contents
  misled,     \* the clients whose PUT was refused before its data were read
  requests    \* requests sent so far

storageVars == <<files, folders>>
clientVars == <<input, asked, pc, reply, told, misled>>
versionVars == <<storageVars, clientVars, requests>>

Init ==
  /\ files = <<>> /\ folders = {}
  /\ input = [c \in Client |-> <<>>] /\ asked = [c \in Client |-> <<>>]
  /\ pc = [c \in Client |-> "parsing"]
  /\ reply = [c \in Client |-> Nothing]
  /\ told = {} /\ misled = {} /\ requests = 0

-----------------------------------------------------------------------------
(* The storage.                                                            *)

LatestVersion(path) == Len(files[path])

(* Mutant: a new revision takes the place of the latest one.               *)
AddedInPlace(path, content) ==
  IF path \notin DOMAIN files THEN <<content>>
  ELSE [files[path] EXCEPT ![LatestVersion(path)] = content]

(* VersionedFile::add, or new.                                             *)
Added(path, content) ==
  IF path \notin DOMAIN files THEN <<content>>
  ELSE IF content = files[path][LatestVersion(path)] THEN files[path]
  ELSE Append(files[path], content)

(* entry().or_default() of every folder on the way to the file.            *)
Above(path) == {SubSeq(path, 1, k) : k \in 1..(Len(path) - 1)}

Put(path, content) ==
  /\ files' = [p \in DOMAIN files \union {path} |->
                 IF p = path THEN Added(path, content) ELSE files[p]]
  /\ folders' = folders \union Above(path)

(* The file is reached through its folders.                                *)
Has(path) == path \in DOMAIN files /\ Above(path) \subseteq folders

(* list_all, and list: a file goes before a folder of its name.  A folder  *)
(* is an entry with version 0.                                             *)
ListAll(dir) ==
  IF dir # <<>> /\ dir \notin folders THEN {}
  ELSE {<<n, LatestVersion(Append(dir, n))>> : n \in {m \in Name : Append(dir, m) \in DOMAIN files}}
         \union {<<n, 0>> : n \in {m \in Name : Append(dir, m) \in folders}}

(* Mutant: a name may be listed twice.                                     *)
EntriesAll(dir) == ListAll(dir)

Entries(dir) ==
  {e \in ListAll(dir) : e[2] = 0 => \A f \in ListAll(dir) : f[1] = e[1] => f = e}

-----------------------------------------------------------------------------
(* Reading a command.                                                      *)

(* parse_path.  The path of a folder that ends in a slash keeps the first  *)
(* slash instead, and is refused like that of a file.                      *)
ParsePath(parts, isFile) ==
  LET ended == Len(parts) > 1 /\ parts[Len(parts)] = Empty
      components == IF ended THEN SubSeq(parts, 1, Len(parts) - 1) ELSE Tail(parts)
  IN  IF ~isFile /\ parts = <<Empty, Empty>> THEN <<>>
      ELSE IF /\ Len(parts) > 1 /\ parts[1] = Empty
              /\ ~(isFile /\ ended)
              /\ \A i \in DOMAIN components : components[i] \in Name
           THEN components
      ELSE Illegal

(* The next token as a command line: data in its place are one too.        *)
Line(c) == LET t == Head(input[c]) IN IF t.method = "data" THEN ReadAs[t.content] ELSE t

PathOf(line) == ParsePath(line.path, line.method # "list")

(* PartialParse, and the ArgErrors for a name.                             *)
Misformed(line) ==
  \/ line.method = "usage"
  \/ line.method \in {"put", "get", "list"} /\ PathOf(line) = Illegal

Dropped(n, c) == SubSeq(input[c], n + 1, Len(input[c]))

-----------------------------------------------------------------------------
(* The steps of a connection.  "kind" is what the answer says, "revisions" *)
(* the revisions it names, "entries" the entries of a listing.             *)
Answer(c, kind, revisions, entries) ==
  /\ pc' = [pc EXCEPT ![c] = "answering"]
  /\ reply' = [reply EXCEPT ![c] =
                 [kind |-> kind, revisions |-> revisions, entries |-> entries]]
  /\ UNCHANGED <<asked, told, requests>>

(* Mutant: each command is read with a buffer of its own, which takes all  *)
(* that has arrived.                                                       *)
ReadRebuffered(c, n) ==
  /\ pc[c] = "parsing" /\ Len(input[c]) >= n
  /\ input' = [input EXCEPT ![c] = <<>>]

Read(c, n) ==
  /\ pc[c] = "parsing" /\ Len(input[c]) >= n
  /\ input' = [input EXCEPT ![c] = Dropped(n, c)]

(* A refused PUT leaves its data where the next line is expected.          *)
Refuse(c) ==
  /\ Read(c, 1) /\ Misformed(Line(c))
  /\ misled' = IF Len(input[c]) > 1 /\ input[c][2].method = "data"
               THEN misled \union {c} ELSE misled
  /\ Answer(c, "error", {}, {})
  /\ UNCHANGED storageVars

Help(c) ==
  /\ Read(c, 1) /\ Line(c).method = "help"
  /\ Answer(c, "help", {}, {})
  /\ UNCHANGED <<storageVars, misled>>

(* An accepted PUT reads its data, refuses what is not text, and stores    *)
(* the rest.                                                               *)
PutData(c) ==
  /\ Read(c, 2) /\ Line(c).method = "put" /\ ~Misformed(Line(c))
  /\ input[c][2].method = "data"
  /\ LET path == PathOf(Line(c))
         content == input[c][2].content
     IN  IF content \in NotText
         THEN Answer(c, "error", {}, {}) /\ UNCHANGED storageVars
         ELSE /\ Put(path, content)
              /\ Answer(c, "revision", {<<path, Len(files'[path]), content>>}, {})
  /\ UNCHANGED misled

(* GET of a file, of its latest version or of the one named.               *)
Get(c) ==
  /\ Read(c, 1) /\ Line(c).method = "get" /\ ~Misformed(Line(c))
  /\ LET path == PathOf(Line(c))
         n == IF Line(c).revision = Nothing THEN LatestVersion(path) ELSE Line(c).revision
     IN  IF ~Has(path) THEN Answer(c, "error", {}, {})
         ELSE IF n \in 1..LatestVersion(path)
         THEN Answer(c, "content", {<<path, n, files[path][n]>>}, {})
         ELSE Answer(c, "error", {}, {})
  /\ UNCHANGED <<storageVars, misled>>

List(c) ==
  /\ Read(c, 1) /\ Line(c).method = "list" /\ ~Misformed(Line(c))
  /\ LET dir == PathOf(Line(c))
         shown == {Append(dir, e[1]) : e \in {f \in Entries(dir) : f[2] > 0}}
     IN  Answer(c, "list", {<<p, LatestVersion(p), files[p][LatestVersion(p)]>> : p \in shown},
                Entries(dir))
  /\ UNCHANGED <<storageVars, misled>>

(* The connection ends at any other word, and at the end of the input; in *)
(* the middle of the data of a PUT; and when the revision asked for is r0, *)
(* of an existing file, where a build that checks for overflow panics.     *)
(* The panic frees the lock, and ends the task of this connection only.    *)
Close(c) ==
  /\ Read(c, 1)
  /\ \/ Line(c).method \in {"other", "end"}
     \/ /\ Line(c).method = "put" /\ ~Misformed(Line(c))
        /\ Len(input[c]) > 1 /\ input[c][2] = EndOfInput
     \/ /\ Line(c).method = "get" /\ ~Misformed(Line(c))
        /\ Line(c).revision = 0 /\ Has(PathOf(Line(c)))
  /\ pc' = [pc EXCEPT ![c] = "closed"]
  /\ UNCHANGED <<storageVars, asked, reply, told, misled, requests>>

(* The answer is written, and READY after it.                              *)
Write(c) ==
  /\ pc[c] = "answering"
  /\ pc' = [pc EXCEPT ![c] = "parsing"]
  /\ told' = told \union reply[c].revisions
  /\ reply' = [reply EXCEPT ![c] = Nothing]
  /\ asked' = [asked EXCEPT ![c] = IF @ = <<>> THEN @ ELSE Tail(@)]
  /\ UNCHANGED <<storageVars, input, misled, requests>>

(* Clients need not wait for READY.                                        *)
Send(c, request) ==
  /\ pc[c] # "closed" /\ requests < MaxRequests
  /\ \A i \in DOMAIN input[c] : input[c][i] # EndOfInput
  /\ requests' = requests + 1
  /\ input' = [input EXCEPT ![c] = @ \o request]
  /\ asked' = [asked EXCEPT ![c] = Append(@, request)]
  /\ UNCHANGED <<storageVars, pc, reply, told, misled>>

Next ==
  \E c \in Client :
    \/ Refuse(c) \/ Help(c) \/ PutData(c) \/ Get(c) \/ List(c) \/ Close(c) \/ Write(c)
    \/ \E request \in Request : Send(c, request)

Spec == Init /\ [][Next]_versionVars
-----------------------------------------------------------------------------
(* What the names of the constants mean.  FilePath and Folder are the      *)
(* paths that the lines of the clients name.                               *)
Words == Seq(Name \union {Empty})
FileWords == {parts \in Words : ParsePath(parts, TRUE) \in FilePath \union {Illegal}}
FolderWords == {parts \in Words : ParsePath(parts, FALSE) \in Folder \union {Illegal}}

Token == {EndOfInput, UsageLine, HelpLine, OtherLine}
           \union [method : {"put"}, path : FileWords]
           \union [method : {"get"}, path : FileWords, revision : Nat \union {Nothing}]
           \union [method : {"list"}, path : FolderWords]
           \union [method : {"data"}, content : Content]

Revision == FilePath \X (Nat \ {0}) \X Content
Reply == [kind : {"error", "help", "revision", "content", "list"},
          revisions : SUBSET Revision, entries : SUBSET (Name \X Nat)]

(* A command is a line, and the line of a PUT has data after it, or the end *)
(* of the input in the middle of them.                                     *)
Command(request) ==
  /\ Len(request) \in {1, 2} /\ request[1].method # "data"
  /\ request[1].method = "put" /\ ~Misformed(request[1]) => Len(request) = 2
  /\ Len(request) = 2 =>
       \/ request[1].method \in {"put", "usage"} /\ request[2].method = "data"
       \/ /\ request[1].method = "put" /\ ~Misformed(request[1])
          /\ request[2] = EndOfInput

VersionAssumption ==
  /\ FilePath \subseteq Seq(Name) \ {<<>>} /\ Folder \subseteq Seq(Name)
  /\ Illegal \notin FilePath \union Folder
  /\ Nothing \notin Reply
  /\ Request \subseteq Seq(Token) /\ \A request \in Request : Command(request)
  /\ ReadAs \in [Content -> {t \in Token : t.method \notin {"put", "data"}}]
  /\ MaxRequests \in Nat

TypeOK ==
  /\ DOMAIN files \subseteq FilePath
  /\ files \in [DOMAIN files -> Seq(Content) \ {<<>>}]
  /\ folders \subseteq Seq(Name)
  /\ input \in [Client -> Seq(Token)] /\ asked \in [Client -> Seq(Request)]
  /\ pc \in [Client -> {"parsing", "answering", "closed"}]
  /\ reply \in [Client -> Reply \union {Nothing}]
  /\ \A c \in Client : pc[c] = "answering" <=> reply[c] # Nothing
  /\ told \subseteq Revision
  /\ misled \subseteq Client /\ requests \in 0..MaxRequests

(* The folders are those that the paths of the files go through.           *)
FoldersNested == folders = UNION {Above(p) : p \in DOMAIN files}

(* A revision that a client was told of, or that the answer it is about to *)
(* get names, is there, and has the content it had then: whatever other    *)
(* connections did since the lock was released, and ever after.            *)
Kept(r) ==
  /\ r[1] \in DOMAIN files
  /\ r[2] \in 1..LatestVersion(r[1])
  /\ files[r[1]][r[2]] = r[3]

PromisesKept ==
  /\ \A r \in told : Kept(r)
  /\ \A c \in Client : pc[c] = "answering" => \A r \in reply[c].revisions : Kept(r)

(* The loop stays in step with its client: where it expects a command, the *)
(* first request that has no answer begins; only a PUT that was refused    *)
(* before its data were read can break this.                               *)
AnswersInStep ==
  \A c \in Client \ misled :
    pc[c] = "parsing" =>
      IF asked[c] = <<>> THEN input[c] = <<>>
      ELSE /\ Len(input[c]) >= Len(Head(asked[c]))
           /\ SubSeq(input[c], 1, Len(Head(asked[c]))) = Head(asked[c])

Store == INSTANCE VersionStore
  WITH history <- [p \in FilePath |-> IF p \in DOMAIN files THEN files[p] ELSE <<>>],
       answer <- reply

(* The folders and the files nested in them answer like a flat store whose *)
(* listings are computed from the names of its files, and whose histories  *)
(* only grow.                                                              *)
ImplementsStore == Store!Spec

(* The tokens are the commands, one after the other: "at" says where each  *)
(* ends, and so the next begins.                                           *)
Lined(tokens, commands) ==
  \E at \in [0..Len(commands) -> 0..Len(tokens)] :
    /\ at[0] = 0 /\ at[Len(commands)] = Len(tokens)
    /\ \A i \in 1..Len(commands) :
         /\ at[i] = at[i - 1] + Len(commands[i])
         /\ \A j \in 1..Len(commands[i]) : tokens[at[i - 1] + j] = commands[i][j]

(* Why the loop stays in step: what is not read yet is what is asked, but  *)
(* for the command that is being answered.                                 *)
Queued(c) ==
  /\ pc[c] = "parsing" => Lined(input[c], asked[c])
  /\ pc[c] = "answering" => asked[c] # <<>> /\ Lined(input[c], Tail(asked[c]))

(* The inductive invariants of VersionControlProofs.                       *)
IInv == TypeOK /\ FoldersNested /\ PromisesKept
CommandsQueued == \A c \in Client \ misled : Queued(c)
=============================================================================
