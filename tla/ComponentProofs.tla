--------------------------- MODULE ComponentProofs ---------------------------
(***************************************************************************)
(* Proofs about three components that Servers composes.                    *)
(*                                                                         *)
(* First VersionControl, for any clients, requests, paths and contents.    *)
(* The inductive invariant says that a history only grows, so that what a  *)
(* client was told of stays, and that the folders are those of the files:  *)
(* then the nested storage answers as the flat VersionStore.               *)
(*                                                                         *)
(* Then ChatProxy, for any texts that the two sides send.  A fold is       *)
(* unfolded into what it has done after each token, and the three passes   *)
(* of replace_address are followed: with its spaces doubled, a line is     *)
(* rewritten word by word.  The inductive invariant says where each token  *)
(* is that a side has sent.                                                *)
(*                                                                         *)
(* Then LrcpText, for any text and any size of a packet: a property of the *)
(* text in every state, which rests on the folds again.  Escaping is       *)
(* followed character by character: what is unescaped is what was escaped, *)
(* and a content is as long as its unescaped text is once escaped only if  *)
(* it is that text escaped.                                                *)
(***************************************************************************)
EXTENDS VersionControl, SequenceTheorems, WellFoundedInduction, TLAPS

Kinds == {"error", "help", "revision", "content", "list"}

-----------------------------------------------------------------------------
(* What the lines and the data of clients are.                             *)
LEMMA DataContent ==
  ASSUME NEW t \in Token, t.method = "data"
  PROVE  t.content \in Content
  BY DEF Token, EndOfInput, UsageLine, HelpLine, OtherLine

LEMMA FileOf ==
  ASSUME NEW t \in Token, t.method \in {"put", "get"}, ~Misformed(t)
  PROVE  PathOf(t) \in FilePath
<1>1. t.path \in FileWords
  BY DEF Token, EndOfInput, UsageLine, HelpLine, OtherLine
<1>2. PathOf(t) = ParsePath(t.path, TRUE)
  BY DEF PathOf
<1>3. PathOf(t) # Illegal
  BY DEF Misformed
<1>. QED  BY <1>1, <1>2, <1>3 DEF FileWords

LEMMA FolderOf ==
  ASSUME NEW t \in Token, t.method = "list", ~Misformed(t)
  PROVE  PathOf(t) \in Folder
<1>1. t.path \in FolderWords
  BY DEF Token, EndOfInput, UsageLine, HelpLine, OtherLine
<1>2. PathOf(t) = ParsePath(t.path, FALSE)
  BY DEF PathOf
<1>3. PathOf(t) # Illegal
  BY DEF Misformed
<1>. QED  BY <1>1, <1>2, <1>3 DEF FolderWords

LEMMA LineToken ==
  ASSUME VersionAssumption, TypeOK, NEW c \in Client, Len(input[c]) >= 1
  PROVE  Line(c) \in Token
<1>1. input[c] \in Seq(Token) /\ Head(input[c]) \in Token
  BY DEF TypeOK
<1>2. CASE Head(input[c]).method = "data"
  BY <1>1, <1>2, DataContent DEF Line, VersionAssumption
<1>3. CASE Head(input[c]).method # "data"
  BY <1>1, <1>3 DEF Line
<1>. QED  BY <1>2, <1>3

LEMMA ReadTypes ==
  ASSUME VersionAssumption, TypeOK, NEW c \in Client, NEW n \in Nat, Read(c, n)
  PROVE  input' \in [Client -> Seq(Token)] /\ pc[c] = "parsing"
<1>1. Dropped(n, c) \in Seq(Token)
  BY DEF Dropped, TypeOK, Read
<1>. QED  BY <1>1 DEF Read, TypeOK

-----------------------------------------------------------------------------
(* Storing: one history grows, or stays, and the folders with it.          *)
LEMMA AddedFacts ==
  ASSUME TypeOK, NEW path \in FilePath, NEW content \in Content
  PROVE  LET h == Added(path, content) IN
         /\ h \in Seq(Content) \ {<<>>}
         /\ Len(h) \in Nat \ {0} /\ h[Len(h)] = content
         /\ path \in DOMAIN files =>
              /\ Len(files[path]) <= Len(h)
              /\ \A n \in 1..Len(files[path]) : h[n] = files[path][n]
<1>1. CASE path \notin DOMAIN files
  BY <1>1 DEF Added
<1>2. CASE path \in DOMAIN files
  <2>1. files[path] \in Seq(Content) /\ files[path] # <<>>
    BY <1>2 DEF TypeOK
  <2>2. Len(files[path]) \in Nat \ {0}
    BY <2>1
  <2>3. CASE content = files[path][LatestVersion(path)]
    BY <1>2, <2>1, <2>2, <2>3 DEF Added, LatestVersion
  <2>4. CASE content # files[path][LatestVersion(path)]
    <3>1. Added(path, content) = Append(files[path], content)
      BY <1>2, <2>4 DEF Added
    <3>. QED  BY <2>1, <2>2, <3>1
  <2>. QED  BY <2>3, <2>4
<1>. QED  BY <1>1, <1>2

LEMMA AboveNames ==
  ASSUME VersionAssumption, NEW path \in FilePath
  PROVE  Above(path) \subseteq Seq(Name)
  BY DEF Above, VersionAssumption

LEMMA PutFacts ==
  ASSUME VersionAssumption, IInv,
         NEW path \in FilePath, NEW content \in Content, Put(path, content)
  PROVE  /\ DOMAIN files' = DOMAIN files \union {path}
         /\ files' \in [DOMAIN files' -> Seq(Content) \ {<<>>}]
         /\ \A p \in DOMAIN files \ {path} : files'[p] = files[p]
         /\ files'[path] = Added(path, content)
         /\ folders' \subseteq Seq(Name)
         /\ FoldersNested'
         /\ \A r : Kept(r) => Kept(r)'
         /\ \A r : r = <<path, Len(files'[path]), content>> => r \in Revision /\ Kept(r)'
<1>0. TypeOK /\ FoldersNested
  BY DEF IInv
<1>1. files' = [p \in DOMAIN files \union {path} |->
                  IF p = path THEN Added(path, content) ELSE files[p]]
  BY DEF Put
<1>2. /\ DOMAIN files' = DOMAIN files \union {path}
      /\ \A p \in DOMAIN files \ {path} : files'[p] = files[p]
      /\ files'[path] = Added(path, content)
  BY <1>1
<1>3. files' \in [DOMAIN files' -> Seq(Content) \ {<<>>}]
  BY <1>0, <1>1, <1>2, AddedFacts DEF TypeOK
<1>4. folders' \subseteq Seq(Name)
  BY <1>0, AboveNames DEF Put, TypeOK
<1>5. FoldersNested'
  BY <1>0, <1>2 DEF FoldersNested, Put, Above
<1>6. ASSUME NEW r, Kept(r)
      PROVE  Kept(r)'
  <2>1. CASE r[1] = path
    <3>1. /\ path \in DOMAIN files /\ files[path][r[2]] = r[3]
          /\ r[2] \in 1..Len(files[path])
      BY <1>6, <2>1 DEF Kept, LatestVersion
    <3>2. Len(files[path]) \in Nat /\ Len(files'[path]) \in Nat
      BY <1>0, <1>2, <3>1, AddedFacts DEF TypeOK
    <3>3. Len(files[path]) <= Len(files'[path]) /\ files'[path][r[2]] = files[path][r[2]]
      BY SMTT(30), <1>0, <1>2, <3>1, AddedFacts
    <3>4. /\ r[1] \in DOMAIN files' /\ files'[r[1]][r[2]] = r[3]
          /\ r[2] \in 1..Len(files'[r[1]])
      BY <1>2, <2>1, <3>1, <3>2, <3>3
    <3>. QED  BY <3>4 DEF Kept, LatestVersion
  <2>2. CASE r[1] # path
    BY <1>2, <1>6, <2>2 DEF Kept, LatestVersion
  <2>. QED  BY <2>1, <2>2
<1>7. /\ Len(files'[path]) \in Nat \ {0}
      /\ files'[path][Len(files'[path])] = content
  BY <1>0, <1>2, AddedFacts
<1>8. ASSUME NEW r, r = <<path, Len(files'[path]), content>>
      PROVE  r \in Revision /\ Kept(r)'
  <2>1. r[1] = path /\ r[2] = Len(files'[path]) /\ r[3] = content
    BY <1>8
  <2>2. r \in Revision
    BY <1>7, <1>8 DEF Revision
  <2>3. Kept(r)'
    BY <1>2, <1>7, <2>1 DEF Kept, LatestVersion
  <2>. QED  BY <2>2, <2>3
<1>. QED  BY <1>2, <1>3, <1>4, <1>5, <1>6, <1>8

-----------------------------------------------------------------------------
(* The steps of a connection.                                              *)
StorageOK ==
  /\ DOMAIN files \subseteq FilePath
  /\ files \in [DOMAIN files -> Seq(Content) \ {<<>>}]
  /\ folders \subseteq Seq(Name)
  /\ FoldersNested

LEMMA StorageUnchanged ==
  ASSUME IInv, UNCHANGED storageVars
  PROVE  /\ StorageOK'
         /\ \A r : Kept(r) => Kept(r)'
<1>1. files' = files /\ folders' = folders
  BY DEF storageVars
<1>2. StorageOK'
  BY <1>1 DEF IInv, TypeOK, StorageOK, FoldersNested
<1>3. ASSUME NEW r, Kept(r) PROVE Kept(r)'
  BY <1>1, <1>3 DEF Kept, LatestVersion
<1>. QED  BY <1>2, <1>3

(* A command that is answered, whatever it does to the storage.            *)
LEMMA AnswerStep ==
  ASSUME VersionAssumption, IInv, NEW c \in Client, NEW n \in Nat, Read(c, n),
         NEW kind \in Kinds, NEW revisions \in SUBSET Revision,
         NEW entries \in SUBSET (Name \X Nat),
         Answer(c, kind, revisions, entries),
         misled' \subseteq Client, StorageOK',
         \A r : Kept(r) => Kept(r)',
         \A r \in revisions : Kept(r)'
  PROVE  IInv'
<1>0. TypeOK /\ PromisesKept
  BY DEF IInv
<1>1. input' \in [Client -> Seq(Token)] /\ pc[c] = "parsing"
  BY <1>0, ReadTypes
<1> DEFINE answer == [kind |-> kind, revisions |-> revisions, entries |-> entries]
<1>2. answer \in Reply /\ answer # Nothing
  BY DEF Reply, Kinds, VersionAssumption
<1>3. /\ pc' = [pc EXCEPT ![c] = "answering"]
      /\ reply' = [reply EXCEPT ![c] = answer]
      /\ asked' = asked /\ told' = told /\ requests' = requests
  BY DEF Answer
<1>4. TypeOK'
  BY <1>0, <1>1, <1>2, <1>3 DEF TypeOK, StorageOK
<1>5. PromisesKept'
  <2>1. \A r \in told' : Kept(r)'
    BY <1>0, <1>3 DEF PromisesKept
  <2>2. ASSUME NEW d \in Client, pc'[d] = "answering", NEW r \in reply'[d].revisions
        PROVE  Kept(r)'
    <3>1. CASE d = c
      <4>1. reply'[d] = answer
        BY <1>0, <1>3, <3>1 DEF TypeOK
      <4>. QED  BY <2>2, <4>1
    <3>2. CASE d # c
      <4>1. pc[d] = "answering" /\ reply'[d] = reply[d]
        BY <1>0, <1>3, <2>2, <3>2 DEF TypeOK
      <4>. QED  BY <1>0, <2>2, <4>1 DEF PromisesKept
    <3>. QED  BY <3>1, <3>2
  <2>. QED  BY <2>1, <2>2 DEF PromisesKept
<1>6. FoldersNested'
  BY DEF StorageOK
<1>. QED  BY <1>4, <1>5, <1>6 DEF IInv

LEMMA PutDataStep ==
  ASSUME VersionAssumption, IInv, NEW c \in Client, PutData(c)
  PROVE  IInv'
<1> DEFINE path == PathOf(Line(c))
           content == input[c][2].content
<1>0. TypeOK /\ Read(c, 2) /\ misled' = misled /\ misled \subseteq Client
  BY DEF IInv, PutData, TypeOK
<1>1. input[c] \in Seq(Token) /\ Len(input[c]) >= 2
  BY <1>0 DEF TypeOK, Read
<1>2. content \in Content
  BY <1>1, DataContent DEF PutData
<1>3. Line(c) \in Token
  BY <1>0, <1>1, LineToken
<1>4. path \in FilePath
  BY <1>3, FileOf DEF PutData
<1>5. CASE content \in NotText
  <2>1. Answer(c, "error", {}, {}) /\ UNCHANGED storageVars
    BY <1>5 DEF PutData
  <2>. QED  BY <1>0, <2>1, StorageUnchanged, AnswerStep DEF Kinds
<1>6. CASE content \notin NotText
  <2>1. /\ Put(path, content)
        /\ Answer(c, "revision", {<<path, Len(files'[path]), content>>}, {})
    BY <1>6 DEF PutData
  <2>2. StorageOK' /\ \A r : Kept(r) => Kept(r)'
    BY <1>0, <1>2, <1>4, <2>1, PutFacts DEF StorageOK, TypeOK
  <2>3. \A r \in {<<path, Len(files'[path]), content>>} : r \in Revision /\ Kept(r)'
    BY <1>2, <1>4, <2>1, PutFacts
  <2>. QED  BY <1>0, <2>1, <2>2, <2>3, AnswerStep DEF Kinds
<1>. QED  BY <1>5, <1>6

LEMMA GetStep ==
  ASSUME VersionAssumption, IInv, NEW c \in Client, Get(c)
  PROVE  IInv'
<1> DEFINE path == PathOf(Line(c))
           n == IF Line(c).revision = Nothing THEN LatestVersion(path) ELSE Line(c).revision
<1>0. TypeOK /\ Read(c, 1) /\ UNCHANGED storageVars /\ misled' = misled /\ misled \subseteq Client
  BY DEF IInv, Get, TypeOK
<1>1. Line(c) \in Token
  BY <1>0, LineToken DEF Read
<1>2. path \in FilePath
  BY <1>1, FileOf DEF Get
<1>3. CASE Answer(c, "error", {}, {})
  BY <1>0, <1>3, StorageUnchanged, AnswerStep DEF Kinds
<1>4. CASE /\ Has(path) /\ n \in 1..LatestVersion(path)
           /\ Answer(c, "content", {<<path, n, files[path][n]>>}, {})
  <2>1. path \in DOMAIN files /\ files[path] \in Seq(Content)
    BY <1>0, <1>4 DEF Has, TypeOK
  <2>2. n \in Nat \ {0} /\ n \in 1..Len(files[path]) /\ files[path][n] \in Content
    BY <1>4, <2>1 DEF LatestVersion
  <2>3. ASSUME NEW r, r = <<path, n, files[path][n]>>
        PROVE  r \in Revision /\ Kept(r)'
    <3>1. r[1] = path /\ r[2] = n /\ r[3] = files[path][n]
      BY <2>3
    <3>2. r \in Revision
      BY <1>2, <2>2, <2>3 DEF Revision
    <3>3. Kept(r)
      BY <2>1, <2>2, <3>1 DEF Kept, LatestVersion
    <3>. QED  BY <1>0, <3>2, <3>3, StorageUnchanged
  <2>4. {<<path, n, files[path][n]>>} \in SUBSET Revision
    BY <2>3
  <2>5. \A r \in {<<path, n, files[path][n]>>} : Kept(r)'
    BY <2>3
  <2>. QED  BY <1>0, <1>4, <2>4, <2>5, StorageUnchanged, AnswerStep DEF Kinds
<1>. QED  BY <1>3, <1>4 DEF Get

(* What a listing names.                                                   *)
LEMMA EntryFacts ==
  ASSUME VersionAssumption, TypeOK, NEW dir \in Folder
  PROVE  /\ Entries(dir) \subseteq Name \X Nat
         /\ \A e \in Entries(dir) : e[2] > 0 =>
              /\ Append(dir, e[1]) \in DOMAIN files
              /\ e[2] = Len(files[Append(dir, e[1])])
<1>1. \A p \in DOMAIN files : LatestVersion(p) \in Nat
  BY DEF TypeOK, LatestVersion
<1>2. ASSUME NEW e \in ListAll(dir)
      PROVE  /\ e \in Name \X Nat
             /\ e[2] > 0 => /\ Append(dir, e[1]) \in DOMAIN files
                            /\ e[2] = Len(files[Append(dir, e[1])])
  <2>1. CASE \E m \in Name : Append(dir, m) \in DOMAIN files /\ e = <<m, LatestVersion(Append(dir, m))>>
    BY <1>1, <2>1 DEF LatestVersion
  <2>2. CASE \E m \in Name : e = <<m, 0>>
    BY <2>2
  <2>. QED  BY <2>1, <2>2 DEF ListAll
<1>. QED  BY <1>2 DEF Entries

LEMMA ListStep ==
  ASSUME VersionAssumption, IInv, NEW c \in Client, List(c)
  PROVE  IInv'
<1> DEFINE dir == PathOf(Line(c))
           shown == {Append(dir, e[1]) : e \in {f \in Entries(dir) : f[2] > 0}}
           revisions == {<<p, LatestVersion(p), files[p][LatestVersion(p)]>> : p \in shown}
<1>0. TypeOK /\ Read(c, 1) /\ UNCHANGED storageVars /\ misled' = misled /\ misled \subseteq Client
  BY DEF IInv, List, TypeOK
<1>1. Line(c) \in Token
  BY <1>0, LineToken DEF Read
<1>2. dir \in Folder
  BY <1>1, FolderOf DEF List
<1>3. shown \subseteq DOMAIN files /\ Entries(dir) \subseteq Name \X Nat
  BY <1>0, <1>2, EntryFacts
<1>4. ASSUME NEW r \in revisions
      PROVE  r \in Revision /\ Kept(r)'
  <2>1. PICK p \in shown : r = <<p, LatestVersion(p), files[p][LatestVersion(p)]>>
    BY <1>4
  <2>2. /\ p \in FilePath /\ p \in DOMAIN files
        /\ files[p] \in Seq(Content) /\ files[p] # <<>>
    BY <1>0, <1>3 DEF TypeOK
  <2>3. Len(files[p]) \in Nat \ {0} /\ files[p][Len(files[p])] \in Content
    BY <2>2
  <2>4. r[1] = p /\ r[2] = Len(files[p]) /\ r[3] = files[p][Len(files[p])]
    BY <2>1 DEF LatestVersion
  <2>5. r \in Revision
    BY <2>1, <2>2, <2>3 DEF Revision, LatestVersion
  <2>6. Kept(r)
    BY <2>2, <2>3, <2>4 DEF Kept, LatestVersion
  <2>. QED  BY <1>0, <2>5, <2>6, StorageUnchanged
<1>5. Answer(c, "list", revisions, Entries(dir))
  BY DEF List
<1> HIDE DEF revisions
<1>. QED  BY <1>0, <1>3, <1>4, <1>5, StorageUnchanged, AnswerStep DEF Kinds

LEMMA RefuseStep ==
  ASSUME VersionAssumption, IInv, NEW c \in Client, Refuse(c) \/ Help(c)
  PROVE  IInv'
<1>1. Read(c, 1) /\ UNCHANGED storageVars /\ misled' \subseteq Client
  BY DEF Refuse, Help, IInv, TypeOK
<1>2. Answer(c, "error", {}, {}) \/ Answer(c, "help", {}, {})
  BY DEF Refuse, Help
<1>. QED  BY <1>1, <1>2, StorageUnchanged, AnswerStep DEF Kinds

LEMMA CloseStep ==
  ASSUME VersionAssumption, IInv, NEW c \in Client, Close(c)
  PROVE  IInv'
<1>0. TypeOK /\ PromisesKept
  BY DEF IInv
<1>1. /\ UNCHANGED storageVars /\ Read(c, 1) /\ pc' = [pc EXCEPT ![c] = "closed"]
      /\ UNCHANGED <<asked, reply, told, misled, requests>>
  BY DEF Close
<1>2. StorageOK' /\ \A r : Kept(r) => Kept(r)'
  BY <1>1, StorageUnchanged
<1>3. input' \in [Client -> Seq(Token)] /\ pc[c] = "parsing"
  BY <1>0, <1>1, ReadTypes
<1>4. TypeOK'
  BY <1>0, <1>1, <1>2, <1>3 DEF TypeOK, StorageOK
<1>5. PromisesKept'
  BY <1>0, <1>1, <1>2 DEF PromisesKept, TypeOK
<1>. QED  BY <1>2, <1>4, <1>5 DEF IInv, StorageOK

LEMMA WriteStep ==
  ASSUME VersionAssumption, IInv, NEW c \in Client, Write(c)
  PROVE  IInv'
<1>0. TypeOK /\ PromisesKept
  BY DEF IInv
<1>1. /\ UNCHANGED storageVars /\ pc[c] = "answering"
      /\ pc' = [pc EXCEPT ![c] = "parsing"] /\ reply' = [reply EXCEPT ![c] = Nothing]
      /\ told' = told \union reply[c].revisions
      /\ asked' = [asked EXCEPT ![c] = IF @ = <<>> THEN @ ELSE Tail(@)]
      /\ UNCHANGED <<input, misled, requests>>
  BY DEF Write
<1>2. StorageOK' /\ \A r : Kept(r) => Kept(r)'
  BY <1>1, StorageUnchanged
<1>3. reply[c] \in Reply
  BY <1>0, <1>1 DEF TypeOK
<1>4. reply[c].revisions \subseteq Revision /\ \A r \in reply[c].revisions : Kept(r)
  BY <1>0, <1>1, <1>3 DEF Reply, PromisesKept
<1>5. asked' \in [Client -> Seq(Request)]
  BY <1>0, <1>1 DEF TypeOK
<1>6. TypeOK'
  BY <1>0, <1>1, <1>2, <1>4, <1>5 DEF TypeOK, StorageOK
<1>7. PromisesKept'
  <2>1. \A r \in told' : Kept(r)'
    BY <1>0, <1>1, <1>2, <1>4 DEF PromisesKept
  <2>2. ASSUME NEW d \in Client, pc'[d] = "answering"
        PROVE  \A r \in reply'[d].revisions : Kept(r)'
    <3>1. d # c /\ pc[d] = "answering" /\ reply'[d] = reply[d]
      BY <1>0, <1>1, <2>2 DEF TypeOK
    <3>. QED  BY <1>0, <1>2, <3>1 DEF PromisesKept
  <2>. QED  BY <2>1, <2>2 DEF PromisesKept
<1>. QED  BY <1>2, <1>6, <1>7 DEF IInv, StorageOK

LEMMA SendStep ==
  ASSUME VersionAssumption, IInv, NEW c \in Client, NEW request \in Request, Send(c, request)
  PROVE  IInv'
<1>0. TypeOK /\ PromisesKept
  BY DEF IInv
<1>1. /\ UNCHANGED storageVars /\ UNCHANGED <<pc, reply, told, misled>>
      /\ requests < MaxRequests /\ requests' = requests + 1
      /\ input' = [input EXCEPT ![c] = @ \o request]
      /\ asked' = [asked EXCEPT ![c] = Append(@, request)]
  BY DEF Send
<1>2. StorageOK' /\ \A r : Kept(r) => Kept(r)'
  BY <1>1, StorageUnchanged
<1>3. input' \in [Client -> Seq(Token)]
  <2>1. request \in Seq(Token) /\ input[c] \in Seq(Token)
    BY <1>0 DEF VersionAssumption, TypeOK
  <2>2. input[c] \o request \in Seq(Token)
    BY <2>1
  <2>. QED  BY <1>0, <1>1, <2>2 DEF TypeOK
<1>4. asked' \in [Client -> Seq(Request)]
  BY <1>0, <1>1 DEF TypeOK
<1>5. requests' \in 0..MaxRequests
  BY <1>0, <1>1 DEF TypeOK, VersionAssumption
<1>6. TypeOK'
  BY <1>0, <1>1, <1>2, <1>3, <1>4, <1>5 DEF TypeOK, StorageOK
<1>7. PromisesKept'
  BY <1>0, <1>1, <1>2 DEF PromisesKept
<1>. QED  BY <1>2, <1>6, <1>7 DEF IInv, StorageOK

LEMMA InitInv ==
  ASSUME VersionAssumption, Init
  PROVE  IInv
<1>1. /\ files = <<>> /\ DOMAIN files = {} /\ folders = {}
      /\ input = [c \in Client |-> <<>>] /\ asked = [c \in Client |-> <<>>]
      /\ pc = [c \in Client |-> "parsing"] /\ reply = [c \in Client |-> Nothing]
      /\ told = {} /\ misled = {} /\ requests = 0
  BY DEF Init
<1>2. files \in [DOMAIN files -> Seq(Content) \ {<<>>}]
  BY <1>1
<1>3. TypeOK
  BY <1>1, <1>2 DEF TypeOK, VersionAssumption
<1>. QED  BY <1>1, <1>3 DEF IInv, FoldersNested, PromisesKept

LEMMA NextInv ==
  ASSUME VersionAssumption, IInv, [Next]_versionVars
  PROVE  IInv'
<1>1. CASE UNCHANGED versionVars
  <2>1. UNCHANGED storageVars /\ UNCHANGED <<clientVars, requests>>
    BY <1>1 DEF versionVars
  <2>2. StorageOK' /\ \A r : Kept(r) => Kept(r)'
    BY <2>1, StorageUnchanged
  <2>. QED  BY <2>1, <2>2 DEF IInv, TypeOK, PromisesKept, StorageOK, clientVars, FoldersNested
<1>2. ASSUME NEW c \in Client, NEW request \in Request, Send(c, request)
      PROVE  IInv'
  BY <1>2, SendStep
<1>3. ASSUME NEW c \in Client,
             \/ Refuse(c) \/ Help(c) \/ PutData(c) \/ Get(c) \/ List(c) \/ Close(c) \/ Write(c)
      PROVE  IInv'
  BY <1>3, RefuseStep, PutDataStep, GetStep, ListStep, CloseStep, WriteStep
<1>. QED  BY <1>1, <1>2, <1>3 DEF Next

LEMMA Invariant ==
  ASSUME VersionAssumption
  PROVE  Spec => []IInv
<1>1. Init => IInv
  BY InitInv
<1>2. IInv /\ [Next]_versionVars => IInv'
  BY NextInv
<1>. QED  BY <1>1, <1>2, PTL DEF Spec

(* Types, for any requests of any clients, and the shape of the storage:   *)
(* the folders are exactly the proper beginnings of the paths of files, so *)
(* that each is on the way to a file and none on the way is missing.       *)
THEOREM TypeCorrect ==
  ASSUME VersionAssumption
  PROVE  Spec => [](TypeOK /\ FoldersNested)
BY Invariant, PTL DEF IInv

(* What a connection told its client, or is about to tell it without the   *)
(* lock, is true, and stays so whatever all connections do.                *)
THEOREM PromisesAlwaysKept ==
  ASSUME VersionAssumption
  PROVE  Spec => []PromisesKept
BY Invariant, PTL DEF IInv

-----------------------------------------------------------------------------
(* Every set of numbers has a least one.                                   *)
LEMMA LeastNumber ==
  ASSUME NEW S \in SUBSET Nat, S # {}
  PROVE  \E n \in S : \A m \in S : n <= m
<1> DEFINE R == OpToRel(<, Nat)
<1>1. \A m, n \in Nat : m < n => <<m, n>> \in R
  BY DEF OpToRel
<1>2. IsWellFoundedOn(R, Nat)
  BY NatLessThanWellFounded
<1> HIDE DEF R
<1>3. \E n \in S : \A m \in S : <<m, n>> \notin R
  BY <1>2, WFMin
<1>4. PICK n \in S : \A m \in S : <<m, n>> \notin R
  BY <1>3
<1>5. ASSUME NEW m \in S
      PROVE  n <= m
  <2>1. m \in Nat /\ n \in Nat /\ ~(m < n)
    BY <1>1, <1>4
  <2>. QED  BY <2>1
<1>. QED  BY <1>5

(* Commands that follow one another in a queue of tokens.                  *)
Ends(at, tokens, commands) ==
  /\ at \in [0..Len(commands) -> 0..Len(tokens)]
  /\ at[0] = 0 /\ at[Len(commands)] = Len(tokens)
  /\ \A i \in 1..Len(commands) :
       /\ at[i] = at[i - 1] + Len(commands[i])
       /\ \A j \in 1..Len(commands[i]) : tokens[at[i - 1] + j] = commands[i][j]

LEMMA LinedEnds ==
  ASSUME NEW tokens, NEW commands
  PROVE  Lined(tokens, commands) <=> \E at : Ends(at, tokens, commands)
BY ZenonT(60) DEF Lined, Ends

LEMMA NothingLined ==
  ASSUME NEW tokens \in Seq(Token)
  PROVE  Lined(tokens, <<>>) <=> tokens = <<>>
<1>0. Len(<<>>) = 0 /\ 0..0 = {0} /\ Len(tokens) \in Nat
  OBVIOUS
<1>1. ASSUME NEW at, Ends(at, tokens, <<>>)
      PROVE  tokens = <<>>
  <2>1. Len(tokens) = 0
    BY <1>0, <1>1 DEF Ends
  <2>. QED  BY <2>1, EmptySeq
<1>2. ASSUME tokens = <<>>
      PROVE  Lined(tokens, <<>>)
  <2> DEFINE at == [i \in {0} |-> 0]
  <2>1. at \in [0..0 -> 0..0] /\ at[0] = 0
    BY <1>0
  <2> HIDE DEF at
  <2>2. Ends(at, <<>>, <<>>)
    BY <1>0, <2>1 DEF Ends
  <2>. QED  BY <1>2, <2>2, LinedEnds
<1>. QED  BY <1>1, <1>2, LinedEnds

LEMMA FirstLined ==
  ASSUME NEW tokens \in Seq(Token), NEW commands \in Seq(Seq(Token)), commands # <<>>,
         Lined(tokens, commands)
  PROVE  /\ Len(Head(commands)) <= Len(tokens)
         /\ SubSeq(tokens, 1, Len(Head(commands))) = Head(commands)
         /\ \A j \in 1..Len(Head(commands)) : tokens[j] = Head(commands)[j]
<1>1. PICK at : Ends(at, tokens, commands)
  BY LinedEnds
<1> DEFINE first == Head(commands)
           s == SubSeq(tokens, 1, Len(first))
<1>2. /\ Len(commands) \in Nat \ {0} /\ Len(tokens) \in Nat
      /\ first = commands[1] /\ first \in Seq(Token) /\ Len(first) \in Nat
  BY EmptySeq
<1>3. at[1] \in 0..Len(tokens) /\ at[1] = Len(first) /\ at[0] = 0
  <2>1. 1 \in 1..Len(commands) /\ 1 \in 0..Len(commands) /\ 1 - 1 = 0
    BY <1>2
  <2>2. at[1] \in 0..Len(tokens) /\ at[0] = 0 /\ at[1] = at[1 - 1] + Len(first)
    BY <1>1, <1>2, <2>1 DEF Ends
  <2>. QED  BY <1>2, <2>1, <2>2
<1>4. \A j \in 1..Len(first) : tokens[j] = first[j]
  BY <1>1, <1>2, <1>3 DEF Ends
<1> HIDE DEF first
<1>5. s \in Seq(Token) /\ Len(s) = Len(first)
  BY <1>2, <1>3
<1>6. \A j \in 1..Len(s) : s[j] = first[j]
  BY <1>2, <1>3, <1>4
<1>7. s = first
  BY <1>2, <1>5, <1>6, SeqEqual
<1>. QED  BY <1>2, <1>3, <1>4, <1>7 DEF first

LEMMA RestLined ==
  ASSUME NEW tokens \in Seq(Token), NEW commands \in Seq(Seq(Token)), commands # <<>>,
         Lined(tokens, commands)
  PROVE  Lined(SubSeq(tokens, Len(Head(commands)) + 1, Len(tokens)), Tail(commands))
<1> DEFINE k == Len(Head(commands))
           rest == SubSeq(tokens, k + 1, Len(tokens))
           others == Tail(commands)
           n == Len(commands)
<1>1. PICK at : Ends(at, tokens, commands)
  BY LinedEnds
<1>2. /\ n \in Nat \ {0} /\ k = Len(commands[1])
      /\ \A i \in 1..n : commands[i] \in Seq(Token) /\ Len(commands[i]) \in Nat
  BY EmptySeq
<1>3. /\ Len(others) = n - 1
      /\ \A i \in 1..(n - 1) : others[i] = commands[i + 1]
  BY <1>2
<1>4. k \in Nat /\ k <= Len(tokens) /\ Len(tokens) \in Nat
  BY <1>2, FirstLined
<1>5. /\ Len(rest) = Len(tokens) - k
      /\ \A j \in 1..(Len(tokens) - k) : rest[j] = tokens[j + k]
  <2> HIDE DEF k
  <2>1. k + 1 \in Int /\ Len(tokens) \in Int /\ \A i \in (k + 1)..Len(tokens) : tokens[i] \in Token
    BY <1>4
  <2>2. /\ Len(rest) = IF k + 1 <= Len(tokens) THEN Len(tokens) - (k + 1) + 1 ELSE 0
        /\ \A j \in 1..(Len(tokens) - (k + 1) + 1) : rest[j] = tokens[(k + 1) + j - 1]
    BY <2>1, SubSeqProperties
  <2> HIDE DEF rest
  <2>3. Len(rest) = Len(tokens) - k
    BY <1>4, <2>2
  <2>4. ASSUME NEW j \in 1..(Len(tokens) - k)
        PROVE  rest[j] = tokens[j + k]
    <3>1. j \in 1..(Len(tokens) - (k + 1) + 1) /\ (k + 1) + j - 1 = j + k
      BY <1>4
    <3>. QED  BY <2>2, <3>1
  <2>. QED  BY <2>3, <2>4
<1>6. /\ at \in [0..n -> 0..Len(tokens)]
      /\ at[0] = 0 /\ at[n] = Len(tokens)
      /\ \A i \in 1..n :
           /\ at[i] = at[i - 1] + Len(commands[i])
           /\ \A j \in 1..Len(commands[i]) : tokens[at[i - 1] + j] = commands[i][j]
  BY <1>1 DEF Ends
<1>a. at \in [0..n -> 0..Len(tokens)]
  BY <1>6
<1> HIDE DEF k, rest, others, n
<1>b. \A i \in 0..n : at[i] \in Nat /\ at[i] <= Len(tokens)
  BY <1>4, <1>a
<1>7. at[1] = k
  BY <1>2, <1>4, <1>6
<1>8. \A i \in 1..n : at[i] >= k
  <2> DEFINE low == {i \in 1..n : at[i] < k}
  <2>1. SUFFICES ASSUME NEW i \in 1..n, at[i] < k PROVE FALSE
    <3>1. \A i \in 1..n : at[i] \in Nat
      BY <1>2, <1>b
    <3>2. \A x \in Nat : ~(x < k) => x >= k
      BY <1>4
    <3>. QED  BY <3>1, <3>2
  <2>2. low \in SUBSET Nat /\ low # {}
    BY SMTT(30), <1>2, <2>1
  <2>3. PICK m \in low : \A j \in low : m <= j
    BY <2>2, LeastNumber
  <2>4. m \in 2..n /\ m - 1 \in 1..n /\ m - 1 \notin low
    BY <1>2, <1>4, <1>7, <2>3
  <2>5. at[m - 1] >= k /\ at[m] = at[m - 1] + Len(commands[m]) /\ at[m] < k
    BY SMTT(30), <1>2, <1>4, <1>6, <2>3, <2>4
  <2>6. at[m - 1] \in Nat /\ Len(commands[m]) \in Nat
    BY <1>2, <1>b, <2>4
  <2>. QED  BY SMTT(30), <1>4, <2>5, <2>6
<1> DEFINE moved == [i \in 0..(n - 1) |-> at[i + 1] - k]
<1>9. moved \in [0..(n - 1) -> 0..(Len(tokens) - k)]
  <2>1. ASSUME NEW i \in 0..(n - 1)
        PROVE  at[i + 1] - k \in 0..(Len(tokens) - k)
    <3>1. i + 1 \in 1..n
      BY <1>2
    <3>2. at[i + 1] \in 0..Len(tokens) /\ at[i + 1] >= k
      BY <1>2, <1>6, <1>8, <3>1
    <3>. QED  BY <1>4, <3>2
  <2>. QED  BY <2>1
<1>10. moved[0] = 0 /\ moved[n - 1] = Len(tokens) - k
  <2>1. 0 \in 0..(n - 1) /\ n - 1 \in 0..(n - 1) /\ 0 + 1 = 1 /\ (n - 1) + 1 = n
    BY <1>2
  <2>2. moved[0] = at[1] - k /\ moved[n - 1] = at[n] - k
    BY <2>1
  <2>. QED  BY <1>4, <1>6, <1>7, <2>2
<1>11. ASSUME NEW i \in 1..(n - 1)
       PROVE  /\ moved[i] = moved[i - 1] + Len(others[i])
              /\ \A j \in 1..Len(others[i]) : rest[moved[i - 1] + j] = others[i][j]
  <2>1. i + 1 \in 1..n /\ i \in 1..n /\ (i + 1) - 1 = i /\ others[i] = commands[i + 1]
    BY <1>2, <1>3
  <2>2. moved[i] = at[i + 1] - k /\ moved[i - 1] = at[i] - k
    BY <1>2
  <2> HIDE DEF moved
  <2>3. /\ at[i + 1] = at[i] + Len(others[i]) /\ Len(others[i]) \in Nat
        /\ \A j \in 1..Len(others[i]) : tokens[at[i] + j] = others[i][j]
    <3>1. /\ at[i + 1] = at[(i + 1) - 1] + Len(commands[i + 1])
          /\ \A j \in 1..Len(commands[i + 1]) :
               tokens[at[(i + 1) - 1] + j] = commands[i + 1][j]
      BY <1>6, <2>1
    <3>. QED  BY <1>2, <2>1, <3>1
  <2>4. at[i] \in 0..Len(tokens) /\ at[i + 1] \in 0..Len(tokens) /\ at[i] >= k
    BY <1>2, <1>b, <1>8, <2>1
  <2>5. ASSUME NEW j \in 1..Len(others[i])
        PROVE  rest[moved[i - 1] + j] = others[i][j]
    <3>1. at[i] - k + j \in 1..(Len(tokens) - k) /\ (at[i] - k + j) + k = at[i] + j
      <4>1. /\ at[i] \in Nat /\ at[i + 1] \in Nat /\ at[i + 1] <= Len(tokens) /\ at[i] >= k
            /\ at[i + 1] = at[i] + Len(others[i]) /\ Len(others[i]) \in Nat
            /\ j \in Nat /\ 1 <= j /\ j <= Len(others[i])
        BY <1>4, <2>3, <2>4
      <4>2. \A a, b, l \in Nat : a >= k /\ b = a + l /\ b <= Len(tokens) /\ j <= l
              => a - k + j \in 1..(Len(tokens) - k) /\ (a - k + j) + k = a + j
        BY <1>4, <4>1
      <4>. QED  BY <4>1, <4>2
    <3>2. rest[at[i] - k + j] = tokens[at[i] + j]
      BY <1>5, <3>1
    <3>. QED  BY <2>2, <2>3, <3>2
  <2>. QED  BY SMTT(30), <1>4, <2>2, <2>3, <2>4, <2>5
<1> HIDE DEF moved
<1>12. Ends(moved, rest, others)
  BY <1>3, <1>5, <1>9, <1>10, <1>11 DEF Ends
<1>. QED  BY <1>12, LinedEnds DEF rest, others, k

LEMMA MoreLined ==
  ASSUME NEW tokens \in Seq(Token), NEW commands \in Seq(Seq(Token)),
         Lined(tokens, commands), NEW command \in Seq(Token)
  PROVE  Lined(tokens \o command, Append(commands, command))
<1> DEFINE n == Len(commands)
           longer == tokens \o command
           more == Append(commands, command)
<1>1. PICK at : Ends(at, tokens, commands)
  BY LinedEnds
<1>2. /\ n \in Nat /\ Len(tokens) \in Nat /\ Len(command) \in Nat
      /\ \A i \in 1..n : Len(commands[i]) \in Nat
      /\ Len(more) = n + 1 /\ more[n + 1] = command
      /\ \A i \in 1..n : more[i] = commands[i]
  OBVIOUS
<1>3. /\ Len(longer) = Len(tokens) + Len(command)
      /\ \A j \in 1..Len(tokens) : longer[j] = tokens[j]
      /\ \A j \in 1..Len(command) : longer[Len(tokens) + j] = command[j]
  OBVIOUS
<1>4. /\ at \in [0..n -> 0..Len(tokens)] /\ at[0] = 0 /\ at[n] = Len(tokens)
      /\ \A i \in 1..n : /\ at[i] = at[i - 1] + Len(commands[i])
                         /\ \A j \in 1..Len(commands[i]) : tokens[at[i - 1] + j] = commands[i][j]
  BY <1>1 DEF Ends
<1>a. at \in [0..n -> 0..Len(tokens)]
  BY <1>4
<1> HIDE DEF n, longer, more
<1>b. \A i \in 0..n : at[i] \in Nat /\ at[i] <= Len(tokens)
  BY <1>2, <1>a
<1> DEFINE ends == [i \in 0..(n + 1) |-> IF i = n + 1 THEN Len(longer) ELSE at[i]]
<1>5. /\ ends \in [0..(n + 1) -> 0..Len(longer)]
      /\ ends[0] = 0 /\ ends[n + 1] = Len(longer)
      /\ \A i \in 0..n : ends[i] = at[i]
  BY <1>2, <1>3, <1>4
<1> HIDE DEF ends
<1>6. ASSUME NEW i \in 1..n
      PROVE  /\ ends[i] = ends[i - 1] + Len(more[i])
             /\ \A j \in 1..Len(more[i]) : longer[ends[i - 1] + j] = more[i][j]
  <2>0. i \in 0..n /\ i - 1 \in 0..n
    BY <1>2
  <2>1. ends[i] = at[i] /\ ends[i - 1] = at[i - 1] /\ more[i] = commands[i]
    BY <1>2, <1>5, <2>0
  <2>2. /\ at[i - 1] \in Nat /\ at[i] \in Nat /\ at[i] <= Len(tokens)
        /\ at[i] = at[i - 1] + Len(commands[i])
    BY <1>4, <1>b, <2>0
  <2>3. ASSUME NEW j \in 1..Len(commands[i])
        PROVE  longer[at[i - 1] + j] = commands[i][j]
    <3>1. at[i - 1] + j \in 1..Len(tokens)
      <4>1. j \in Nat /\ 1 <= j /\ j <= Len(commands[i]) /\ Len(commands[i]) \in Nat
        BY <1>2
      <4>2. \A a, b \in Nat : b = a + Len(commands[i]) /\ b <= Len(tokens)
              => a + j \in 1..Len(tokens)
        BY <1>2, <4>1
      <4>. QED  BY <2>2, <4>2
    <3>. QED  BY <1>3, <1>4, <3>1
  <2>. QED  BY <1>4, <2>1, <2>3
<1>7. /\ ends[n + 1] = ends[n] + Len(more[n + 1])
      /\ \A j \in 1..Len(more[n + 1]) : longer[ends[n] + j] = more[n + 1][j]
  <2>1. ends[n] = Len(tokens) /\ ends[n + 1] = Len(tokens) + Len(command)
    BY <1>2, <1>3, <1>4, <1>5
  <2>. QED  BY <1>2, <1>3, <2>1
<1>8. Ends(ends, longer, more)
  <2>1. \A i \in 1..(n + 1) : i \in 1..n \/ i = n + 1
    BY <1>2
  <2>2. (n + 1) - 1 = n
    BY <1>2
  <2>. QED  BY <1>2, <1>5, <1>6, <1>7, <2>1, <2>2 DEF Ends
<1>. QED  BY <1>8, LinedEnds DEF longer, more

(* The command that a connection is about to read.                         *)
LEMMA NextCommand ==
  ASSUME VersionAssumption, TypeOK, NEW c \in Client, Queued(c), NEW n \in Nat \ {0}, Read(c, n)
  PROVE  /\ asked[c] # <<>> /\ Command(Head(asked[c])) /\ Line(c) = Head(asked[c])[1]
         /\ Len(Head(asked[c])) = 2 => Len(input[c]) > 1 /\ input[c][2] = Head(asked[c])[2]
         /\ n = Len(Head(asked[c])) => Lined(input'[c], Tail(asked[c]))
<1>1. /\ input[c] \in Seq(Token) /\ asked[c] \in Seq(Request) /\ asked[c] \in Seq(Seq(Token))
      /\ Lined(input[c], asked[c]) /\ Len(input[c]) >= n
  BY DEF TypeOK, VersionAssumption, Queued, Read
<1>2. asked[c] # <<>>
  <2>1. input[c] # <<>>
    BY <1>1
  <2>. QED  BY <1>1, <2>1, NothingLined
<1> DEFINE r == Head(asked[c])
<1>3. r \in Request /\ r \in Seq(Token) /\ Command(r)
  BY <1>1, <1>2 DEF VersionAssumption
<1>4. Len(r) <= Len(input[c]) /\ \A j \in 1..Len(r) : input[c][j] = r[j]
  BY <1>1, <1>2, FirstLined
<1>5. n = Len(r) => Lined(input'[c], Tail(asked[c]))
  <2>1. input'[c] = SubSeq(input[c], n + 1, Len(input[c]))
    BY DEF Read, Dropped, TypeOK
  <2>. QED  BY <1>1, <1>2, <2>1, RestLined
<1> HIDE DEF r
<1>6. Len(r) \in {1, 2} /\ r[1].method # "data"
  BY <1>3 DEF Command
<1>7. Line(c) = r[1]
  <2>1. Head(input[c]) = r[1]
    BY <1>1, <1>4, <1>6
  <2>. QED  BY <1>6, <2>1 DEF Line
<1>8. Len(r) = 2 => Len(input[c]) > 1 /\ input[c][2] = r[2]
  BY <1>1, <1>4
<1>. QED  BY <1>2, <1>3, <1>5, <1>7, <1>8 DEF r

(* A step of one connection that leaves the others' commands alone.        *)
LEMMA OthersQueued ==
  ASSUME CommandsQueued, NEW c \in Client, misled \subseteq misled',
         \A d \in Client \ {c} : /\ input'[d] = input[d] /\ asked'[d] = asked[d]
                                 /\ pc'[d] = pc[d],
         c \notin misled' => Queued(c)'
  PROVE  CommandsQueued'
<1>1. ASSUME NEW d \in Client \ misled', d # c
      PROVE  Queued(d)'
  <2>1. Queued(d) /\ input'[d] = input[d] /\ asked'[d] = asked[d] /\ pc'[d] = pc[d]
    BY <1>1 DEF CommandsQueued
  <2>. QED  BY <2>1 DEF Queued
<1>. QED  BY <1>1 DEF CommandsQueued

(* A whole command is read before it is answered.                          *)
LEMMA AnsweredQueued ==
  ASSUME VersionAssumption, TypeOK, CommandsQueued, NEW c \in Client,
         NEW n \in Nat \ {0}, Read(c, n), NEW kind, NEW revisions, NEW entries,
         Answer(c, kind, revisions, entries), misled \subseteq misled',
         c \notin misled' => n = Len(Head(asked[c]))
  PROVE  CommandsQueued'
<1>1. /\ pc' = [pc EXCEPT ![c] = "answering"] /\ asked' = asked
      /\ input' = [input EXCEPT ![c] = Dropped(n, c)]
  BY DEF Answer, Read
<1>2. c \notin misled' => Queued(c)'
  <2>1. SUFFICES ASSUME c \notin misled' PROVE Queued(c)'
    OBVIOUS
  <2>2. Queued(c)
    BY <2>1 DEF CommandsQueued
  <2>3. asked[c] # <<>> /\ Lined(input'[c], Tail(asked[c]))
    BY <2>1, <2>2, NextCommand
  <2>4. pc'[c] = "answering"
    BY <1>1 DEF TypeOK
  <2>. QED  BY <1>1, <2>3, <2>4 DEF Queued
<1>3. \A d \in Client \ {c} : /\ input'[d] = input[d] /\ asked'[d] = asked[d]
                              /\ pc'[d] = pc[d]
  BY <1>1 DEF TypeOK
<1>. QED  BY <1>2, <1>3, OthersQueued

LEMMA RefuseQueued ==
  ASSUME VersionAssumption, TypeOK, CommandsQueued, NEW c \in Client, Refuse(c)
  PROVE  CommandsQueued'
<1>1. Read(c, 1) /\ Answer(c, "error", {}, {}) /\ misled \subseteq misled'
  BY DEF Refuse
<1>2. ASSUME c \notin misled'
      PROVE  Len(Head(asked[c])) = 1
  <2>1. Queued(c)
    BY <1>1, <1>2 DEF CommandsQueued
  <2>2. /\ Command(Head(asked[c])) /\ Misformed(Head(asked[c])[1])
        /\ Len(Head(asked[c])) = 2 => Len(input[c]) > 1 /\ input[c][2] = Head(asked[c])[2]
    BY <1>1, <2>1, NextCommand DEF Refuse
  <2>3. ~(Len(input[c]) > 1 /\ input[c][2].method = "data")
    BY <1>2 DEF Refuse
  <2>. QED  BY <2>2, <2>3 DEF Command
<1>3. 1 \in Nat \ {0}
  OBVIOUS
<1>. QED  BY <1>1, <1>2, <1>3, AnsweredQueued

LEMMA PutDataQueued ==
  ASSUME VersionAssumption, TypeOK, CommandsQueued, NEW c \in Client, PutData(c)
  PROVE  CommandsQueued'
<1>1. /\ Read(c, 2) /\ misled' = misled /\ Line(c).method = "put" /\ ~Misformed(Line(c))
      /\ \E kind, revisions, entries : Answer(c, kind, revisions, entries)
  BY DEF PutData
<1>2. ASSUME c \notin misled
      PROVE  Len(Head(asked[c])) = 2
  <2>1. Queued(c)
    BY <1>2 DEF CommandsQueued
  <2>2. Command(Head(asked[c])) /\ Line(c) = Head(asked[c])[1]
    BY <1>1, <2>1, NextCommand
  <2>. QED  BY <1>1, <2>2 DEF Command
<1>3. 2 \in Nat \ {0}
  OBVIOUS
<1>. QED  BY <1>1, <1>2, <1>3, AnsweredQueued

LEMMA LineQueued ==
  ASSUME VersionAssumption, TypeOK, CommandsQueued, NEW c \in Client, Help(c) \/ Get(c) \/ List(c)
  PROVE  CommandsQueued'
<1>1. /\ Read(c, 1) /\ misled' = misled /\ Line(c).method \in {"help", "get", "list"}
      /\ \E kind, revisions, entries : Answer(c, kind, revisions, entries)
  BY DEF Help, Get, List
<1>2. ASSUME c \notin misled
      PROVE  Len(Head(asked[c])) = 1
  <2>1. Queued(c)
    BY <1>2 DEF CommandsQueued
  <2>2. Command(Head(asked[c])) /\ Line(c) = Head(asked[c])[1]
    BY <1>1, <2>1, NextCommand
  <2>. QED  BY <1>1, <2>2 DEF Command
<1>3. 1 \in Nat \ {0}
  OBVIOUS
<1>. QED  BY <1>1, <1>2, <1>3, AnsweredQueued

LEMMA CloseQueued ==
  ASSUME TypeOK, CommandsQueued, NEW c \in Client, Close(c)
  PROVE  CommandsQueued'
<1>1. pc' = [pc EXCEPT ![c] = "closed"] /\ asked' = asked /\ misled' = misled /\ Read(c, 1)
  BY DEF Close
<1>2. Queued(c)'
  BY <1>1 DEF Queued, TypeOK
<1>3. \A d \in Client \ {c} : /\ input'[d] = input[d] /\ asked'[d] = asked[d]
                              /\ pc'[d] = pc[d]
  BY <1>1 DEF TypeOK, Read
<1>. QED  BY <1>1, <1>2, <1>3, OthersQueued

LEMMA WriteQueued ==
  ASSUME TypeOK, CommandsQueued, NEW c \in Client, Write(c)
  PROVE  CommandsQueued'
<1>1. /\ pc[c] = "answering" /\ pc' = [pc EXCEPT ![c] = "parsing"]
      /\ asked' = [asked EXCEPT ![c] = IF @ = <<>> THEN @ ELSE Tail(@)]
      /\ input' = input /\ misled' = misled
  BY DEF Write
<1>2. c \notin misled' => Queued(c)'
  <2>1. SUFFICES ASSUME c \notin misled' PROVE Queued(c)'
    OBVIOUS
  <2>2. asked[c] # <<>> /\ Lined(input[c], Tail(asked[c]))
    BY <1>1, <2>1 DEF CommandsQueued, Queued
  <2>3. asked'[c] = Tail(asked[c]) /\ pc'[c] = "parsing"
    BY <1>1, <2>2 DEF TypeOK
  <2>. QED  BY <1>1, <2>2, <2>3 DEF Queued
<1>3. \A d \in Client \ {c} : /\ input'[d] = input[d] /\ asked'[d] = asked[d]
                              /\ pc'[d] = pc[d]
  BY <1>1 DEF TypeOK
<1>. QED  BY <1>1, <1>2, <1>3, OthersQueued

LEMMA TailAppend ==
  ASSUME NEW S, NEW s \in Seq(S), s # <<>>, NEW e \in S
  PROVE  /\ Tail(s) \in Seq(S) /\ Append(s, e) # <<>>
         /\ Tail(Append(s, e)) = Append(Tail(s), e)
<1> DEFINE t == Tail(Append(s, e))
           u == Append(Tail(s), e)
<1>1. Len(s) \in Nat \ {0}
  BY EmptySeq
<1>2. /\ Append(s, e) \in Seq(S) /\ Len(Append(s, e)) = Len(s) + 1 /\ Append(s, e) # <<>>
      /\ \A i \in 1..Len(s) : Append(s, e)[i] = s[i]
      /\ Append(s, e)[Len(s) + 1] = e
  BY <1>1
<1>3. /\ Tail(s) \in Seq(S) /\ Len(Tail(s)) = Len(s) - 1
      /\ \A i \in 1..(Len(s) - 1) : Tail(s)[i] = s[i + 1]
  BY <1>1
<1>4. /\ t \in Seq(S) /\ Len(t) = Len(s)
      /\ \A i \in 1..Len(s) : t[i] = Append(s, e)[i + 1]
  BY <1>1, <1>2
<1>5. /\ u \in Seq(S) /\ Len(u) = Len(s) /\ u[Len(s)] = e
      /\ \A i \in 1..(Len(s) - 1) : u[i] = s[i + 1]
  BY <1>1, <1>3
<1> HIDE DEF t, u
<1>6. \A i \in 1..Len(s) : t[i] = u[i]
  BY <1>1, <1>2, <1>4, <1>5
<1>7. t = u
  BY <1>4, <1>5, <1>6, SeqEqual
<1>. QED  BY <1>2, <1>3, <1>7 DEF t, u

LEMMA SendQueued ==
  ASSUME VersionAssumption, TypeOK, CommandsQueued, NEW c \in Client,
         NEW request \in Request, Send(c, request)
  PROVE  CommandsQueued'
<1>1. /\ input' = [input EXCEPT ![c] = @ \o request] /\ pc' = pc /\ misled' = misled
      /\ asked' = [asked EXCEPT ![c] = Append(@, request)]
  BY DEF Send
<1>2. /\ input[c] \in Seq(Token) /\ asked[c] \in Seq(Seq(Token)) /\ request \in Seq(Token)
      /\ input'[c] = input[c] \o request /\ asked'[c] = Append(asked[c], request)
  BY <1>1 DEF TypeOK, VersionAssumption
<1>3. ASSUME asked[c] # <<>>
      PROVE  /\ Tail(asked[c]) \in Seq(Seq(Token)) /\ asked'[c] # <<>>
             /\ Tail(asked'[c]) = Append(Tail(asked[c]), request)
  BY <1>2, <1>3, TailAppend
<1>4. ASSUME c \notin misled'
      PROVE  Queued(c)'
  <2>1. Queued(c)
    BY <1>1, <1>4 DEF CommandsQueued
  <2>2. CASE pc[c] = "parsing"
    BY <1>1, <1>2, <2>1, <2>2, MoreLined DEF Queued
  <2>3. CASE pc[c] = "answering"
    BY <1>1, <1>2, <1>3, <2>1, <2>3, MoreLined DEF Queued
  <2>4. CASE pc[c] = "closed"
    BY <1>1, <2>4 DEF Queued
  <2>. QED  BY <2>2, <2>3, <2>4 DEF TypeOK
<1>5. \A d \in Client \ {c} : /\ input'[d] = input[d] /\ asked'[d] = asked[d]
                              /\ pc'[d] = pc[d]
  BY <1>1 DEF TypeOK
<1>. QED  BY <1>1, <1>4, <1>5, OthersQueued

LEMMA InitQueued == Init => CommandsQueued
<1>1. <<>> \in Seq(Token)
  OBVIOUS
<1>2. Lined(<<>>, <<>>)
  BY <1>1, NothingLined
<1>. QED  BY <1>2 DEF Init, CommandsQueued, Queued

LEMMA NextQueued ==
  ASSUME VersionAssumption, TypeOK, CommandsQueued, [Next]_versionVars
  PROVE  CommandsQueued'
<1>1. CASE UNCHANGED versionVars
  <2>1. input' = input /\ asked' = asked /\ pc' = pc /\ misled' = misled
    BY <1>1 DEF versionVars, clientVars
  <2>. QED  BY <2>1 DEF CommandsQueued, Queued
<1>2. ASSUME NEW c \in Client, NEW request \in Request, Send(c, request)
      PROVE  CommandsQueued'
  BY <1>2, SendQueued
<1>3. ASSUME NEW c \in Client,
             \/ Refuse(c) \/ Help(c) \/ PutData(c) \/ Get(c) \/ List(c) \/ Close(c) \/ Write(c)
      PROVE  CommandsQueued'
  BY <1>3, RefuseQueued, PutDataQueued, LineQueued, CloseQueued, WriteQueued
<1>. QED  BY <1>1, <1>2, <1>3 DEF Next

(* Commands sent in any rhythm, read one at a time and answered whenever   *)
(* the lock is free, are each read whole: where a command is expected, the *)
(* first one without an answer begins, but for a PUT that was refused.     *)
THEOREM LoopInStep ==
  ASSUME VersionAssumption
  PROVE  Spec => []AnswersInStep
<1>1. Init => CommandsQueued
  BY InitQueued
<1>2. TypeOK /\ CommandsQueued /\ [Next]_versionVars => CommandsQueued'
  BY NextQueued
<1>3. TypeOK /\ CommandsQueued => AnswersInStep
  <2>1. SUFFICES ASSUME TypeOK, CommandsQueued, NEW c \in Client \ misled, pc[c] = "parsing"
                 PROVE  IF asked[c] = <<>> THEN input[c] = <<>>
                        ELSE /\ Len(input[c]) >= Len(Head(asked[c]))
                             /\ SubSeq(input[c], 1, Len(Head(asked[c]))) = Head(asked[c])
    BY DEF AnswersInStep
  <2>2. /\ input[c] \in Seq(Token) /\ asked[c] \in Seq(Seq(Token))
        /\ Lined(input[c], asked[c])
    BY <2>1 DEF TypeOK, VersionAssumption, CommandsQueued, Queued
  <2>3. CASE asked[c] = <<>>
    BY <2>2, <2>3, NothingLined
  <2>4. CASE asked[c] # <<>>
    <3>1. /\ Len(Head(asked[c])) <= Len(input[c])
          /\ SubSeq(input[c], 1, Len(Head(asked[c]))) = Head(asked[c])
      BY <2>2, <2>4, FirstLined
    <3>2. Len(Head(asked[c])) \in Nat /\ Len(input[c]) \in Nat
      BY <2>2, <2>4
    <3>. QED  BY <2>4, <3>1, <3>2
  <2>. QED  BY <2>3, <2>4
<1>. QED  BY <1>1, <1>2, <1>3, TypeCorrect, PTL DEF Spec

-----------------------------------------------------------------------------
(* The refinement.  The history of a path is empty when there is no file,  *)
(* and a file is found through its folders.                                *)
History == [p \in FilePath |-> IF p \in DOMAIN files THEN files[p] ELSE <<>>]

LEMMA HistoryFacts ==
  ASSUME VersionAssumption, TypeOK
  PROVE  \A p \in FilePath :
           /\ Store!Exists(p) <=> p \in DOMAIN files
           /\ p \in DOMAIN files =>
                /\ History[p] = files[p]
                /\ \A n : Store!Revision(p, n) = <<p, n, files[p][n]>>
<1>1. ASSUME NEW p \in FilePath, p \in DOMAIN files
      PROVE  History[p] = files[p] /\ History[p] # <<>>
  BY <1>1 DEF History, TypeOK
<1>2. ASSUME NEW p \in FilePath, p \notin DOMAIN files
      PROVE  History[p] = <<>>
  BY <1>2 DEF History
<1>. QED  BY <1>1, <1>2 DEF Store!Exists, Store!Revision, History

LEMMA FoundThroughFolders ==
  ASSUME FoldersNested, NEW p
  PROVE  Has(p) <=> p \in DOMAIN files
BY DEF FoldersNested, Has

LEMMA StorageMaps ==
  ASSUME UNCHANGED storageVars
  PROVE  History' = History
BY DEF storageVars, History

LEMMA AnswerMaps ==
  ASSUME TypeOK, NEW c \in Client, NEW n \in Nat, Read(c, n),
         NEW kind, NEW revisions, NEW entries, Answer(c, kind, revisions, entries)
  PROVE  Store!Answer(c, kind, revisions, entries)
BY DEF Read, Answer, TypeOK, Store!Answer

(* A name below a folder is that of a file in it, or of a folder in it     *)
(* that a file goes through.                                               *)
LEMMA PathBelow ==
  ASSUME VersionAssumption, NEW dir \in Folder, NEW p \in FilePath, Store!InFolder(p, dir)
  PROVE  /\ Store!NameIn(p, dir) \in Name
         /\ SubSeq(p, 1, Len(dir) + 1) = Append(dir, Store!NameIn(p, dir))
         /\ Len(p) = Len(dir) + 1 => p = Append(dir, Store!NameIn(p, dir))
         /\ Len(p) # Len(dir) + 1 => Append(dir, Store!NameIn(p, dir)) \in Above(p)
         /\ dir # <<>> => dir \in Above(p)
<1>1. p \in Seq(Name) /\ dir \in Seq(Name) /\ Len(p) \in Nat /\ Len(dir) \in Nat
  BY DEF VersionAssumption
<1>2. Len(dir) < Len(p) /\ SubSeq(p, 1, Len(dir)) = dir
  BY DEF Store!InFolder
<1> DEFINE m == p[Len(dir) + 1]
<1>3. m \in Name /\ Store!NameIn(p, dir) = m
  BY <1>1, <1>2 DEF Store!NameIn
<1>4. ASSUME NEW i \in 1..Len(dir)
      PROVE  dir[i] = p[i]
  BY <1>1, <1>2
<1>5. SubSeq(p, 1, Len(dir) + 1) = Append(dir, m)
  <2>1. SubSeq(p, 1, Len(dir) + 1) \in Seq(Name) /\ Append(dir, m) \in Seq(Name)
    BY <1>1, <1>2, <1>3
  <2>2. Len(SubSeq(p, 1, Len(dir) + 1)) = Len(dir) + 1 /\ Len(Append(dir, m)) = Len(dir) + 1
    BY <1>1, <1>2
  <2>3. \A i \in 1..(Len(dir) + 1) : SubSeq(p, 1, Len(dir) + 1)[i] = Append(dir, m)[i]
    BY <1>1, <1>2, <1>4
  <2>. QED  BY <2>1, <2>2, <2>3, SeqEqual
<1>6. Len(p) = Len(dir) + 1 => p = Append(dir, m)
  BY <1>1, <1>5
<1>7. Len(p) # Len(dir) + 1 => Append(dir, m) \in Above(p)
  BY <1>1, <1>2, <1>5 DEF Above
<1>8. dir # <<>> => dir \in Above(p)
  <2>1. dir # <<>> => Len(dir) \in 1..(Len(p) - 1)
    BY <1>1, <1>2, EmptySeq
  <2>. QED  BY <1>2, <2>1 DEF Above
<1>. QED  BY <1>3, <1>5, <1>6, <1>7, <1>8

LEMMA PathThrough ==
  ASSUME VersionAssumption, NEW dir \in Folder, NEW p \in FilePath, NEW m \in Name
  PROVE  /\ p = Append(dir, m) =>
              Store!InFolder(p, dir) /\ Len(p) = Len(dir) + 1 /\ Store!NameIn(p, dir) = m
         /\ Append(dir, m) \in Above(p) =>
              Store!InFolder(p, dir) /\ Len(p) > Len(dir) + 1 /\ Store!NameIn(p, dir) = m
<1>1. p \in Seq(Name) /\ dir \in Seq(Name) /\ Len(p) \in Nat /\ Len(dir) \in Nat
  BY DEF VersionAssumption
<1>2. ASSUME NEW k \in 1..Len(p), Append(dir, m) = SubSeq(p, 1, k)
      PROVE  Store!InFolder(p, dir) /\ k = Len(dir) + 1 /\ Store!NameIn(p, dir) = m
  <2>1. Len(Append(dir, m)) = Len(dir) + 1 /\ Len(SubSeq(p, 1, k)) = k
    BY <1>1, <1>2
  <2>2. k = Len(dir) + 1
    BY <1>2, <2>1
  <2>3. \A i \in 1..k : SubSeq(p, 1, k)[i] = p[i]
    BY <1>1
  <2>4. p[k] = m /\ \A i \in 1..Len(dir) : p[i] = dir[i]
    BY <1>1, <1>2, <2>2, <2>3
  <2>5. SubSeq(p, 1, Len(dir)) = dir
    <3>1. SubSeq(p, 1, Len(dir)) \in Seq(Name) /\ Len(SubSeq(p, 1, Len(dir))) = Len(dir)
      BY <1>1, <2>2
    <3>2. \A i \in 1..Len(dir) : SubSeq(p, 1, Len(dir))[i] = dir[i]
      BY <1>1, <2>2, <2>4
    <3>. QED  BY <1>1, <3>1, <3>2, SeqEqual
  <2>. QED  BY <1>1, <2>2, <2>4, <2>5 DEF Store!InFolder, Store!NameIn
<1>3. p = Append(dir, m) => Len(p) = Len(dir) + 1 /\ p = SubSeq(p, 1, Len(p))
  BY <1>1
<1>4. ASSUME Append(dir, m) \in Above(p)
      PROVE  \E k \in 1..(Len(p) - 1) : Append(dir, m) = SubSeq(p, 1, k)
  BY <1>4 DEF Above
<1>. QED  BY <1>1, <1>2, <1>3, <1>4

LEMMA ListingMaps ==
  ASSUME VersionAssumption, TypeOK, FoldersNested, NEW dir \in Folder
  PROVE  Entries(dir) = Store!Listing(dir)
<1> DEFINE below == {p \in FilePath : Store!Exists(p) /\ Store!InFolder(p, dir)}
           inside == {p \in below : Len(p) = Len(dir) + 1}
           hidden == {Store!NameIn(p, dir) : p \in inside}
           names == {Store!NameIn(p, dir) : p \in below}
           fileNames == {m \in Name : Append(dir, m) \in DOMAIN files}
           folderNames == {m \in Name : Append(dir, m) \in folders}
<1>1. \A p \in FilePath : Store!Exists(p) <=> p \in DOMAIN files
  BY HistoryFacts
<1>2. DOMAIN files \subseteq FilePath /\ \A p \in DOMAIN files : LatestVersion(p) \in Nat \ {0}
  BY DEF TypeOK, LatestVersion
<1>3. \A p \in inside : /\ p \in DOMAIN files /\ Store!NameIn(p, dir) \in Name
                        /\ p = Append(dir, Store!NameIn(p, dir))
  BY <1>1, PathBelow
<1>4. \A m \in fileNames : /\ Append(dir, m) \in inside
                           /\ Store!NameIn(Append(dir, m), dir) = m
  BY <1>1, <1>2, PathThrough
<1>5. hidden = fileNames
  BY <1>3, <1>4
<1>6. names = fileNames \union folderNames
  <2>1. ASSUME NEW p \in below
        PROVE  Store!NameIn(p, dir) \in fileNames \union folderNames
    <3>1. p \in DOMAIN files /\ Store!NameIn(p, dir) \in Name
      BY <1>1, PathBelow
    <3>2. CASE Len(p) = Len(dir) + 1
      BY <3>1, <3>2, PathBelow
    <3>3. CASE Len(p) # Len(dir) + 1
      BY <3>1, <3>3, PathBelow DEF FoldersNested
    <3>. QED  BY <3>2, <3>3
  <2>2. ASSUME NEW m \in folderNames
        PROVE  m \in names
    <3>1. PICK p \in DOMAIN files : Append(dir, m) \in Above(p)
      BY DEF FoldersNested
    <3>2. p \in below /\ Store!NameIn(p, dir) = m
      BY <1>1, <1>2, <3>1, PathThrough
    <3>. QED  BY <3>2
  <2>3. fileNames \subseteq names
    BY <1>4
  <2>. QED  BY <2>1, <2>2, <2>3
<1>7. ListAll(dir) = {<<m, LatestVersion(Append(dir, m))>> : m \in fileNames}
                       \union {<<m, 0>> : m \in folderNames}
  <2>1. CASE dir = <<>> \/ dir \in folders
    BY <2>1 DEF ListAll
  <2>2. CASE dir # <<>> /\ dir \notin folders
    <3>1. \A p \in below : dir \in folders
      BY <1>1, <2>2, PathBelow DEF FoldersNested
    <3>2. fileNames = {} /\ folderNames = {}
      BY <1>6, <2>2, <3>1
    <3>. QED  BY <2>2, <3>2 DEF ListAll
  <2>. QED  BY <2>1, <2>2
<1>8. Entries(dir) = {<<m, LatestVersion(Append(dir, m))>> : m \in fileNames}
                       \union {<<m, 0>> : m \in folderNames \ fileNames}
  <2>1. ASSUME NEW m \in fileNames
        PROVE  <<m, LatestVersion(Append(dir, m))>> \in Entries(dir)
    BY <1>2, <1>7 DEF Entries
  <2>2. ASSUME NEW m \in folderNames \ fileNames
        PROVE  <<m, 0>> \in Entries(dir)
    BY <1>7 DEF Entries
  <2>3. ASSUME NEW m \in folderNames, m \in fileNames
        PROVE  <<m, 0>> \notin Entries(dir)
    <3>1. <<m, LatestVersion(Append(dir, m))>> \in ListAll(dir) /\ LatestVersion(Append(dir, m)) # 0
      BY <1>2, <1>7, <2>3
    <3>. QED  BY <3>1 DEF Entries
  <2>. QED  BY <1>7, <2>1, <2>2, <2>3 DEF Entries
<1>9. {<<Store!NameIn(p, dir), Len(History[p])>> : p \in inside}
        = {<<m, LatestVersion(Append(dir, m))>> : m \in fileNames}
  <2>1. \A p \in inside : /\ Store!NameIn(p, dir) \in fileNames
                          /\ Len(History[p]) = LatestVersion(Append(dir, Store!NameIn(p, dir)))
    BY <1>3, HistoryFacts DEF LatestVersion
  <2>. QED  BY <1>4, <2>1
<1>10. Store!Listing(dir) = {<<Store!NameIn(p, dir), Len(History[p])>> : p \in inside}
                              \union {<<m, 0>> : m \in names \ hidden}
  BY DEF Store!Listing, History
<1>11. names \ hidden = folderNames \ fileNames
  BY <1>5, <1>6
<1>. QED  BY <1>8, <1>9, <1>10, <1>11

LEMMA NamedMaps ==
  ASSUME VersionAssumption, TypeOK, FoldersNested, NEW dir \in Folder
  PROVE  LET shown == {Append(dir, e[1]) : e \in {f \in Entries(dir) : f[2] > 0}} IN
         {<<p, LatestVersion(p), files[p][LatestVersion(p)]>> : p \in shown}
           = {Store!Latest(p) : p \in {q \in FilePath : /\ Store!Exists(q)
                                                        /\ Len(q) = Len(dir) + 1
                                                        /\ Store!InFolder(q, dir)}}
<1> DEFINE shown == {Append(dir, e[1]) : e \in {f \in Entries(dir) : f[2] > 0}}
           inside == {q \in FilePath : /\ Store!Exists(q)
                                       /\ Len(q) = Len(dir) + 1
                                       /\ Store!InFolder(q, dir)}
<1>1. \A p \in FilePath : Store!Exists(p) <=> p \in DOMAIN files
  BY HistoryFacts
<1>2. DOMAIN files \subseteq FilePath /\ \A p \in DOMAIN files : LatestVersion(p) \in Nat \ {0}
  BY DEF TypeOK, LatestVersion
<1>3. shown \subseteq inside
  <2>1. ASSUME NEW e \in Entries(dir), e[2] > 0
        PROVE  Append(dir, e[1]) \in inside
    <3>1. e[1] \in Name /\ Append(dir, e[1]) \in DOMAIN files
      BY <2>1, EntryFacts
    <3>. QED  BY <1>1, <1>2, <3>1, PathThrough
  <2>. QED  BY <2>1
<1>4. inside \subseteq shown
  <2>1. ASSUME NEW p \in inside
        PROVE  p \in shown
    <3> DEFINE m == Store!NameIn(p, dir)
               e == <<m, LatestVersion(p)>>
    <3>1. m \in Name /\ p = Append(dir, m) /\ p \in DOMAIN files
      BY <1>1, PathBelow
    <3>2. e = <<Store!NameIn(p, dir), Len(History[p])>>
      BY <3>1, HistoryFacts DEF LatestVersion
    <3>3. e \in Store!Listing(dir)
      BY <3>2 DEF Store!Listing, History
    <3>4. e \in Entries(dir) /\ e[2] > 0 /\ Append(dir, e[1]) = p
      BY <1>2, <3>1, <3>3, ListingMaps
    <3>. QED  BY <3>4
  <2>. QED  BY <2>1
<1>5. shown = inside
  BY <1>3, <1>4
<1>6. \A p \in inside : Store!Latest(p) = <<p, LatestVersion(p), files[p][LatestVersion(p)]>>
  <2>1. ASSUME NEW p \in inside
        PROVE  Store!Latest(p) = <<p, LatestVersion(p), files[p][LatestVersion(p)]>>
    <3>1. p \in DOMAIN files /\ History[p] = files[p]
      BY <1>1, HistoryFacts
    <3>2. Store!Latest(p) = Store!Revision(p, Len(files[p]))
      BY <3>1 DEF Store!Latest, History
    <3>. QED  BY <3>1, <3>2, HistoryFacts DEF LatestVersion
  <2>. QED  BY <2>1
<1>7. {<<p, LatestVersion(p), files[p][LatestVersion(p)]>> : p \in shown}
        = {Store!Latest(p) : p \in inside}
  BY <1>5, <1>6
<1>. QED  BY <1>7

LEMMA StoringMaps ==
  ASSUME VersionAssumption, IInv, NEW c \in Client, Read(c, 2),
         NEW path \in FilePath, NEW content \in Content, Put(path, content),
         Answer(c, "revision", {<<path, Len(files'[path]), content>>}, {})
  PROVE  Store!Next
<1>1. TypeOK
  BY DEF IInv
<1>2. Store!Answer(c, "revision", {<<path, Len(files'[path]), content>>}, {})
  BY <1>1, AnswerMaps
<1>3. /\ DOMAIN files' = DOMAIN files \union {path}
      /\ files'[path] = Added(path, content)
      /\ \A p \in DOMAIN files \ {path} : files'[p] = files[p]
  BY PutFacts
<1>4. History' = [History EXCEPT ![path] = Added(path, content)]
  BY <1>3 DEF History
<1>5. History'[path] = files'[path]
  BY <1>3 DEF History
<1>6. Store!Exists(path) <=> path \in DOMAIN files
  BY <1>1, HistoryFacts
<1>7. CASE path \notin DOMAIN files
  <2>1. History[path] = <<>> /\ Added(path, content) = Append(<<>>, content)
    BY <1>7 DEF History, Added
  <2>2. History' = [History EXCEPT ![path] = Append(@, content)]
    BY <1>4, <2>1
  <2>. QED  BY <1>2, <1>5, <1>6, <1>7, <2>2 DEF Store!Put, History, Store!Next
<1>8. CASE path \in DOMAIN files /\ content = files[path][LatestVersion(path)]
  <2>1. History[path] = files[path] /\ Added(path, content) = files[path]
    BY <1>8 DEF History, Added
  <2>2. History' = History /\ History[path][Len(History[path])] = content
    BY <1>4, <1>8, <2>1 DEF History, LatestVersion
  <2>. QED  BY <1>2, <1>5, <1>6, <1>8, <2>2 DEF Store!Put, History, Store!Next
<1>9. CASE path \in DOMAIN files /\ content # files[path][LatestVersion(path)]
  <2>1. History[path] = files[path] /\ Added(path, content) = Append(files[path], content)
    BY <1>9 DEF History, Added
  <2>2. /\ History' = [History EXCEPT ![path] = Append(@, content)]
        /\ History[path][Len(History[path])] # content
    BY <1>4, <1>9, <2>1 DEF LatestVersion
  <2>. QED  BY <1>2, <1>5, <1>6, <1>9, <2>2 DEF Store!Put, History, Store!Next
<1>. QED  BY <1>7, <1>8, <1>9

LEMMA PutMaps ==
  ASSUME VersionAssumption, IInv, NEW c \in Client, PutData(c)
  PROVE  Store!Next
<1> DEFINE path == PathOf(Line(c))
           content == input[c][2].content
<1>0. TypeOK /\ Read(c, 2) /\ Len(input[c]) >= 1
  BY DEF IInv, PutData, Read
<1>1. input[c] \in Seq(Token) /\ Len(input[c]) >= 2
  BY <1>0 DEF TypeOK, Read
<1>2. content \in Content
  BY <1>1, DataContent DEF PutData
<1>3. Line(c) \in Token
  BY <1>0, <1>1, LineToken
<1>4. path \in FilePath
  BY <1>3, FileOf DEF PutData
<1>5. CASE content \in NotText
  <2>1. Answer(c, "error", {}, {}) /\ UNCHANGED storageVars
    BY <1>5 DEF PutData
  <2>2. Store!Answer(c, "error", {}, {}) /\ History' = History
    BY <1>0, <2>1, AnswerMaps, StorageMaps
  <2>3. Store!Other(c)
    BY <2>2 DEF Store!Other, History
  <2>. QED  BY <2>3 DEF Store!Next
<1>6. CASE content \notin NotText
  <2>1. /\ Put(path, content)
        /\ Answer(c, "revision", {<<path, Len(files'[path]), content>>}, {})
    BY <1>6 DEF PutData
  <2>. QED  BY <1>0, <1>2, <1>4, <2>1, StoringMaps
<1>. QED  BY <1>5, <1>6

LEMMA GetMaps ==
  ASSUME VersionAssumption, IInv, NEW c \in Client, Get(c)
  PROVE  Store!Next
<1> DEFINE path == PathOf(Line(c))
           n == IF Line(c).revision = Nothing THEN LatestVersion(path) ELSE Line(c).revision
<1>0. TypeOK /\ Read(c, 1) /\ Len(input[c]) >= 1 /\ History' = History
  BY StorageMaps DEF IInv, Get, Read
<1>1. path \in FilePath
  BY <1>0, LineToken, FileOf DEF Get
<1>2. CASE Answer(c, "error", {}, {})
  <2>1. Store!Other(c)
    BY <1>0, <1>2, AnswerMaps DEF Store!Other, History
  <2>. QED  BY <2>1 DEF Store!Next
<1>3. CASE /\ Has(path) /\ n \in 1..LatestVersion(path)
           /\ Answer(c, "content", {<<path, n, files[path][n]>>}, {})
  <2>1. path \in DOMAIN files /\ History[path] = files[path]
    BY <1>0, <1>1, <1>3, HistoryFacts DEF Has
  <2>2. Store!Revision(path, n) = <<path, n, files[path][n]>>
    BY <1>0, <1>1, <2>1, HistoryFacts
  <2>3. Store!Answer(c, "content", {<<path, n, files[path][n]>>}, {})
    BY <1>0, <1>3, AnswerMaps
  <2>4. n \in 1..Len(History[path])
    BY <1>3, <2>1 DEF LatestVersion
  <2>5. Store!Get(c, path)
    BY <1>0, <2>2, <2>3, <2>4 DEF Store!Get, History
  <2>. QED  BY <1>1, <2>5 DEF Store!Next
<1>. QED  BY <1>2, <1>3 DEF Get

LEMMA ListMaps ==
  ASSUME VersionAssumption, IInv, NEW c \in Client, List(c)
  PROVE  Store!Next
<1> DEFINE dir == PathOf(Line(c))
           shown == {Append(dir, e[1]) : e \in {f \in Entries(dir) : f[2] > 0}}
           revisions == {<<p, LatestVersion(p), files[p][LatestVersion(p)]>> : p \in shown}
<1>0. TypeOK /\ FoldersNested /\ Read(c, 1) /\ Len(input[c]) >= 1 /\ History' = History
  BY StorageMaps DEF IInv, List, Read
<1>1. dir \in Folder
  BY <1>0, LineToken, FolderOf DEF List
<1>2. Answer(c, "list", revisions, Entries(dir))
  BY DEF List
<1>3. Store!Answer(c, "list", revisions, Entries(dir))
  BY <1>0, <1>2, AnswerMaps
<1>4. Store!List(c, dir)
  BY <1>0, <1>1, <1>3, ListingMaps, NamedMaps DEF Store!List, History
<1>. QED  BY <1>1, <1>4 DEF Store!Next

LEMMA OtherMaps ==
  ASSUME VersionAssumption, IInv, NEW c \in Client, Refuse(c) \/ Help(c)
  PROVE  Store!Next
<1>1. TypeOK /\ Read(c, 1) /\ History' = History
  BY StorageMaps DEF IInv, Refuse, Help
<1>2. Answer(c, "error", {}, {}) \/ Answer(c, "help", {}, {})
  BY DEF Refuse, Help
<1>3. Store!Other(c)
  BY <1>1, <1>2, AnswerMaps DEF Store!Other, History
<1>. QED  BY <1>3 DEF Store!Next

LEMMA WriteMaps ==
  ASSUME VersionAssumption, IInv, NEW c \in Client, Write(c)
  PROVE  Store!Next
<1>1. TypeOK /\ History' = History
  BY StorageMaps DEF IInv, Write
<1>2. Store!Deliver(c)
  BY <1>1 DEF Write, TypeOK, Store!Deliver, History
<1>. QED  BY <1>2 DEF Store!Next

LEMMA StepMaps ==
  ASSUME VersionAssumption, IInv, [Next]_versionVars
  PROVE  [Store!Next]_(Store!storeVars)
<1>1. CASE UNCHANGED versionVars
  <2>1. UNCHANGED storageVars /\ reply' = reply /\ told' = told
    BY <1>1 DEF versionVars, clientVars
  <2>. QED  BY <2>1, StorageMaps DEF Store!storeVars, History
<1>2. ASSUME NEW c \in Client, Close(c) \/ \E request \in Request : Send(c, request)
      PROVE  UNCHANGED Store!storeVars
  <2>1. UNCHANGED storageVars /\ reply' = reply /\ told' = told
    BY <1>2 DEF Close, Send
  <2>. QED  BY <2>1, StorageMaps DEF Store!storeVars, History
<1>3. ASSUME NEW c \in Client,
             Refuse(c) \/ Help(c) \/ PutData(c) \/ Get(c) \/ List(c) \/ Write(c)
      PROVE  Store!Next
  BY <1>3, OtherMaps, PutMaps, GetMaps, ListMaps, WriteMaps
<1>. QED  BY <1>1, <1>2, <1>3 DEF Next

LEMMA InitMaps == Init => Store!Init
BY DEF Init, Store!Init

(* The folders, the locks and the parser answer like the flat store.       *)
THEOREM StoreImplemented ==
  ASSUME VersionAssumption
  PROVE  Spec => ImplementsStore
<1>1. Init => Store!Init
  BY InitMaps
<1>2. IInv /\ [Next]_versionVars => [Store!Next]_(Store!storeVars)
  BY StepMaps
<1>. QED  BY <1>1, <1>2, Invariant, PTL DEF Spec, ImplementsStore, Store!Spec

-----------------------------------------------------------------------------
(* The chat proxy.                                                         *)
CONSTANTS Word, Address, Tony, Space, NewLine, Wide, Texts, MaxTokens
VARIABLES sent, taken, prev_part, written, writing, target, name_established, ended, closed,
          broken, relay

Proxy == INSTANCE ChatProxy

-----------------------------------------------------------------------------
(* Folds.                                                                  *)

(* If the numbers up to N with a property contain 0 and, with every number *)
(* below N, the next one, they are all.                                    *)
LEMMA UpTo ==
  ASSUME NEW N \in Nat, NEW numbers, 0 \in numbers,
         \A n \in 0..(N - 1) : n \in numbers => n + 1 \in numbers
  PROVE  \A n \in 0..N : n \in numbers
<1> DEFINE out == {n \in 0..N : n \notin numbers}
<1>1. SUFFICES ASSUME out # {}
               PROVE  FALSE
  OBVIOUS
<1>2. out \in SUBSET Nat
  OBVIOUS
<1> HIDE DEF out
<1>3. PICK n \in out : \A m \in out : n <= m
  BY <1>1, <1>2, LeastNumber
<1>4. n \in 0..N /\ n \notin numbers
  BY <1>3 DEF out
<1>5. n # 0 /\ n - 1 \in 0..(N - 1) /\ (n - 1) + 1 = n
  BY <1>4
<1>6. n - 1 \notin numbers
  BY <1>4, <1>5
<1>7. n - 1 \in out
  BY <1>4, <1>5, <1>6 DEF out
<1>8. n <= n - 1
  BY <1>3, <1>7
<1>. QED  BY <1>4, <1>8

(* The last element of a set of numbers, which a fold takes first. *)
LEMMA LastOf ==
  ASSUME NEW N \in Nat, NEW s \in SUBSET (1..N), s # {}
  PROVE  Proxy!Max(s) \in s /\ \A m \in s : m <= Proxy!Max(s)
<1> DEFINE above == {n \in 0..N : \A m \in s : m <= n}
<1>1. N \in above /\ above \in SUBSET Nat
  OBVIOUS
<1>2. PICK n \in above : \A m \in above : n <= m
  BY <1>1, LeastNumber
<1>3. n \in s
  <2>1. SUFFICES ASSUME n \notin s PROVE FALSE
    OBVIOUS
  <2>2. PICK m \in s : TRUE
    OBVIOUS
  <2>3. m \in 1..N /\ m <= n /\ n \in 0..N
    BY <1>2
  <2>4. \A k \in s : k <= n - 1
    BY <1>2, <2>1
  <2>5. n - 1 \in above
    BY <2>3, <2>4
  <2>. QED  BY <1>2, <2>3, <2>5
<1>4. \A m \in s : m <= n /\ m \in Int
  BY <1>2
<1>5. \E k \in s : \A m \in s : k >= m
  BY <1>3, <1>4
<1>. QED  BY <1>5 DEF Proxy!Max

LEMMA LastOfAll ==
  ASSUME NEW n \in Nat, n # 0
  PROVE  Proxy!Max(1..n) = n /\ (1..n) \ {n} = 1..(n - 1)
<1>1. 1..n \in SUBSET (1..n) /\ n \in 1..n
  OBVIOUS
<1>2. Proxy!Max(1..n) \in 1..n /\ n <= Proxy!Max(1..n)
  BY <1>1, LastOf
<1>. QED  BY <1>2

(* A fold over the places 1..N as the library defines it, the function of *)
(* the places that it goes over first; and its values for the prefixes.    *)
Folding(f, Values, base, N, step) ==
  /\ f \in [SUBSET (1..N) -> Values]
  /\ \A s \in SUBSET (1..N) :
       f[s] = IF s = {} THEN base ELSE step[Proxy!Max(s)][f[s \ {Proxy!Max(s)}]]
Folds(f, Values, base, N, step) ==
  /\ f[{}] = base
  /\ \A s \in SUBSET (1..N) :
       s # {} /\ f[s \ {Proxy!Max(s)}] \in Values => f[s] = step[Proxy!Max(s)][f[s \ {Proxy!Max(s)}]]
Trace(trace, Values, base, N, step, last) ==
  /\ trace \in [0..N -> Values] /\ trace[0] = base /\ trace[N] = last
  /\ \A n \in 1..N : trace[n] = step[n][trace[n - 1]]

(* A fold whose steps keep to a set is defined ... *)
LEMMA FoldDefined ==
  ASSUME NEW Values, NEW base \in Values, NEW N \in Nat, NEW step \in [1..N -> [Values -> Values]]
  PROVE  \E f : Folding(f, Values, base, N, step)
<1> DEFINE Steps(f, m) == \A s \in SUBSET (1..m) :
              f[s] = IF s = {} THEN base ELSE step[Proxy!Max(s)][f[s \ {Proxy!Max(s)}]]
           defined == {m \in Nat : \E f \in [SUBSET (1..m) -> Values] : Steps(f, m)}
<1>1. 0 \in defined
  <2>1. [s \in SUBSET (1..0) |-> base] \in [SUBSET (1..0) -> Values]
    OBVIOUS
  <2>2. \A s \in SUBSET (1..0) : s = {}
    OBVIOUS
  <2>3. Steps([s \in SUBSET (1..0) |-> base], 0)
    BY <2>2
  <2>. QED  BY <2>1, <2>3
<1>2. ASSUME NEW m \in 0..(N - 1), m \in defined
      PROVE  m + 1 \in defined
  <2>1. PICK g \in [SUBSET (1..m) -> Values] : Steps(g, m)
    BY <1>2
  <2>2. m + 1 \in 1..N /\ m + 1 \in Nat /\ m \in Nat
    OBVIOUS
  <2> DEFINE f == [s \in SUBSET (1..(m + 1)) |->
                     IF m + 1 \in s THEN step[m + 1][g[s \ {m + 1}]] ELSE g[s]]
  <2>3. ASSUME NEW s \in SUBSET (1..(m + 1))
        PROVE  /\ s \ {m + 1} \in SUBSET (1..m)
               /\ m + 1 \notin s => s \in SUBSET (1..m)
    <3>1. \A k \in s : k # m + 1 => k \in 1..m
      OBVIOUS
    <3>. QED  BY <3>1
  <2>4. f \in [SUBSET (1..(m + 1)) -> Values]
    BY <2>1, <2>2, <2>3
  <2>5. ASSUME NEW s \in SUBSET (1..(m + 1))
        PROVE  f[s] = IF s = {} THEN base ELSE step[Proxy!Max(s)][f[s \ {Proxy!Max(s)}]]
    <3>1. CASE m + 1 \in s
      <4>1. Proxy!Max(s) \in s /\ m + 1 <= Proxy!Max(s) /\ Proxy!Max(s) \in 1..(m + 1)
        BY <2>2, <3>1, LastOf
      <4>2. Proxy!Max(s) = m + 1
        BY <4>1
      <4>3. m + 1 \notin s \ {m + 1} /\ s \ {m + 1} \in SUBSET (1..(m + 1))
        OBVIOUS
      <4>4. f[s \ {m + 1}] = g[s \ {m + 1}]
        BY <4>3
      <4>. QED  BY <3>1, <4>2, <4>4
    <3>2. CASE m + 1 \notin s
      <4>1. f[s] = g[s] /\ s \in SUBSET (1..m)
        BY <2>3, <3>2
      <4>2. CASE s = {}
        BY <2>1, <4>1, <4>2
      <4>3. CASE s # {}
        <5>1. s \ {Proxy!Max(s)} \in SUBSET (1..(m + 1)) /\ m + 1 \notin s \ {Proxy!Max(s)}
          BY <3>2
        <5>2. f[s \ {Proxy!Max(s)}] = g[s \ {Proxy!Max(s)}]
          BY <5>1
        <5>. QED  BY <2>1, <4>1, <4>3, <5>2
      <4>. QED  BY <4>2, <4>3
    <3>. QED  BY <3>1, <3>2
  <2> HIDE DEF f
  <2>6. Steps(f, m + 1)
    BY <2>5
  <2>. QED  BY <2>2, <2>4, <2>6
<1>3. N \in defined
  <2> HIDE DEF defined
  <2>1. \A n \in 0..N : n \in defined
    BY <1>1, <1>2, UpTo
  <2>. QED  BY <2>1
<1>. QED  BY <1>3 DEF Folding

(* ... and goes over the prefixes in turn. *)
LEMMA FoldTrace ==
  ASSUME NEW Values, NEW base \in Values, NEW N \in Nat, NEW step \in [1..N -> [Values -> Values]],
         NEW f, Folds(f, Values, base, N, step)
  PROVE  \E trace : Trace(trace, Values, base, N, step, f[1..N])
<1> USE DEF Folds
<1> DEFINE typed == {n \in Nat : f[1..n] \in Values}
<1>1. 0 \in typed
  BY 1..0 = {}
<1>2. ASSUME NEW n \in 1..N, f[1..(n - 1)] \in Values
      PROVE  f[1..n] = step[n][f[1..(n - 1)]]
  <2>1. 1..n \in SUBSET (1..N) /\ 1..n # {} /\ n \in Nat /\ n # 0
    OBVIOUS
  <2>2. Proxy!Max(1..n) = n /\ (1..n) \ {n} = 1..(n - 1)
    BY <2>1, LastOfAll
  <2>. QED  BY <1>2, <2>1, <2>2
<1>3. ASSUME NEW m \in 0..(N - 1), m \in typed
      PROVE  m + 1 \in typed
  <2>1. m + 1 \in 1..N /\ (m + 1) - 1 = m /\ m + 1 \in Nat
    OBVIOUS
  <2>. QED  BY <1>2, <1>3, <2>1
<1>4. \A n \in 0..N : n \in typed
  <2> HIDE DEF typed
  <2>. QED  BY <1>1, <1>3, UpTo
<1> DEFINE trace == [n \in 0..N |-> f[1..n]]
<1>5. trace \in [0..N -> Values]
  BY <1>4
<1>6. ASSUME NEW n \in 1..N
      PROVE  trace[n] = step[n][trace[n - 1]]
  <2>1. n \in 0..N /\ n - 1 \in 0..N
    OBVIOUS
  <2>. QED  BY <1>2, <1>4, <2>1
<1>7. trace[0] = base /\ trace[N] = f[1..N]
  BY 1..0 = {}
<1> HIDE DEF trace
<1>. QED  BY <1>5, <1>6, <1>7 DEF Trace

-----------------------------------------------------------------------------
Item == Proxy!Token \union {Tony}

(* replace_address, pass by pass: what each of them has done after n tokens. *)
LEMMA DoubledSteps ==
  ASSUME NEW line \in Seq(Item)
  PROVE  \E trace :
           /\ trace \in [0..Len(line) -> Seq(Item)] /\ trace[0] = <<>>
           /\ Proxy!Doubled(line) = trace[Len(line)]
           /\ \A n \in 1..Len(line) :
                trace[n] = trace[n - 1] \o (IF line[n] = Space THEN <<line[n], line[n]>> ELSE <<line[n]>>)
<1> DEFINE N == Len(line)
           values == Seq(Item)
           base == <<>>
           next(done, i) == done \o (IF line[i] = Space THEN <<line[i], line[i]>> ELSE <<line[i]>>)
           step == [n \in 1..N |-> [done \in values |-> next(done, n)]]
           Law(f) == f = [s \in SUBSET DOMAIN line |->
                            IF s = {} THEN base ELSE next(f[s \ {Proxy!Max(s)}], Proxy!Max(s))]
<1>1. N \in Nat /\ DOMAIN line = 1..N /\ base \in values
  OBVIOUS
<1>2. \A i \in 1..N, done \in values : next(done, i) \in values
  OBVIOUS
<1>3. step \in [1..N -> [values -> values]]
  <2> HIDE DEF next, values
  <2>. QED  BY <1>2
<1>4. \E f : Law(f)
  <2>1. PICK f : Folding(f, values, base, N, step)
    <3> HIDE DEF step, N, values, base
    <3>. QED  BY <1>1, <1>3, FoldDefined
  <2>2. ASSUME NEW s \in SUBSET (1..N), s # {}
        PROVE  f[s] = next(f[s \ {Proxy!Max(s)}], Proxy!Max(s))
    <3>1. Proxy!Max(s) \in 1..N /\ s \ {Proxy!Max(s)} \in SUBSET (1..N)
      BY <1>1, <2>2, LastOf
    <3> HIDE DEF next, N, values, base
    <3>. QED  BY <2>1, <2>2, <3>1 DEF Folding
  <2>3. Law(f)
    <3> HIDE DEF next, N, values, base
    <3>. QED  BY <1>1, <2>1, <2>2 DEF Folding
  <2>. QED  BY <2>3
<1>5. PICK g : Law(g) /\ Proxy!Doubled(line) = g[DOMAIN line]
  BY <1>4 DEF Proxy!Doubled, Proxy!FoldLeft, Proxy!MapThenFoldSet
<1> HIDE DEF next, values, base, N
<1>6. Folds(g, values, base, N, step)
  <2>1. ASSUME NEW s \in SUBSET (1..N), s # {}, g[s \ {Proxy!Max(s)}] \in values
        PROVE  g[s] = step[Proxy!Max(s)][g[s \ {Proxy!Max(s)}]]
    <3>1. Proxy!Max(s) \in 1..N
      BY <1>1, <2>1, LastOf
    <3>. QED  BY <1>1, <1>5, <2>1, <3>1
  <2>2. g[{}] = base
    BY <1>1, <1>5
  <2>. QED  BY <2>1, <2>2 DEF Folds
<1> HIDE DEF step
<1>7. PICK trace : Trace(trace, values, base, N, step, g[1..N])
  BY <1>1, <1>3, <1>6, FoldTrace
<1>8. ASSUME NEW n \in 1..N
      PROVE  trace[n] = next(trace[n - 1], n)
  <2>1. n - 1 \in 0..N
    BY <1>1
  <2>. QED  BY <1>7, <2>1 DEF Trace, step
<1>9. trace \in [0..N -> values] /\ trace[0] = base /\ Proxy!Doubled(line) = trace[N]
  BY <1>1, <1>5, <1>7 DEF Trace
<1>. QED  BY <1>8, <1>9 DEF next, values, base, N

(* What Substituted looks for at place i. *)
Found(line, i, used) ==
  /\ line[i] = Address
  /\ i = 1 \/ (line[i - 1] = Space /\ used < i - 1)
  /\ i = Len(line) \/ line[i + 1] \in {Space, NewLine}

LEMMA SubstitutedSteps ==
  ASSUME NEW line \in Seq(Item)
  PROVE  \E trace :
           /\ trace \in [0..Len(line) -> [done : Seq(Item), used : Nat]] /\ trace[0] = [done |-> <<>>, used |-> 0]
           /\ Proxy!Substituted(line) = trace[Len(line)].done
           /\ \A n \in 1..Len(line) :
                trace[n] = IF Found(line, n, trace[n - 1].used)
                           THEN [done |-> Append(trace[n - 1].done, Tony), used |-> n + 1]
                           ELSE [trace[n - 1] EXCEPT !.done = Append(@, line[n])]
<1> DEFINE N == Len(line)
           values == [done : Seq(Item), used : Nat]
           base == [done |-> <<>>, used |-> 0]
           next(done, i) == IF Found(line, i, done.used)
                           THEN [done |-> Append(done.done, Tony), used |-> i + 1]
                           ELSE [done EXCEPT !.done = Append(@, line[i])]
           step == [n \in 1..N |-> [done \in values |-> next(done, n)]]
           Law(f) == f = [s \in SUBSET DOMAIN [i \in 1..Len(line) |-> i] |->
                            IF s = {} THEN base ELSE next(f[s \ {Proxy!Max(s)}], [i \in 1..Len(line) |-> i][Proxy!Max(s)])]
<1>1. N \in Nat /\ DOMAIN [i \in 1..Len(line) |-> i] = 1..N /\ base \in values
  OBVIOUS
<1>2. \A i \in 1..N, done \in values : next(done, i) \in values
  <2> SUFFICES ASSUME NEW i \in 1..N, NEW d \in values
               PROVE  next(d, i) \in values
    OBVIOUS
  <2>1. line[i] \in Item /\ Tony \in Item /\ d.done \in Seq(Item)
    BY DEF Item
  <2>2. Append(d.done, Tony) \in Seq(Item) /\ Append(d.done, line[i]) \in Seq(Item)
    BY <2>1
  <2>3. i + 1 \in Nat
    OBVIOUS
  <2>. QED  BY <2>2, <2>3
<1>3. step \in [1..N -> [values -> values]]
  <2> HIDE DEF next, values
  <2>. QED  BY <1>2
<1>4. \E f : Law(f)
  <2>1. PICK f : Folding(f, values, base, N, step)
    <3> HIDE DEF step, N, values, base
    <3>. QED  BY <1>1, <1>3, FoldDefined
  <2>2. ASSUME NEW s \in SUBSET (1..N), s # {}
        PROVE  f[s] = next(f[s \ {Proxy!Max(s)}], Proxy!Max(s))
    <3>1. Proxy!Max(s) \in 1..N /\ s \ {Proxy!Max(s)} \in SUBSET (1..N)
      BY <1>1, <2>2, LastOf
    <3> HIDE DEF next, N, values, base
    <3>. QED  BY <2>1, <2>2, <3>1 DEF Folding
  <2>3. Law(f)
    <3>1. \A s \in SUBSET (1..N) : s # {} => Proxy!Max(s) \in 1..N /\ [i \in 1..Len(line) |-> i][Proxy!Max(s)] = Proxy!Max(s)
      BY <1>1, LastOf
    <3> HIDE DEF next, N, values, base
    <3>. QED  BY <1>1, <2>1, <2>2, <3>1 DEF Folding
  <2>. QED  BY <2>3
<1>5. PICK g : Law(g) /\ Proxy!Substituted(line) = g[DOMAIN [i \in 1..Len(line) |-> i]].done
  BY <1>4 DEF Proxy!Substituted, Found, Proxy!FoldLeft, Proxy!MapThenFoldSet
<1> HIDE DEF next, values, base, N
<1>6. Folds(g, values, base, N, step)
  <2>1. ASSUME NEW s \in SUBSET (1..N), s # {}, g[s \ {Proxy!Max(s)}] \in values
        PROVE  g[s] = step[Proxy!Max(s)][g[s \ {Proxy!Max(s)}]]
    <3>1. Proxy!Max(s) \in 1..N
      BY <1>1, <2>1, LastOf
    <3>. QED  BY <1>1, <1>5, <2>1, <3>1 DEF N
  <2>2. g[{}] = base
    BY <1>1, <1>5
  <2>. QED  BY <2>1, <2>2 DEF Folds
<1> HIDE DEF step
<1>7. PICK trace : Trace(trace, values, base, N, step, g[1..N])
  BY <1>1, <1>3, <1>6, FoldTrace
<1>8. ASSUME NEW n \in 1..N
      PROVE  trace[n] = next(trace[n - 1], n)
  <2>1. n - 1 \in 0..N
    BY <1>1
  <2>. QED  BY <1>7, <2>1 DEF Trace, step
<1>9. trace \in [0..N -> values] /\ trace[0] = base /\ Proxy!Substituted(line) = trace[N].done
  BY <1>1, <1>5, <1>7 DEF Trace
<1>. QED  BY <1>8, <1>9 DEF next, values, base, N

LEMMA HalvedSteps ==
  ASSUME NEW line \in Seq(Item)
  PROVE  \E trace :
           /\ trace \in [0..Len(line) -> [done : Seq(Item), odd : BOOLEAN]] /\ trace[0] = [done |-> <<>>, odd |-> FALSE]
           /\ Proxy!Halved(line) = trace[Len(line)].done
           /\ \A n \in 1..Len(line) :
                trace[n] = IF line[n] = Space /\ trace[n - 1].odd THEN [trace[n - 1] EXCEPT !.odd = FALSE]
                           ELSE [done |-> Append(trace[n - 1].done, line[n]), odd |-> line[n] = Space]
<1> DEFINE N == Len(line)
           values == [done : Seq(Item), odd : BOOLEAN]
           base == [done |-> <<>>, odd |-> FALSE]
           next(done, i) == IF line[i] = Space /\ done.odd THEN [done EXCEPT !.odd = FALSE]
                           ELSE [done |-> Append(done.done, line[i]), odd |-> line[i] = Space]
           step == [n \in 1..N |-> [done \in values |-> next(done, n)]]
           Law(f) == f = [s \in SUBSET DOMAIN line |->
                            IF s = {} THEN base ELSE next(f[s \ {Proxy!Max(s)}], Proxy!Max(s))]
<1>1. N \in Nat /\ DOMAIN line = 1..N /\ base \in values
  OBVIOUS
<1>2. \A i \in 1..N, done \in values : next(done, i) \in values
  <2> SUFFICES ASSUME NEW i \in 1..N, NEW d \in values
               PROVE  next(d, i) \in values
    OBVIOUS
  <2>1. line[i] \in Item /\ d.done \in Seq(Item)
    OBVIOUS
  <2>2. Append(d.done, line[i]) \in Seq(Item)
    BY <2>1
  <2>3. (line[i] = Space) \in BOOLEAN
    OBVIOUS
  <2>. QED  BY <2>2, <2>3
<1>3. step \in [1..N -> [values -> values]]
  <2> HIDE DEF next, values
  <2>. QED  BY <1>2
<1>4. \E f : Law(f)
  <2>1. PICK f : Folding(f, values, base, N, step)
    <3> HIDE DEF step, N, values, base
    <3>. QED  BY <1>1, <1>3, FoldDefined
  <2>2. ASSUME NEW s \in SUBSET (1..N), s # {}
        PROVE  f[s] = next(f[s \ {Proxy!Max(s)}], Proxy!Max(s))
    <3>1. Proxy!Max(s) \in 1..N /\ s \ {Proxy!Max(s)} \in SUBSET (1..N)
      BY <1>1, <2>2, LastOf
    <3> HIDE DEF next, N, values, base
    <3>. QED  BY <2>1, <2>2, <3>1 DEF Folding
  <2>3. Law(f)
    <3> HIDE DEF next, N, values, base
    <3>. QED  BY <1>1, <2>1, <2>2 DEF Folding
  <2>. QED  BY <2>3
<1>5. PICK g : Law(g) /\ Proxy!Halved(line) = g[DOMAIN line].done
  BY <1>4 DEF Proxy!Halved, Proxy!FoldLeft, Proxy!MapThenFoldSet
<1> HIDE DEF next, values, base, N
<1>6. Folds(g, values, base, N, step)
  <2>1. ASSUME NEW s \in SUBSET (1..N), s # {}, g[s \ {Proxy!Max(s)}] \in values
        PROVE  g[s] = step[Proxy!Max(s)][g[s \ {Proxy!Max(s)}]]
    <3>1. Proxy!Max(s) \in 1..N
      BY <1>1, <2>1, LastOf
    <3>. QED  BY <1>1, <1>5, <2>1, <3>1
  <2>2. g[{}] = base
    BY <1>1, <1>5
  <2>. QED  BY <2>1, <2>2 DEF Folds
<1> HIDE DEF step
<1>7. PICK trace : Trace(trace, values, base, N, step, g[1..N])
  BY <1>1, <1>3, <1>6, FoldTrace
<1>8. ASSUME NEW n \in 1..N
      PROVE  trace[n] = next(trace[n - 1], n)
  <2>1. n - 1 \in 0..N
    BY <1>1
  <2>. QED  BY <1>7, <2>1 DEF Trace, step
<1>9. trace \in [0..N -> values] /\ trace[0] = base /\ Proxy!Halved(line) = trace[N].done
  BY <1>1, <1>5, <1>7 DEF Trace
<1>. QED  BY <1>8, <1>9 DEF next, values, base, N

-----------------------------------------------------------------------------
(* Where the tokens of a line are when its spaces are doubled. *)
Places(line, place) ==
  /\ place \in [0..Len(line) -> Nat] /\ place[0] = 0
  /\ \A n \in 1..Len(line) :
       place[n] = place[n - 1] + (IF line[n] = Space THEN 2 ELSE 1)

LEMMA PlacesGrow ==
  ASSUME NEW line \in Seq(Item), NEW place, Places(line, place)
  PROVE  \A n \in 0..Len(line) : \A m \in 0..n : place[m] + (n - m) <= place[n]
<1> DEFINE growing == {n \in 0..Len(line) : \A m \in 0..n : place[m] + (n - m) <= place[n]}
<1>1. Len(line) \in Nat
  OBVIOUS
<1>2. 0 \in growing
  BY <1>1 DEF Places
<1>3. ASSUME NEW n \in 0..(Len(line) - 1), n \in growing
      PROVE  n + 1 \in growing
  <2>1. n + 1 \in 1..Len(line) /\ n + 1 \in 0..Len(line) /\ (n + 1) - 1 = n
    BY <1>1
  <2>2. place[n] \in Nat /\ place[n + 1] \in Nat /\ place[n] + 1 <= place[n + 1]
    BY <2>1 DEF Places
  <2>3. ASSUME NEW m \in 0..(n + 1)
        PROVE  place[m] + ((n + 1) - m) <= place[n + 1]
    <3>1. CASE m = n + 1
      BY <2>2, <3>1
    <3>2. CASE m # n + 1
      <4>1. m \in 0..n /\ m \in 0..Len(line)
        BY <3>2, <2>1
      <4>2. place[m] \in Nat /\ place[m] + (n - m) <= place[n]
        BY <1>3, <4>1 DEF Places
      <4>. QED  BY <2>2, <4>1, <4>2
    <3>. QED  BY <3>1, <3>2
  <2>. QED  BY <2>1, <2>3
<1> HIDE DEF growing
<1>4. \A n \in 0..Len(line) : n \in growing
  BY <1>1, <1>2, <1>3, UpTo
<1>. QED  BY <1>4 DEF growing

(* Text "wide" has token n of the line at both of its places. *)
Doubling(wide, line, place, n) ==
  \A m \in 1..n : wide[place[m]] = line[m] /\ wide[place[m - 1] + 1] = line[m]

LEMMA DoubledFacts ==
  ASSUME NEW line \in Seq(Item)
  PROVE  \E place : /\ Places(line, place)
                    /\ Proxy!Doubled(line) \in Seq(Item) /\ Len(Proxy!Doubled(line)) = place[Len(line)]
                    /\ Doubling(Proxy!Doubled(line), line, place, Len(line))
<1>1. PICK trace : /\ trace \in [0..Len(line) -> Seq(Item)] /\ trace[0] = <<>>
                   /\ Proxy!Doubled(line) = trace[Len(line)]
                   /\ \A n \in 1..Len(line) :
                        trace[n] = trace[n - 1] \o (IF line[n] = Space THEN <<line[n], line[n]>> ELSE <<line[n]>>)
  BY DoubledSteps
<1> DEFINE place == [n \in 0..Len(line) |-> Len(trace[n])]
<1>2. Len(line) \in Nat
  OBVIOUS
<1>3. place \in [0..Len(line) -> Nat] /\ place[0] = 0 /\ \A n \in 0..Len(line) : place[n] = Len(trace[n])
  BY <1>1, <1>2
<1>4. ASSUME NEW n \in 1..Len(line)
      PROVE  /\ place[n] = place[n - 1] + (IF line[n] = Space THEN 2 ELSE 1)
             /\ \A k \in 1..place[n - 1] : trace[n][k] = trace[n - 1][k]
             /\ trace[n][place[n - 1] + 1] = line[n] /\ trace[n][place[n]] = line[n]
  <2>1. n - 1 \in 0..Len(line) /\ n \in 0..Len(line) /\ line[n] \in Item
    BY <1>2
  <2>2. trace[n - 1] \in Seq(Item) /\ place[n - 1] = Len(trace[n - 1]) /\ place[n] = Len(trace[n])
    BY <1>1, <1>3, <2>1
  <2> HIDE DEF place
  <2>3. CASE line[n] = Space
    <3>1. trace[n] = trace[n - 1] \o <<line[n], line[n]>>
      BY <1>1, <2>3
    <3>2. <<line[n], line[n]>> \in Seq(Item)
      BY <2>1
    <3>. QED  BY <2>2, <2>3, <3>1, <3>2
  <2>4. CASE line[n] # Space
    <3>1. trace[n] = trace[n - 1] \o <<line[n]>>
      BY <1>1, <2>4
    <3>2. <<line[n]>> \in Seq(Item)
      BY <2>1
    <3>. QED  BY <2>2, <2>4, <3>1, <3>2
  <2>. QED  BY <2>3, <2>4
<1> HIDE DEF place
<1>5. Places(line, place)
  BY <1>3, <1>4 DEF Places
<1>6. \A n \in 0..Len(line) : \A m \in 0..n : place[m] + (n - m) <= place[n]
  BY <1>5, PlacesGrow
<1> DEFINE good == {n \in 0..Len(line) : Doubling(trace[n], line, place, n)}
<1>7. 0 \in good
  BY <1>2 DEF Doubling
<1>8. ASSUME NEW n \in 0..(Len(line) - 1), n \in good
      PROVE  n + 1 \in good
  <2>1. n + 1 \in 1..Len(line) /\ n + 1 \in 0..Len(line) /\ (n + 1) - 1 = n /\ n \in 0..Len(line)
    BY <1>2
  <2>2. ASSUME NEW m \in 1..(n + 1)
        PROVE  trace[n + 1][place[m]] = line[m] /\ trace[n + 1][place[m - 1] + 1] = line[m]
    <3>1. CASE m = n + 1
      BY <1>4, <2>1, <3>1
    <3>2. CASE m # n + 1
      <4>1. m \in 1..n /\ m \in 0..n /\ m - 1 \in 0..m /\ m \in 0..Len(line) /\ m - 1 \in 0..Len(line)
        BY <2>1, <3>2
      <4>2. place[m] \in Nat /\ place[m - 1] \in Nat /\ place[n] \in Nat
        BY <1>3, <2>1, <4>1
      <4>3. place[m] + (n - m) <= place[n] /\ place[m - 1] + (m - (m - 1)) <= place[m]
        BY <1>6, <2>1, <4>1
      <4>4. place[m] \in 1..place[n] /\ place[m - 1] + 1 \in 1..place[n]
        BY <4>1, <4>2, <4>3
      <4>5. trace[n][place[m]] = line[m] /\ trace[n][place[m - 1] + 1] = line[m]
        BY <1>8, <4>1 DEF Doubling
      <4>. QED  BY <1>4, <2>1, <4>4, <4>5
    <3>. QED  BY <3>1, <3>2
  <2>. QED  BY <2>1, <2>2 DEF Doubling
<1> HIDE DEF good
<1>9. Len(line) \in good
  <2>1. \A n \in 0..Len(line) : n \in good
    BY <1>2, <1>7, <1>8, UpTo
  <2>. QED  BY <1>2, <2>1
<1>10. Len(line) \in 0..Len(line)
  BY <1>2
<1>. QED  BY <1>1, <1>3, <1>5, <1>9, <1>10 DEF good

(* What a line becomes: its address, as a whole word, becomes Tony's. *)
NewToken(line, i) ==
  IF /\ line[i] = Address
     /\ i = 1 \/ line[i - 1] = Space
     /\ i = Len(line) \/ line[i + 1] \in {Space, NewLine}
  THEN Tony ELSE line[i]

LEMMA AppendFacts ==
  ASSUME NEW done \in Seq(Item), NEW t \in Item
  PROVE  /\ Append(done, t) \in Seq(Item) /\ Len(done) \in Nat
         /\ Len(Append(done, t)) = Len(done) + 1
         /\ Append(done, t)[Len(done) + 1] = t
         /\ \A k \in 1..Len(done) : Append(done, t)[k] = done[k]
  OBVIOUS

LEMMA PlacesWithin ==
  ASSUME NEW line \in Seq(Item), NEW place, Places(line, place), NEW n \in 0..Len(line)
  PROVE  /\ place[n] \in Nat /\ place[n] <= place[Len(line)]
         /\ \A m \in 1..n : place[m] \in 1..place[n] /\ place[m - 1] + 1 \in 1..place[n]
         /\ n # Len(line) => place[n] + 1 <= place[n + 1]
<1>1. Len(line) \in Nat /\ \A m \in 0..Len(line) : place[m] \in Nat
  BY DEF Places
<1>2. \A k \in 0..Len(line) : \A m \in 0..k : place[m] + (k - m) <= place[k]
  BY PlacesGrow
<1>3. place[n] \in Nat /\ place[n] <= place[Len(line)]
  <2>1. n \in 0..Len(line) /\ Len(line) \in 0..Len(line)
    BY <1>1
  <2>2. place[n] + (Len(line) - n) <= place[Len(line)] /\ place[n] \in Nat
    BY <1>1, <1>2, <2>1
  <2>3. place[Len(line)] \in Nat
    BY <1>1, <2>1
  <2>. QED  BY <1>1, <2>2, <2>3
<1>4. ASSUME NEW m \in 1..n
      PROVE  place[m] \in 1..place[n] /\ place[m - 1] + 1 \in 1..place[n]
  <2>1. m \in 0..n /\ m \in 0..Len(line) /\ m - 1 \in 0..m /\ m - 1 \in 0..Len(line)
    BY <1>1
  <2>2. place[m] + (n - m) <= place[n] /\ place[m - 1] + (m - (m - 1)) <= place[m]
    BY <1>2, <2>1
  <2>3. place[m] \in Nat /\ place[m - 1] \in Nat
    BY <1>1, <2>1
  <2>. QED  BY <1>3, <2>2, <2>3
<1>5. ASSUME n # Len(line)
      PROVE  place[n] + 1 <= place[n + 1]
  <2>1. n + 1 \in 0..Len(line) /\ n \in 0..(n + 1)
    BY <1>1, <1>5
  <2>2. place[n] + ((n + 1) - n) <= place[n + 1] /\ (n + 1) - n = 1
    BY <1>2, <2>1
  <2>. QED  BY <2>2
<1>. QED  BY <1>3, <1>4, <1>5

(* With the spaces doubled, no match has used a space that another needs. *)
LEMMA SubstitutedFacts ==
  ASSUME Proxy!ProxyAssumption, NEW line \in Seq(Item), NEW place, Places(line, place),
         NEW wide \in Seq(Item), Len(wide) = place[Len(line)],
         Doubling(wide, line, place, Len(line))
  PROVE  /\ Proxy!Substituted(wide) \in Seq(Item) /\ Len(Proxy!Substituted(wide)) = Len(wide)
         /\ Doubling(Proxy!Substituted(wide), [i \in 1..Len(line) |-> NewToken(line, i)],
                     place, Len(line))
<1>1. PICK trace : /\ trace \in [0..Len(wide) -> [done : Seq(Item), used : Nat]]
                   /\ trace[0] = [done |-> <<>>, used |-> 0]
                   /\ Proxy!Substituted(wide) = trace[Len(wide)].done
                   /\ \A n \in 1..Len(wide) :
                        trace[n] = IF Found(wide, n, trace[n - 1].used)
                                   THEN [done |-> Append(trace[n - 1].done, Tony), used |-> n + 1]
                                   ELSE [trace[n - 1] EXCEPT !.done = Append(@, wide[n])]
  BY SubstitutedSteps
<1> DEFINE new == [i \in 1..Len(line) |-> NewToken(line, i)]
<1>2. Len(line) \in Nat /\ Len(wide) \in Nat /\ Tony \in Item
  BY DEF Item
<1>3. \A n \in 0..Len(line) : place[n] \in Nat /\ place[n] \in 0..Len(wide)
  <2>1. \A n \in 0..Len(line) : place[n] \in Nat /\ place[n] <= place[Len(line)]
    BY PlacesWithin
  <2>. QED  BY <1>2, <2>1
<1>4. ASSUME NEW k \in 1..Len(wide)
      PROVE  /\ trace[k - 1].done \in Seq(Item) /\ trace[k - 1].used \in Nat
             /\ Found(wide, k, trace[k - 1].used) =>
                  /\ trace[k].done = Append(trace[k - 1].done, Tony)
                  /\ trace[k].used = k + 1
             /\ ~Found(wide, k, trace[k - 1].used) =>
                  /\ trace[k].done = Append(trace[k - 1].done, wide[k])
                  /\ trace[k].used = trace[k - 1].used
  <2>1. k - 1 \in 0..Len(wide)
    BY <1>2
  <2>2. trace[k - 1] \in [done : Seq(Item), used : Nat]
    BY <1>1, <2>1
  <2>3. trace[k - 1].done \in Seq(Item) /\ trace[k - 1].used \in Nat
    BY <2>2
  <2>4. CASE Found(wide, k, trace[k - 1].used)
    <3>1. trace[k] = [done |-> Append(trace[k - 1].done, Tony), used |-> k + 1]
      BY <1>1, <2>4
    <3>. QED  BY <2>3, <2>4, <3>1
  <2>5. CASE ~Found(wide, k, trace[k - 1].used)
    <3>1. trace[k] = [trace[k - 1] EXCEPT !.done = Append(@, wide[k])]
      BY <1>1, <2>5
    <3>. QED  BY <2>2, <2>3, <2>5, <3>1
  <2>. QED  BY <2>4, <2>5
<1> DEFINE Good(n) ==
      LET t == trace[place[n]] IN
      /\ Len(t.done) = place[n]
      /\ Doubling(t.done, new, place, n)
      /\ t.used = 0 \/ \E m \in 1..n : line[m] = Address /\ t.used = place[m] + 1
<1>5. Good(0)
  BY <1>1, <1>2 DEF Places, Doubling
<1>6. ASSUME NEW n \in 1..Len(line), Good(n - 1)
      PROVE  Good(n)
  <2> DEFINE a == place[n - 1]
             b == place[n]
  <2>1. /\ n - 1 \in 0..Len(line) /\ n \in 0..Len(line)
        /\ a \in 0..Len(wide) /\ b \in 0..Len(wide)
        /\ b = a + (IF line[n] = Space THEN 2 ELSE 1)
        /\ wide[b] = line[n] /\ wide[a + 1] = line[n]
        /\ line[n] \in Item /\ new[n] = NewToken(line, n)
    BY <1>2, <1>3 DEF Places, Doubling
  <2>2. /\ trace[a].done \in Seq(Item) /\ Len(trace[a].done) = a
        /\ a + 1 \in 1..Len(wide) /\ b \in 1..Len(wide) /\ (a + 1) - 1 = a
    <3>1. trace[a] \in [done : Seq(Item), used : Nat]
      BY <1>1, <2>1
    <3>2. Len(trace[a].done) = a
      BY <1>6
    <3>3. a + 1 \in 1..Len(wide) /\ b \in 1..Len(wide) /\ (a + 1) - 1 = a
      <4> HIDE DEF a, b
      <4>. QED  BY <1>2, <2>1
    <3>. QED  BY <3>1, <3>2, <3>3
  <2>3. \A m \in 1..(n - 1) : place[m] \in 1..a /\ place[m - 1] + 1 \in 1..a
    BY <2>1, PlacesWithin
  <2>4. ASSUME NEW done \in Seq(Item), Len(done) = b,
               \A k \in 1..a : done[k] = trace[a].done[k],
               done[a + 1] = new[n], done[b] = new[n]
        PROVE  Doubling(done, new, place, n)
    <3>1. ASSUME NEW m \in 1..n
          PROVE  done[place[m]] = new[m] /\ done[place[m - 1] + 1] = new[m]
      <4>1. CASE m = n
        BY <2>4, <4>1
      <4>2. CASE m # n
        <5>1. m \in 1..(n - 1)
          BY <4>2
        <5>2. trace[a].done[place[m]] = new[m] /\ trace[a].done[place[m - 1] + 1] = new[m]
          BY <1>6, <5>1 DEF Doubling
        <5>. QED  BY <2>3, <2>4, <5>1, <5>2
      <4>. QED  BY <4>1, <4>2
    <3>. QED  BY <3>1 DEF Doubling
  <2>5. CASE line[n] = Space
    <3>1. ~(Space = Address) /\ b = a + 2 /\ (a + 2) - 1 = a + 1 /\ new[n] = line[n]
      BY <2>1, <2>5 DEF Proxy!ProxyAssumption, NewToken
    <3>2. /\ trace[a + 1].done = Append(trace[a].done, line[n])
          /\ trace[a + 1].used = trace[a].used
      BY <1>4, <2>1, <2>2, <2>5, <3>1 DEF Found
    <3>3. /\ trace[a + 1].done \in Seq(Item)
          /\ trace[b].done = Append(trace[a + 1].done, line[n])
          /\ trace[b].used = trace[a].used
      BY <1>4, <2>1, <2>2, <2>5, <3>1, <3>2 DEF Found
    <3>4. /\ trace[b].done \in Seq(Item) /\ Len(trace[b].done) = b
          /\ \A k \in 1..a : trace[b].done[k] = trace[a].done[k]
          /\ trace[b].done[a + 1] = line[n] /\ trace[b].done[b] = line[n]
      <4> HIDE DEF a, b
      <4>1. /\ Len(trace[a + 1].done) = a + 1
            /\ \A k \in 1..a : trace[a + 1].done[k] = trace[a].done[k]
            /\ trace[a + 1].done[a + 1] = line[n]
        BY <2>1, <2>2, <3>2, AppendFacts
      <4>2. /\ trace[b].done \in Seq(Item) /\ Len(trace[b].done) = b
            /\ \A k \in 1..(a + 1) : trace[b].done[k] = trace[a + 1].done[k]
            /\ trace[b].done[b] = line[n]
        <5>1. b = Len(trace[a + 1].done) + 1
          BY <2>1, <3>1, <4>1
        <5>. QED  BY <2>1, <3>3, <4>1, <5>1, AppendFacts
      <4>3. \A k \in 1..a : k \in 1..(a + 1)
        BY <2>1
      <4>4. a + 1 \in 1..(a + 1)
        BY <2>1
      <4>. QED  BY <4>1, <4>2, <4>3, <4>4
    <3>5. Doubling(trace[b].done, new, place, n)
      BY <2>4, <3>1, <3>4
    <3>6. trace[b].used = 0 \/ \E m \in 1..n : line[m] = Address /\ trace[b].used = place[m] + 1
      BY <1>6, <3>3
    <3>. QED  BY <3>4, <3>5, <3>6
  <2>6. CASE line[n] # Space
    <3>1. b = a + 1 /\ wide[b] = line[n]
      BY <2>1, <2>6
    <3>2. line[n] = Address => (b = 1 <=> n = 1)
      <4>1. n = 1 => a = 0
        BY DEF Places
      <4>2. a = 0 => n = 1
        <5>1. n # 1 => 1 \in 1..(n - 1)
          OBVIOUS
        <5>2. n # 1 => place[1] \in 1..a
          BY <2>3, <5>1
        <5>. QED  BY <2>1, <5>2
      <4>. QED  BY <2>1, <3>1, <4>1, <4>2
    <3>3. n # 1 => wide[a] = line[n - 1]
      <4>1. n # 1 => n - 1 \in 1..Len(line)
        BY <1>2
      <4>. QED  BY <4>1 DEF Doubling
    <3>4. n # 1 /\ line[n - 1] = Space => trace[a].used < a
      <4> SUFFICES ASSUME n # 1, line[n - 1] = Space, trace[a].used # 0
                   PROVE  trace[a].used < a
        <5>1. n # 1 => a # 0
          BY <2>3, <1>2
        <5>. QED  BY <2>1, <5>1
      <4>1. PICK m \in 1..(n - 1) : line[m] = Address /\ trace[a].used = place[m] + 1
        BY <1>6
      <4>2. m # n - 1
        BY <4>1 DEF Proxy!ProxyAssumption
      <4>3. m \in 1..(n - 2) /\ n - 1 \in 1..Len(line) /\ n - 2 \in 0..Len(line) /\ (n - 1) - 1 = n - 2
        BY <1>2, <4>2
      <4>4. place[m] \in 1..place[n - 2] /\ place[n - 2] \in Nat
        BY <4>3, PlacesWithin
      <4>5. a = place[n - 2] + 2
        BY <4>3 DEF Places
      <4> HIDE DEF a
      <4>. QED  BY <4>1, <4>4, <4>5
    <3>5. n = Len(line) => b = Len(wide)
      OBVIOUS
    <3>6. n # Len(line) => b # Len(wide) /\ wide[b + 1] = line[n + 1]
      <4> SUFFICES ASSUME n # Len(line)
                   PROVE  b # Len(wide) /\ wide[b + 1] = line[n + 1]
        OBVIOUS
      <4>1. n + 1 \in 1..Len(line) /\ (n + 1) - 1 = n /\ n + 1 \in 0..Len(line)
        BY <1>2
      <4>2. wide[b + 1] = line[n + 1]
        BY <4>1 DEF Doubling
      <4>3. b + 1 <= place[n + 1]
        BY <2>1, PlacesWithin
      <4>4. place[n + 1] \in 0..Len(wide)
        BY <1>3, <4>1
      <4> HIDE DEF b
      <4>. QED  BY <1>2, <2>1, <4>2, <4>3, <4>4
    <3>7. /\ Found(wide, b, trace[a].used) => new[n] = Tony
          /\ ~Found(wide, b, trace[a].used) => new[n] = line[n]
      <4>1. b - 1 = a
        BY <2>1, <3>1
      <4> HIDE DEF a, b, new
      <4>2. Found(wide, b, trace[a].used) <=>
              /\ line[n] = Address
              /\ n = 1 \/ (wide[a] = Space /\ trace[a].used < a)
              /\ b = Len(wide) \/ wide[b + 1] \in {Space, NewLine}
        BY <3>1, <3>2, <4>1 DEF Found
      <4>3. Found(wide, b, trace[a].used) <=>
              /\ line[n] = Address
              /\ n = 1 \/ line[n - 1] = Space
              /\ n = Len(line) \/ line[n + 1] \in {Space, NewLine}
        BY <4>2, <3>3, <3>4, <3>5, <3>6
      <4>. QED  BY <2>1, <4>3 DEF NewToken
    <3>8. new[n] \in Item /\ trace[b].done = Append(trace[a].done, new[n])
      <4>1. b - 1 = a
        BY <2>1, <3>1
      <4> HIDE DEF a, b, new
      <4>2. /\ Found(wide, b, trace[a].used) => trace[b].done = Append(trace[a].done, Tony)
            /\ ~Found(wide, b, trace[a].used) => trace[b].done = Append(trace[a].done, wide[b])
        BY <1>4, <2>2, <4>1
      <4>. QED  BY <1>2, <2>1, <3>1, <3>7, <4>2
    <3>9. /\ trace[b].done \in Seq(Item) /\ Len(trace[b].done) = b
          /\ \A k \in 1..a : trace[b].done[k] = trace[a].done[k]
          /\ trace[b].done[a + 1] = new[n] /\ trace[b].done[b] = new[n]
      <4> HIDE DEF a, b, new
      <4>. QED  BY <2>2, <3>1, <3>8, AppendFacts
    <3>10. Doubling(trace[b].done, new, place, n)
      <4> HIDE DEF a, b, new
      <4>. QED  BY <2>4, <3>9
    <3>11. trace[b].used = 0 \/ \E m \in 1..n : line[m] = Address /\ trace[b].used = place[m] + 1
      <4>1. b - 1 = a
        BY <2>1, <3>1
      <4>2. CASE Found(wide, b, trace[a].used)
        <5>1. trace[b].used = b + 1 /\ line[n] = Address
          <6> HIDE DEF a, b, new
          <6>. QED  BY <1>4, <2>2, <3>1, <4>1, <4>2 DEF Found
        <5>. QED  BY <5>1
      <4>3. CASE ~Found(wide, b, trace[a].used)
        <5>1. trace[b].used = trace[a].used
          <6> HIDE DEF a, b, new
          <6>. QED  BY <1>4, <2>2, <4>1, <4>3
        <5>. QED  BY <1>6, <5>1
      <4>. QED  BY <4>2, <4>3
    <3>. QED  BY <3>9, <3>10, <3>11
  <2>. QED  BY <2>5, <2>6
<1> HIDE DEF Good
<1>7. Good(Len(line))
  <2> DEFINE good == {n \in 0..Len(line) : Good(n)}
  <2>1. 0 \in good
    BY <1>2, <1>5
  <2>2. ASSUME NEW n \in 0..(Len(line) - 1), n \in good
        PROVE  n + 1 \in good
    <3>1. n + 1 \in 1..Len(line) /\ (n + 1) - 1 = n /\ n + 1 \in 0..Len(line)
      BY <1>2
    <3>. QED  BY <1>6, <2>2, <3>1
  <2>3. \A n \in 0..Len(line) : n \in good
    <3> HIDE DEF good
    <3>. QED  BY <1>2, <2>1, <2>2, UpTo
  <2>. QED  BY <1>2, <2>3
<1>8. trace[Len(wide)].done \in Seq(Item)
  BY <1>1, <1>2
<1>. QED  BY <1>1, <1>7, <1>8 DEF Good

LEMMA HalvedFacts ==
  ASSUME NEW line \in Seq(Item), NEW place, Places(line, place),
         NEW wide \in Seq(Item), Len(wide) = place[Len(line)],
         Doubling(wide, line, place, Len(line))
  PROVE  Proxy!Halved(wide) = line
<1>1. PICK trace : /\ trace \in [0..Len(wide) -> [done : Seq(Item), odd : BOOLEAN]]
                   /\ trace[0] = [done |-> <<>>, odd |-> FALSE]
                   /\ Proxy!Halved(wide) = trace[Len(wide)].done
                   /\ \A n \in 1..Len(wide) :
                        trace[n] = IF wide[n] = Space /\ trace[n - 1].odd
                                   THEN [trace[n - 1] EXCEPT !.odd = FALSE]
                                   ELSE [done |-> Append(trace[n - 1].done, wide[n]),
                                         odd |-> wide[n] = Space]
  BY HalvedSteps
<1>2. Len(line) \in Nat /\ Len(wide) \in Nat
  OBVIOUS
<1>3. \A n \in 0..Len(line) : place[n] \in Nat /\ place[n] \in 0..Len(wide)
  <2>1. \A n \in 0..Len(line) : place[n] \in Nat /\ place[n] <= place[Len(line)]
    BY PlacesWithin
  <2>. QED  BY <1>2, <2>1
<1> DEFINE Good(n) ==
      LET t == trace[place[n]] IN
      /\ Len(t.done) = n /\ ~t.odd
      /\ \A i \in 1..n : t.done[i] = line[i]
<1>4. Good(0)
  BY <1>1, <1>2 DEF Places
<1>5. ASSUME NEW n \in 1..Len(line), Good(n - 1)
      PROVE  Good(n)
  <2> DEFINE a == place[n - 1]
             b == place[n]
  <2>1. /\ n - 1 \in 0..Len(line) /\ n \in 0..Len(line)
        /\ a \in 0..Len(wide) /\ b \in 0..Len(wide)
        /\ b = a + (IF line[n] = Space THEN 2 ELSE 1)
        /\ wide[b] = line[n] /\ wide[a + 1] = line[n]
        /\ line[n] \in Item
    BY <1>2, <1>3 DEF Places, Doubling
  <2>2. /\ trace[a].done \in Seq(Item) /\ Len(trace[a].done) = n - 1 /\ ~trace[a].odd
        /\ \A i \in 1..(n - 1) : trace[a].done[i] = line[i]
        /\ a + 1 \in 1..Len(wide) /\ b \in 1..Len(wide) /\ (a + 1) - 1 = a
    <3>1. trace[a] \in [done : Seq(Item), odd : BOOLEAN]
      BY <1>1, <2>1
    <3>2. /\ Len(trace[a].done) = n - 1 /\ ~trace[a].odd
          /\ \A i \in 1..(n - 1) : trace[a].done[i] = line[i]
      BY <1>5
    <3>3. a + 1 \in 1..Len(wide) /\ b \in 1..Len(wide) /\ (a + 1) - 1 = a
      <4> HIDE DEF a, b
      <4>. QED  BY <1>2, <2>1
    <3>. QED  BY <3>1, <3>2, <3>3
  <2> HIDE DEF a, b
  <2>3. /\ trace[a + 1].done = Append(trace[a].done, line[n])
        /\ trace[a + 1].odd = (line[n] = Space)
    <3>1. trace[a + 1] = [done |-> Append(trace[a].done, wide[a + 1]), odd |-> wide[a + 1] = Space]
      BY <1>1, <2>2
    <3>. QED  BY <2>1, <3>1
  <2>4. /\ Len(trace[a + 1].done) = n
        /\ \A i \in 1..n : trace[a + 1].done[i] = line[i]
    BY <2>1, <2>2, <2>3, AppendFacts
  <2>5. CASE line[n] = Space
    <3>1. b = a + 2 /\ (a + 2) - 1 = a + 1 /\ a + 1 \in 0..Len(wide)
      BY <2>1, <2>2, <2>5
    <3>2. trace[b] = [trace[a + 1] EXCEPT !.odd = FALSE]
      <4>1. wide[b] = Space /\ b - 1 = a + 1 /\ trace[a + 1].odd
        BY <2>1, <2>3, <2>5, <3>1
      <4>2. wide[b] = Space /\ trace[b - 1].odd => trace[b] = [trace[b - 1] EXCEPT !.odd = FALSE]
        BY <1>1, <2>2
      <4>. QED  BY <4>1, <4>2
    <3>3. trace[a + 1] \in [done : Seq(Item), odd : BOOLEAN]
      BY <1>1, <3>1
    <3>4. trace[b].done = trace[a + 1].done /\ trace[b].odd = FALSE
      BY <3>2, <3>3
    <3>. QED  BY <2>4, <3>4 DEF b
  <2>6. CASE line[n] # Space
    <3>1. b = a + 1
      BY <2>1, <2>6
    <3>. QED  BY <2>3, <2>4, <2>6, <3>1 DEF b
  <2>. QED  BY <2>5, <2>6
<1> HIDE DEF Good
<1>6. Good(Len(line))
  <2> DEFINE good == {n \in 0..Len(line) : Good(n)}
  <2>1. 0 \in good
    BY <1>2, <1>4
  <2>2. ASSUME NEW n \in 0..(Len(line) - 1), n \in good
        PROVE  n + 1 \in good
    <3>1. n + 1 \in 1..Len(line) /\ (n + 1) - 1 = n /\ n + 1 \in 0..Len(line)
      BY <1>2
    <3>. QED  BY <1>5, <2>2, <3>1
  <2>3. \A n \in 0..Len(line) : n \in good
    <3> HIDE DEF good
    <3>. QED  BY <1>2, <2>1, <2>2, UpTo
  <2>. QED  BY <1>2, <2>3
<1>7. trace[Len(wide)].done \in Seq(Item)
  BY <1>1, <1>2
<1>8. Len(Proxy!Halved(wide)) = Len(line) /\ \A i \in 1..Len(line) : Proxy!Halved(wide)[i] = line[i]
  BY <1>1, <1>6 DEF Good
<1>9. Proxy!Halved(wide) \in Seq(Item)
  BY <1>1, <1>7
<1>. QED  BY <1>8, <1>9, SeqEqual

(* Every pass in its place: a line is rewritten word by word. *)
LEMMA Replaced ==
  ASSUME Proxy!ProxyAssumption, NEW line \in Seq(Item)
  PROVE  Proxy!replace_address(line) = [i \in 1..Len(line) |-> NewToken(line, i)]
<1> DEFINE new == [i \in 1..Len(line) |-> NewToken(line, i)]
<1>1. PICK place : /\ Places(line, place)
                   /\ Proxy!Doubled(line) \in Seq(Item) /\ Len(Proxy!Doubled(line)) = place[Len(line)]
                   /\ Doubling(Proxy!Doubled(line), line, place, Len(line))
  BY DoubledFacts
<1>2. /\ Proxy!Substituted(Proxy!Doubled(line)) \in Seq(Item)
      /\ Len(Proxy!Substituted(Proxy!Doubled(line))) = place[Len(line)]
      /\ Doubling(Proxy!Substituted(Proxy!Doubled(line)), new, place, Len(line))
  BY <1>1, SubstitutedFacts
<1>3. ASSUME NEW i \in 1..Len(line)
      PROVE  new[i] \in Item /\ (new[i] = Space <=> line[i] = Space)
  <2>1. line[i] \in Item /\ Tony \in Item /\ Tony # Space /\ Address # Space
    BY DEF Proxy!ProxyAssumption, Item
  <2>. QED  BY <2>1 DEF NewToken
<1>4. new \in Seq(Item) /\ Len(new) = Len(line)
  <2> HIDE DEF NewToken
  <2>. QED  BY <1>3
<1>5. Places(new, place)
  <2> HIDE DEF new
  <2>. QED  BY <1>1, <1>3, <1>4 DEF Places
<1>6. Proxy!Halved(Proxy!Substituted(Proxy!Doubled(line))) = new
  <2> HIDE DEF new
  <2>. QED  BY <1>2, <1>4, <1>5, HalvedFacts
<1>. QED  BY <1>6 DEF Proxy!replace_address

-----------------------------------------------------------------------------
(* The task.                                                               *)

TypeInv == Proxy!TypeOK /\ \A s \in Proxy!Side : Len(sent[s]) <= MaxTokens

(* What side s has sent is, in order: what was written to the   *)
(* other side, the line that is being written to it, the part of a line    *)
(* read so far, and what has not been read; as long as s has not ended.    *)
Pending(s) == IF relay = "writing" /\ target = Proxy!Other(s) THEN writing ELSE <<>>
Got(s) == Len(written[Proxy!Other(s)])
Passed(s) == Got(s) + Len(Pending(s))

(* What was written are whole lines, rewritten.                            *)
Relayed(s) ==
  /\ Got(s) <= Len(sent[s])
  /\ Got(s) # 0 => sent[s][Got(s)] = NewLine
  /\ \A i \in 1..Got(s) : written[Proxy!Other(s)][i] = Proxy!Rewritten(s, i)

InStep(s) ==
  /\ taken[s] = Passed(s) + Len(prev_part[s])
  /\ Passed(s) # 0 => sent[s][Passed(s)] = NewLine
  /\ \A i \in 1..Len(Pending(s)) : Pending(s)[i] = Proxy!Rewritten(s, Got(s) + i)
  /\ \A i \in 1..Len(prev_part[s]) : prev_part[s][i] = sent[s][Passed(s) + i]
  /\ \A i \in 1..(Len(prev_part[s]) - 1) : prev_part[s][i] # NewLine
  /\ s = "client" => (name_established <=> Passed(s) # 0)

(* A side that has ended is read no further: it was closed, or there is a  *)
(* wide character that comes before any line that was not written.         *)
Over(s) ==
  /\ \A i \in 1..Len(sent[s]) :
       sent[s][i] = NewLine /\ (\A j \in 1..i : sent[s][j] # Wide) => i <= Got(s)
  /\ s \in closed \/ \E i \in 1..Len(sent[s]) : sent[s][i] = Wide

SideInv(s) ==
  /\ Relayed(s)
  /\ s \notin ended /\ relay # "ended" => InStep(s)
  /\ s \in ended => Over(s)

RelayInv ==
  /\ TypeInv
  /\ \A s \in Proxy!Side : SideInv(s)
  /\ relay = "ended" /\ ~broken => ended = Proxy!Side

LEMMA SideFacts ==
  /\ Proxy!Other("client") = "server" /\ Proxy!Other("server") = "client"
  /\ \A s \in Proxy!Side : Proxy!Other(s) \in Proxy!Side /\ Proxy!Other(s) # s /\ Proxy!Other(Proxy!Other(s)) = s
  /\ \A s, t \in Proxy!Side : t # s => t = Proxy!Other(s)
<1>1. "client" # "server"
  OBVIOUS
<1>2. \A s \in Proxy!Side : Proxy!Other(s) \in Proxy!Side /\ Proxy!Other(s) # s
  <2>1. ASSUME NEW s \in Proxy!Side
        PROVE  \E t \in Proxy!Side : t # s
    BY <1>1 DEF Proxy!Side
  <2>. QED  BY <2>1 DEF Proxy!Other
<1>. QED  BY <1>1, <1>2 DEF Proxy!Side

LEMMA Replacement ==
  ASSUME Proxy!ProxyAssumption, NEW line \in Seq(Proxy!Token \ {Wide})
  PROVE  /\ Proxy!replace_address(line) \in Seq(Item \ {Wide})
         /\ Len(Proxy!replace_address(line)) = Len(line)
         /\ \A i \in 1..Len(line) : Proxy!replace_address(line)[i] = NewToken(line, i)
<1>1. line \in Seq(Item)
  <2>1. Proxy!Token \ {Wide} \subseteq Item
    BY DEF Item
  <2>. QED  BY <2>1, SeqMonotonic
<1>2. \A i \in 1..Len(line) : NewToken(line, i) \in Item \ {Wide}
  <2>1. Tony \in Item /\ Tony # Wide /\ Len(line) \in Nat
    BY DEF Item, Proxy!ProxyAssumption
  <2>2. \A i \in 1..Len(line) : line[i] \in Item /\ line[i] # Wide
    BY DEF Item
  <2>. QED  BY <2>1, <2>2 DEF NewToken
<1>3. Proxy!replace_address(line) = [i \in 1..Len(line) |-> NewToken(line, i)]
  BY <1>1, Replaced
<1> HIDE DEF NewToken
<1>. QED  BY <1>2, <1>3

LEMMA TypeInit ==
  ASSUME Proxy!ProxyAssumption
  PROVE  Proxy!Init => TypeInv
<1> SUFFICES ASSUME Proxy!Init PROVE TypeInv
  OBVIOUS
<1>1. MaxTokens \in Nat /\ \A s \in Proxy!Side : sent[s] = <<>> /\ taken[s] = 0
  BY DEF Proxy!ProxyAssumption, Proxy!Init
<1>2. \A s \in Proxy!Side : Len(sent[s]) = 0
  BY <1>1
<1>3. sent \in [Proxy!Side -> Seq(Proxy!Token)] /\ taken \in [Proxy!Side -> 0..MaxTokens]
  BY <1>1 DEF Proxy!Init
<1>4. /\ prev_part \in [Proxy!Side -> Seq(Proxy!Token \ {Wide})] /\ writing \in Seq((Proxy!Token \union {Tony}) \ {Wide})
      /\ written \in [Proxy!Side -> Seq((Proxy!Token \union {Tony}) \ {Wide})]
  BY DEF Proxy!Init
<1>5. /\ target \in Proxy!Side /\ name_established \in BOOLEAN /\ broken \in BOOLEAN
      /\ ended \subseteq Proxy!Side /\ closed \subseteq Proxy!Side /\ relay \in {"selecting", "writing", "ended"}
  BY DEF Proxy!Init, Proxy!Side
<1>. QED  BY <1>1, <1>2, <1>3, <1>4, <1>5 DEF TypeInv, Proxy!TypeOK

LEMMA TypeStep ==
  ASSUME Proxy!ProxyAssumption, TypeInv, [Proxy!Next]_(Proxy!proxyVars)
  PROVE  TypeInv'
<1> USE DEF TypeInv, Proxy!TypeOK
<1>1. MaxTokens \in Nat /\ Texts \subseteq Seq(Proxy!Token)
  BY DEF Proxy!ProxyAssumption
<1>2. CASE UNCHANGED Proxy!proxyVars
  BY <1>2 DEF Proxy!proxyVars, Proxy!peerVars, Proxy!lineVars, Proxy!writeVars, Proxy!endVars
<1>3. ASSUME NEW s \in Proxy!Side, Proxy!ReadToken(s)
      PROVE  TypeInv'
  <2>1. /\ relay' = relay /\ sent' = sent /\ closed' = closed /\ written' = written
        /\ writing' = writing /\ target' = target /\ name_established' = name_established
        /\ ended' = ended /\ broken' = broken
        /\ taken[s] < Len(sent[s]) /\ sent[s][taken[s] + 1] # Wide
        /\ taken' = [taken EXCEPT ![s] = @ + 1]
        /\ prev_part' = [prev_part EXCEPT ![s] = Append(@, sent[s][taken[s] + 1])]
    BY <1>3 DEF Proxy!ReadToken, Proxy!peerVars, Proxy!writeVars, Proxy!endVars
  <2>2. /\ Len(sent[s]) \in Nat /\ Len(sent[s]) <= MaxTokens /\ taken[s] \in Nat
        /\ sent[s] \in Seq(Proxy!Token) /\ prev_part[s] \in Seq(Proxy!Token \ {Wide})
    OBVIOUS
  <2>3. taken[s] + 1 \in 1..Len(sent[s]) /\ taken[s] + 1 \in 0..MaxTokens
    BY <1>1, <2>1, <2>2
  <2>4. sent[s][taken[s] + 1] \in Proxy!Token \ {Wide}
    BY <2>1, <2>2, <2>3
  <2>5. Append(prev_part[s], sent[s][taken[s] + 1]) \in Seq(Proxy!Token \ {Wide})
    BY <2>2, <2>4
  <2>6. taken' \in [Proxy!Side -> 0..MaxTokens] /\ \A r \in Proxy!Side : taken'[r] <= Len(sent'[r])
    BY <2>1, <2>2, <2>3
  <2>7. prev_part' \in [Proxy!Side -> Seq(Proxy!Token \ {Wide})]
    BY <2>1, <2>5
  <2>. QED  BY <2>1, <2>6, <2>7
<1>4. ASSUME NEW s \in Proxy!Side, Proxy!EndSide(s)
      PROVE  TypeInv'
  <2>1. /\ sent' = sent /\ closed' = closed /\ written' = written /\ prev_part' = prev_part
        /\ writing' = writing /\ target' = target /\ name_established' = name_established
        /\ broken' = broken /\ ended' = ended \union {s}
        /\ relay' \in {"selecting", "writing", "ended"}
    BY <1>4 DEF Proxy!EndSide, Proxy!peerVars, Proxy!writeVars
  <2>2. taken' \in [Proxy!Side -> 0..MaxTokens] /\ \A r \in Proxy!Side : taken'[r] <= Len(sent[r])
    <3>1. CASE taken' = taken
      BY <3>1
    <3>2. CASE taken' = [taken EXCEPT ![s] = @ + 1] /\ taken[s] < Len(sent[s])
      <4>1. /\ Len(sent[s]) \in Nat /\ Len(sent[s]) <= MaxTokens /\ taken[s] \in Nat
        OBVIOUS
      <4>2. taken[s] + 1 \in 0..MaxTokens /\ taken[s] + 1 <= Len(sent[s])
        BY <1>1, <3>2, <4>1
      <4>. QED  BY <3>2, <4>2
    <3>. QED  BY <1>4, <3>1, <3>2 DEF Proxy!EndSide
  <2>. QED  BY <2>1, <2>2
<1>5. ASSUME NEW s \in Proxy!Side, Proxy!TakeLine(s)
      PROVE  TypeInv'
  <2>1. /\ sent' = sent /\ closed' = closed /\ written' = written /\ taken' = taken
        /\ ended' = ended /\ broken' = broken /\ relay' = "writing" /\ target' = Proxy!Other(s)
        /\ prev_part' = [prev_part EXCEPT ![s] = <<>>]
        /\ name_established' = (name_established \/ s = "client")
        /\ writing' = IF s = "server" \/ name_established
                      THEN Proxy!replace_address(prev_part[s]) ELSE prev_part[s]
    BY <1>5 DEF Proxy!TakeLine, Proxy!peerVars, Proxy!endVars
  <2>2. prev_part[s] \in Seq(Proxy!Token \ {Wide}) /\ <<>> \in Seq(Proxy!Token \ {Wide})
    OBVIOUS
  <2>3. Proxy!replace_address(prev_part[s]) \in Seq((Proxy!Token \union {Tony}) \ {Wide})
    BY <2>2, Replacement DEF Item
  <2>4. prev_part[s] \in Seq((Proxy!Token \union {Tony}) \ {Wide})
    <3>1. Proxy!Token \ {Wide} \subseteq (Proxy!Token \union {Tony}) \ {Wide}
      OBVIOUS
    <3>. QED  BY <2>2, <3>1, SeqMonotonic
  <2>5. prev_part' \in [Proxy!Side -> Seq(Proxy!Token \ {Wide})]
    BY <2>1, <2>2
  <2>6. name_established' \in BOOLEAN /\ target' \in Proxy!Side
    BY <2>1, SideFacts
  <2>. QED  BY <2>1, <2>3, <2>4, <2>5, <2>6
<1>6. ASSUME Proxy!WriteLine
      PROVE  TypeInv'
  <2>1. /\ sent' = sent /\ closed' = closed /\ taken' = taken /\ prev_part' = prev_part
        /\ ended' = ended /\ broken' = broken /\ relay' = "selecting" /\ target' = target
        /\ name_established' = name_established /\ writing' = <<>>
        /\ written' = [written EXCEPT ![target] = @ \o writing]
    BY <1>6 DEF Proxy!WriteLine, Proxy!peerVars, Proxy!lineVars, Proxy!endVars
  <2>2. written[target] \o writing \in Seq((Proxy!Token \union {Tony}) \ {Wide})
    OBVIOUS
  <2>3. written' \in [Proxy!Side -> Seq((Proxy!Token \union {Tony}) \ {Wide})]
    BY <2>1, <2>2
  <2>. QED  BY <2>1, <2>3
<1>7. ASSUME Proxy!FailToWrite
      PROVE  TypeInv'
  BY <1>7 DEF Proxy!FailToWrite, Proxy!peerVars, Proxy!lineVars, Proxy!writeVars
<1>8. ASSUME NEW s \in Proxy!Side, NEW text \in Texts, Proxy!Send(s, text)
      PROVE  TypeInv'
  <2>1. /\ closed' = closed /\ taken' = taken /\ prev_part' = prev_part /\ written' = written
        /\ writing' = writing /\ ended' = ended /\ broken' = broken /\ relay' = relay
        /\ target' = target /\ name_established' = name_established
        /\ sent' = [sent EXCEPT ![s] = @ \o text]
        /\ Len(sent[s]) + Len(text) <= MaxTokens
    BY <1>8 DEF Proxy!Send, Proxy!lineVars, Proxy!writeVars, Proxy!endVars
  <2>2. text \in Seq(Proxy!Token) /\ sent[s] \in Seq(Proxy!Token)
    BY <1>1
  <2>3. /\ sent[s] \o text \in Seq(Proxy!Token) /\ Len(sent[s] \o text) <= MaxTokens
        /\ Len(sent[s]) <= Len(sent[s] \o text) /\ Len(sent[s] \o text) \in Nat
        /\ Len(sent[s]) \in Nat /\ taken[s] \in Nat
    BY <2>1, <2>2
  <2>4. sent' \in [Proxy!Side -> Seq(Proxy!Token)]
    BY <2>1, <2>3
  <2>5. \A r \in Proxy!Side : Len(sent'[r]) <= MaxTokens /\ taken'[r] <= Len(sent'[r])
    <3>1. taken[s] <= Len(sent[s]) /\ sent'[s] = sent[s] \o text
      BY <2>1
    <3>2. taken[s] <= Len(sent'[s]) /\ Len(sent'[s]) <= MaxTokens
      BY <2>3, <3>1
    <3>. QED  BY <2>1, <3>2
  <2>. QED  BY <2>1, <2>4, <2>5
<1>9. ASSUME NEW s \in Proxy!Side, Proxy!Close(s)
      PROVE  TypeInv'
  BY <1>9 DEF Proxy!Close, Proxy!lineVars, Proxy!writeVars, Proxy!endVars
<1> HIDE DEF TypeInv
<1>10. CASE Proxy!Next
  BY <1>10, <1>3, <1>4, <1>5, <1>6, <1>7, <1>8, <1>9 DEF Proxy!Next
<1>. QED  BY <1>2, <1>10

(* The proxy keeps to its types, whatever the peers send. *)
THEOREM ProxyTyped ==
  ASSUME Proxy!ProxyAssumption
  PROVE  Proxy!Spec => []Proxy!TypeOK
<1>1. Proxy!Spec => []TypeInv
  BY TypeInit, TypeStep, PTL DEF Proxy!Spec
<1>2. TypeInv => Proxy!TypeOK
  BY DEF TypeInv
<1>. QED  BY <1>1, <1>2, PTL

LEMMA SideTypes ==
  ASSUME TypeInv, NEW s \in Proxy!Side
  PROVE  /\ sent[s] \in Seq(Proxy!Token) /\ Len(sent[s]) \in Nat
         /\ taken[s] \in Nat /\ taken[s] <= Len(sent[s])
         /\ prev_part[s] \in Seq(Proxy!Token \ {Wide}) /\ Len(prev_part[s]) \in Nat
         /\ Proxy!Other(s) \in Proxy!Side
         /\ written[Proxy!Other(s)] \in Seq(Item \ {Wide}) /\ Got(s) \in Nat
         /\ writing \in Seq(Item \ {Wide}) /\ Len(writing) \in Nat
         /\ Pending(s) \in Seq(Item \ {Wide}) /\ Len(Pending(s)) \in Nat
         /\ Passed(s) \in Nat /\ Got(s) <= Passed(s)
<1>1. Proxy!Other(s) \in Proxy!Side
  BY SideFacts
<1>2. /\ sent[s] \in Seq(Proxy!Token) /\ taken[s] \in Nat /\ taken[s] <= Len(sent[s])
      /\ prev_part[s] \in Seq(Proxy!Token \ {Wide})
      /\ written[Proxy!Other(s)] \in Seq(Item \ {Wide}) /\ writing \in Seq(Item \ {Wide})
  BY <1>1 DEF TypeInv, Proxy!TypeOK, Item
<1>3. Pending(s) \in Seq(Item \ {Wide})
  BY <1>2 DEF Pending
<1>4. Len(Pending(s)) \in Nat /\ Got(s) \in Nat
  BY <1>2, <1>3 DEF Got
<1>5. Passed(s) \in Nat /\ Got(s) <= Passed(s)
  BY <1>4 DEF Passed
<1>. QED  BY <1>1, <1>2, <1>3, <1>4, <1>5

(* What a step leaves alone of side s. *)
Untouched(s) ==
  /\ sent'[s] = sent[s] /\ taken'[s] = taken[s] /\ prev_part'[s] = prev_part[s]
  /\ written'[Proxy!Other(s)] = written[Proxy!Other(s)] /\ Pending(s)' = Pending(s)
  /\ s \in ended' <=> s \in ended
  /\ s \in closed => s \in closed'
  /\ s = "client" => name_established' = name_established
  /\ relay = "ended" => relay' = "ended"

LEMMA UntouchedKeeps ==
  ASSUME NEW s \in Proxy!Side, SideInv(s), Untouched(s)
  PROVE  SideInv(s)'
<1> USE DEF Untouched
<1>1. Got(s)' = Got(s) /\ Passed(s)' = Passed(s)
  BY DEF Got, Passed
<1>2. \A i : Proxy!Rewritten(s, i)' = Proxy!Rewritten(s, i)
  BY DEF Proxy!Rewritten, Proxy!WholeWord, Proxy!InName
<1>3. Relayed(s)'
  BY <1>1, <1>2 DEF SideInv, Relayed
<1>4. ASSUME s \notin ended', relay' # "ended"
      PROVE  InStep(s)'
  <2>1. InStep(s)
    BY <1>4 DEF SideInv
  <2> HIDE DEF Passed, Got, Pending, Proxy!Rewritten
  <2>. QED  BY <1>1, <1>2, <2>1 DEF InStep
<1>5. ASSUME s \in ended'
      PROVE  Over(s)'
  <2>1. Over(s)
    BY <1>5 DEF SideInv
  <2>. QED  BY <1>1, <2>1 DEF Over
<1>. QED  BY <1>3, <1>4, <1>5 DEF SideInv

LEMMA SideInit == Proxy!Init /\ TypeInv => \A s \in Proxy!Side : SideInv(s)
<1> SUFFICES ASSUME Proxy!Init, TypeInv, NEW s \in Proxy!Side
             PROVE  SideInv(s)
  OBVIOUS
<1>1. /\ sent[s] = <<>> /\ taken[s] = 0 /\ prev_part[s] = <<>> /\ written[Proxy!Other(s)] = <<>>
      /\ relay = "selecting" /\ ended = {} /\ name_established = FALSE
  BY SideFacts DEF Proxy!Init
<1>2. Pending(s) = <<>>
  BY <1>1 DEF Pending
<1>3. Got(s) = 0 /\ Passed(s) = 0 /\ Len(Pending(s)) = 0 /\ Len(prev_part[s]) = 0 /\ Len(sent[s]) = 0
  BY <1>1, <1>2 DEF Got, Passed
<1>4. Relayed(s)
  BY <1>3 DEF Relayed
<1>5. InStep(s)
  BY <1>1, <1>3 DEF InStep
<1>. QED  BY <1>1, <1>4, <1>5 DEF SideInv

-----------------------------------------------------------------------------
(* More text leaves what the lines that were sent are rewritten to.        *)
LEMMA RewrittenStill ==
  ASSUME Proxy!ProxyAssumption, NEW s \in Proxy!Side, NEW m \in Nat,
         sent[s] \in Seq(Proxy!Token), sent'[s] \in Seq(Proxy!Token), Len(sent[s]) <= Len(sent'[s]),
         \A i \in 1..Len(sent[s]) : sent'[s][i] = sent[s][i],
         m <= Len(sent[s]), sent[s][m] = NewLine,
         NEW i \in 1..m
  PROVE  Proxy!Rewritten(s, i)' = Proxy!Rewritten(s, i)
<1>1. Len(sent[s]) \in Nat /\ Len(sent'[s]) \in Nat /\ NewLine # Address
  BY DEF Proxy!ProxyAssumption
<1>2. i \in 1..Len(sent[s]) /\ sent'[s][i] = sent[s][i]
  BY <1>1
<1>3. Proxy!InName(s, i)' <=> Proxy!InName(s, i)
  <2>1. \A j \in 1..(i - 1) : sent'[s][j] = sent[s][j]
    BY <1>1, <1>2
  <2>. QED  BY <2>1 DEF Proxy!InName
<1>4. CASE i = m
  <2>1. sent[s][i] # Address
    BY <1>1, <1>4
  <2>. QED  BY <1>2, <2>1 DEF Proxy!Rewritten
<1>5. CASE i # m
  <2>1. i < Len(sent[s]) /\ i < Len(sent'[s]) /\ i + 1 \in 1..Len(sent[s])
        /\ (i # 1 => i - 1 \in 1..Len(sent[s]))
    BY <1>1, <1>2, <1>5
  <2>2. Proxy!WholeWord(s, i)' <=> Proxy!WholeWord(s, i)
    BY <2>1 DEF Proxy!WholeWord
  <2>. QED  BY <1>2, <1>3, <2>2 DEF Proxy!Rewritten
<1>. QED  BY <1>4, <1>5

LEMMA PeerSendStep ==
  ASSUME Proxy!ProxyAssumption, TypeInv, TypeInv', NEW s \in Proxy!Side, NEW text \in Texts,
         Proxy!Send(s, text), SideInv(s)
  PROVE  SideInv(s)'
<1>1. /\ closed' = closed /\ taken' = taken /\ prev_part' = prev_part /\ written' = written
      /\ writing' = writing /\ ended' = ended /\ relay' = relay /\ target' = target
      /\ name_established' = name_established /\ s \notin closed
      /\ sent' = [sent EXCEPT ![s] = @ \o text]
  BY DEF Proxy!Send, Proxy!lineVars, Proxy!writeVars, Proxy!endVars
<1>2. /\ sent[s] \in Seq(Proxy!Token) /\ text \in Seq(Proxy!Token) /\ Len(sent[s]) \in Nat
      /\ taken[s] <= Len(sent[s]) /\ taken[s] \in Nat /\ Len(prev_part[s]) \in Nat
      /\ Got(s) \in Nat /\ Passed(s) \in Nat /\ Got(s) <= Passed(s) /\ Len(Pending(s)) \in Nat
  BY SideTypes DEF Proxy!ProxyAssumption
<1>3. sent'[s] = sent[s] \o text
  BY <1>1 DEF TypeInv, Proxy!TypeOK
<1>4. /\ sent'[s] \in Seq(Proxy!Token) /\ Len(sent[s]) <= Len(sent'[s]) /\ Len(sent'[s]) \in Nat
      /\ \A i \in 1..Len(sent[s]) : sent'[s][i] = sent[s][i]
  BY <1>2, <1>3
<1>5. Pending(s)' = Pending(s) /\ Got(s)' = Got(s) /\ Passed(s)' = Passed(s)
  BY <1>1 DEF Pending, Got, Passed
<1>6. Relayed(s)'
  <2>1. Relayed(s)
    BY DEF SideInv
  <2>2. \A i \in 1..Got(s) : Proxy!Rewritten(s, i)' = Proxy!Rewritten(s, i)
    <3>1. Got(s) # 0 => Got(s) <= Len(sent[s]) /\ sent[s][Got(s)] = NewLine
      BY <2>1 DEF Relayed
    <3>. QED  BY <1>2, <1>4, <3>1, RewrittenStill
  <2>3. \A i \in 1..Got(s) : written'[Proxy!Other(s)][i] = Proxy!Rewritten(s, i)'
    BY <1>1, <2>1, <2>2 DEF Relayed
  <2>4. Got(s) # 0 => Got(s) \in 1..Len(sent[s])
    BY <1>2, <2>1 DEF Relayed
  <2>5. Got(s)' <= Len(sent'[s]) /\ (Got(s)' # 0 => sent'[s][Got(s)'] = NewLine)
    BY <1>2, <1>4, <1>5, <2>1, <2>4 DEF Relayed
  <2>. QED  BY <1>5, <2>3, <2>5 DEF Relayed
<1>7. ASSUME s \notin ended', relay' # "ended"
      PROVE  InStep(s)'
  <2>1. InStep(s)
    BY <1>1, <1>7 DEF SideInv
  <2>2. Passed(s) <= Len(sent[s])
    BY <1>2, <2>1 DEF InStep
  <2>3. \A k \in 1..Passed(s) : Proxy!Rewritten(s, k)' = Proxy!Rewritten(s, k)
    <3>1. Passed(s) # 0 => sent[s][Passed(s)] = NewLine
      BY <2>1 DEF InStep
    <3>. QED  BY <1>2, <1>4, <2>2, <3>1, RewrittenStill
  <2>4. Passed(s)' # 0 => sent'[s][Passed(s)'] = NewLine
    BY <1>2, <1>4, <1>5, <2>1, <2>2 DEF InStep
  <2>5. \A i \in 1..Len(prev_part[s]) : prev_part'[s][i] = sent'[s][Passed(s)' + i]
    <3>1. \A i \in 1..Len(prev_part[s]) : Passed(s) + i \in 1..Len(sent[s])
      BY <1>2, <2>1 DEF InStep
    <3>. QED  BY <1>1, <1>4, <1>5, <2>1, <3>1 DEF InStep
  <2>6. ASSUME NEW i \in 1..Len(Pending(s)')
        PROVE  Pending(s)'[i] = Proxy!Rewritten(s, Got(s) + i)'
    <3>1. i \in 1..Len(Pending(s)) /\ Pending(s)[i] = Proxy!Rewritten(s, Got(s) + i)
      BY <1>5, <2>1 DEF InStep
    <3>2. PICK k \in Nat : k = Got(s) + i
      BY <1>2, <3>1
    <3>3. k \in 1..Passed(s)
      BY <1>2, <3>1, <3>2 DEF Passed
    <3>4. Proxy!Rewritten(s, k)' = Proxy!Rewritten(s, k)
      BY <2>3, <3>3
    <3>5. Got(s)' + i = k
      BY <1>5, <3>2
    <3>. QED  BY <1>5, <3>1, <3>2, <3>4, <3>5
  <2>7. taken'[s] = Passed(s)' + Len(prev_part'[s])
        /\ (\A i \in 1..(Len(prev_part'[s]) - 1) : prev_part'[s][i] # NewLine)
        /\ (s = "client" => (name_established' <=> Passed(s)' # 0))
    BY <1>1, <1>5, <2>1 DEF InStep
  <2>. QED  BY <2>4, <2>5, <2>6, <2>7, <1>1, <1>5 DEF InStep
<1>8. ASSUME s \in ended'
      PROVE  Over(s)'
  <2>1. Over(s) /\ s \notin closed
    BY <1>1, <1>8 DEF SideInv
  <2>2. PICK w \in 1..Len(sent[s]) : sent[s][w] = Wide
    BY <2>1 DEF Over
  <2>3. w \in 1..Len(sent'[s]) /\ sent'[s][w] = Wide
    BY <1>2, <1>4, <2>2
  <2>4. ASSUME NEW i \in 1..Len(sent'[s]), sent'[s][i] = NewLine,
               \A j \in 1..i : sent'[s][j] # Wide
        PROVE  i <= Got(s)'
    <3>1. i < w
      BY <1>2, <1>4, <2>2, <2>3, <2>4
    <3>2. i \in 1..Len(sent[s]) /\ \A j \in 1..i : j \in 1..Len(sent[s])
      BY <1>2, <2>2, <3>1
    <3>3. sent[s][i] = NewLine /\ \A j \in 1..i : sent[s][j] # Wide
      BY <1>4, <2>4, <3>2
    <3>. QED  BY <1>5, <2>1, <3>2, <3>3 DEF Over
  <2>. QED  BY <2>3, <2>4 DEF Over
<1>. QED  BY <1>6, <1>7, <1>8 DEF SideInv

LEMMA ReadStep ==
  ASSUME TypeInv, TypeInv', NEW s \in Proxy!Side, Proxy!ReadToken(s), SideInv(s)
  PROVE  SideInv(s)'
<1>1. /\ sent' = sent /\ closed' = closed /\ written' = written /\ writing' = writing
      /\ target' = target /\ name_established' = name_established /\ ended' = ended
      /\ relay = "selecting" /\ relay' = "selecting" /\ ~Proxy!HasLine(s)
      /\ taken[s] < Len(sent[s])
      /\ taken' = [taken EXCEPT ![s] = @ + 1]
      /\ prev_part' = [prev_part EXCEPT ![s] = Append(@, sent[s][taken[s] + 1])]
  BY DEF Proxy!ReadToken, Proxy!peerVars, Proxy!writeVars, Proxy!endVars
<1>2. /\ taken'[s] = taken[s] + 1
      /\ prev_part'[s] = Append(prev_part[s], sent[s][taken[s] + 1])
  BY <1>1 DEF TypeInv, Proxy!TypeOK
<1>3. /\ prev_part[s] \in Seq(Proxy!Token) /\ Len(prev_part[s]) \in Nat /\ taken[s] \in Nat
      /\ sent[s] \in Seq(Proxy!Token) /\ sent[s][taken[s] + 1] \in Proxy!Token /\ Passed(s) \in Nat
  <2>1. /\ sent[s] \in Seq(Proxy!Token) /\ taken[s] \in Nat /\ Len(sent[s]) \in Nat
        /\ prev_part[s] \in Seq(Proxy!Token \ {Wide}) /\ Len(prev_part[s]) \in Nat /\ Passed(s) \in Nat
    BY SideTypes
  <2>2. Proxy!Token \ {Wide} \subseteq Proxy!Token
    OBVIOUS
  <2>3. taken[s] + 1 \in 1..Len(sent[s])
    BY <1>1, <2>1
  <2>. QED  BY <2>1, <2>2, <2>3, SeqMonotonic
<1>4. Pending(s)' = Pending(s) /\ Got(s)' = Got(s) /\ Passed(s)' = Passed(s)
  BY <1>1 DEF Pending, Got, Passed
<1>5. \A i : Proxy!Rewritten(s, i)' = Proxy!Rewritten(s, i)
  BY <1>1 DEF Proxy!Rewritten, Proxy!WholeWord, Proxy!InName
<1>6. Relayed(s)'
  BY <1>1, <1>4, <1>5 DEF SideInv, Relayed
<1>7. ASSUME s \notin ended'
      PROVE  InStep(s)'
  <2>1. InStep(s)
    BY <1>1, <1>7 DEF SideInv
  <2>2. /\ Len(prev_part'[s]) = Len(prev_part[s]) + 1
        /\ prev_part'[s][Len(prev_part[s]) + 1] = sent[s][taken[s] + 1]
        /\ \A i \in 1..Len(prev_part[s]) : prev_part'[s][i] = prev_part[s][i]
    BY <1>2, <1>3
  <2>3. taken[s] = Passed(s) + Len(prev_part[s])
    BY <2>1 DEF InStep
  <2>4. ASSUME NEW i \in 1..Len(prev_part'[s])
        PROVE  prev_part'[s][i] = sent'[s][Passed(s)' + i]
    <3>1. CASE i = Len(prev_part[s]) + 1
      <4>1. Passed(s) + i = taken[s] + 1
        BY <1>3, <2>3, <3>1
      <4>. QED  BY <1>1, <1>4, <2>2, <3>1, <4>1
    <3>2. CASE i # Len(prev_part[s]) + 1
      <4>1. i \in 1..Len(prev_part[s])
        BY <1>3, <2>2, <3>2
      <4>. QED  BY <1>1, <1>4, <2>1, <2>2, <4>1 DEF InStep
    <3>. QED  BY <3>1, <3>2
  <2>5. ASSUME NEW i \in 1..(Len(prev_part'[s]) - 1)
        PROVE  prev_part'[s][i] # NewLine
    <3>1. i \in 1..Len(prev_part[s])
      BY <1>3, <2>2
    <3>2. CASE i = Len(prev_part[s])
      BY <1>1, <1>3, <2>2, <3>1, <3>2 DEF Proxy!HasLine
    <3>3. CASE i # Len(prev_part[s])
      <4>1. i \in 1..(Len(prev_part[s]) - 1)
        BY <1>3, <3>1, <3>3
      <4>. QED  BY <2>1, <2>2, <3>1, <4>1 DEF InStep
    <3>. QED  BY <3>2, <3>3
  <2>6. taken'[s] = Passed(s)' + Len(prev_part'[s])
    BY <1>2, <1>3, <1>4, <2>2, <2>3
  <2>7. /\ Passed(s)' # 0 => sent'[s][Passed(s)'] = NewLine
        /\ s = "client" => (name_established' <=> Passed(s)' # 0)
    BY <1>1, <1>4, <2>1 DEF InStep
  <2>8. \A i \in 1..Len(Pending(s)') : Pending(s)'[i] = Proxy!Rewritten(s, Got(s) + i)'
    <3> HIDE DEF Passed, Got, Pending, Proxy!Rewritten
    <3>. QED  BY <1>4, <1>5, <2>1 DEF InStep
  <2>. QED  BY <2>4, <2>5, <2>6, <2>7, <2>8 DEF InStep
<1>8. ASSUME s \in ended'
      PROVE  Over(s)'
  BY <1>1, <1>4, <1>8 DEF SideInv, Over
<1>. QED  BY <1>6, <1>7, <1>8 DEF SideInv

LEMMA EndStep ==
  ASSUME TypeInv, NEW s \in Proxy!Side, Proxy!EndSide(s), SideInv(s)
  PROVE  SideInv(s)'
<1>1. /\ sent' = sent /\ closed' = closed /\ written' = written /\ writing' = writing
      /\ target' = target /\ ended' = ended \union {s} /\ relay = "selecting" /\ ~Proxy!HasLine(s)
      /\ relay' \in {"selecting", "ended"}
  BY DEF Proxy!EndSide, Proxy!peerVars, Proxy!writeVars
<1>2. Got(s)' = Got(s)
  BY <1>1 DEF Got
<1>3. \A i : Proxy!Rewritten(s, i)' = Proxy!Rewritten(s, i)
  BY <1>1 DEF Proxy!Rewritten, Proxy!WholeWord, Proxy!InName
<1>4. Relayed(s)'
  BY <1>1, <1>2, <1>3 DEF SideInv, Relayed
<1>5. Over(s)
  <2>1. CASE s \in ended
    BY <2>1 DEF SideInv
  <2>2. CASE s \notin ended
    <3>1. InStep(s) /\ Passed(s) = Got(s)
      <4>1. Pending(s) = <<>> /\ Got(s) \in Nat
        BY <1>1, SideTypes DEF Pending
      <4>. QED  BY <1>1, <2>2, <4>1 DEF SideInv, Passed
    <3>2. /\ Len(sent[s]) \in Nat /\ taken[s] \in Nat /\ Len(prev_part[s]) \in Nat /\ Got(s) \in Nat
          /\ prev_part[s] \in Seq(Proxy!Token \ {Wide})
      BY SideTypes
    <3>3. /\ taken[s] = Got(s) + Len(prev_part[s])
          /\ \A i \in 1..Len(prev_part[s]) : prev_part[s][i] = sent[s][Got(s) + i]
          /\ \A i \in 1..(Len(prev_part[s]) - 1) : prev_part[s][i] # NewLine
      BY <3>1 DEF InStep
    <3>4. ASSUME NEW i \in 1..Len(sent[s]), sent[s][i] = NewLine, i <= taken[s]
          PROVE  i <= Got(s)
      <4>1. SUFFICES ASSUME Got(s) < i PROVE FALSE
        BY <3>2
      <4>2. PICK k \in Nat : k = i - Got(s)
        BY <3>2, <4>1
      <4>3. k \in 1..Len(prev_part[s]) /\ i = Got(s) + k
        BY <3>2, <3>3, <3>4, <4>1, <4>2
      <4>4. prev_part[s][k] = NewLine
        BY <3>3, <3>4, <4>3
      <4>5. k = Len(prev_part[s])
        BY <3>2, <3>3, <4>3, <4>4
      <4>. QED  BY <1>1, <3>2, <4>3, <4>4, <4>5 DEF Proxy!HasLine
    <3>5. CASE taken[s] = Len(sent[s]) /\ s \in closed
      <4>1. \A i \in 1..Len(sent[s]) : i <= taken[s]
        BY <3>2, <3>5
      <4>. QED  BY <3>4, <3>5, <4>1 DEF Over
    <3>6. CASE taken[s] < Len(sent[s]) /\ sent[s][taken[s] + 1] = Wide
      <4>1. PICK w \in 1..Len(sent[s]) : w = taken[s] + 1
        BY <3>2, <3>6
      <4>2. sent[s][w] = Wide
        BY <3>6, <4>1
      <4>3. ASSUME NEW i \in 1..Len(sent[s]), \A j \in 1..i : sent[s][j] # Wide
            PROVE  i <= taken[s]
        <5>1. w \notin 1..i
          BY <4>2, <4>3
        <5>. QED  BY <3>2, <4>1, <5>1
      <4>. QED  BY <3>4, <4>2, <4>3 DEF Over
    <3>. QED  BY <3>5, <3>6 DEF Proxy!EndSide
  <2>. QED  BY <2>1, <2>2
<1>6. Over(s)'
  BY <1>1, <1>2, <1>5 DEF Over
<1>. QED  BY <1>1, <1>4, <1>6 DEF SideInv

(* The line that is taken is, from its first token on, what was sent after *)
(* the lines passed; and is rewritten unless it is the client's name.      *)
LEMMA TakenLine ==
  ASSUME Proxy!ProxyAssumption, TypeInv, NEW s \in Proxy!Side, Proxy!TakeLine(s), SideInv(s),
         s \notin ended,
         NEW n \in Nat, n = Len(prev_part[s])
  PROVE  /\ n # 0 /\ Len(writing') = n /\ Passed(s) = Got(s)
         /\ \A i \in 1..n : writing'[i] = Proxy!Rewritten(s, Got(s) + i)
<1> DEFINE line == prev_part[s]
<1>1. /\ relay = "selecting" /\ Proxy!HasLine(s)
      /\ writing' = IF s = "server" \/ name_established THEN Proxy!replace_address(line) ELSE line
  BY DEF Proxy!TakeLine
<1>2. InStep(s) /\ Passed(s) = Got(s)
  <2>1. Pending(s) = <<>> /\ Got(s) \in Nat
    BY <1>1, SideTypes DEF Pending
  <2>. QED  BY <1>1, <2>1 DEF SideInv, Passed
<1>3. /\ Len(sent[s]) \in Nat /\ taken[s] \in Nat /\ taken[s] <= Len(sent[s])
      /\ line \in Seq(Proxy!Token \ {Wide}) /\ Got(s) \in Nat
  BY SideTypes
<1>4. /\ taken[s] = Got(s) + n
      /\ Got(s) # 0 => sent[s][Got(s)] = NewLine
      /\ \A i \in 1..n : line[i] = sent[s][Got(s) + i]
      /\ \A i \in 1..(n - 1) : line[i] # NewLine
      /\ s = "client" => (name_established <=> Got(s) # 0)
  BY <1>2 DEF InStep
<1>5. n # 0 /\ line[n] = NewLine
  BY <1>1, <1>3 DEF Proxy!HasLine
<1>6. CASE ~(s = "server" \/ name_established)
  <2>1. s = "client" /\ Got(s) = 0 /\ writing' = line
    BY <1>1, <1>4, <1>6 DEF Proxy!Side
  <2>2. ASSUME NEW i \in 1..n
        PROVE  line[i] = Proxy!Rewritten(s, Got(s) + i)
    <3>1. Got(s) + i = i
      BY <2>1
    <3>2. \A j \in 1..(i - 1) : j \in 1..(n - 1) /\ Got(s) + j = j /\ j \in 1..n
      BY <2>1
    <3>3. \A j \in 1..(i - 1) : sent[s][j] # NewLine
      BY <1>4, <3>2
    <3>4. Proxy!InName(s, i)
      BY <2>1, <3>3 DEF Proxy!InName
    <3>5. Proxy!Rewritten(s, i) = sent[s][i]
      BY <3>4 DEF Proxy!Rewritten
    <3>. QED  BY <1>4, <3>1, <3>5
  <2>. QED  BY <1>2, <1>5, <2>1, <2>2
<1>7. CASE s = "server" \/ name_established
  <2>1. writing' = Proxy!replace_address(line)
    BY <1>1, <1>7
  <2>2. Len(writing') = n /\ \A i \in 1..n : writing'[i] = NewToken(line, i)
    BY <1>3, <2>1, Replacement
  <2>3. ASSUME NEW i \in 1..n
        PROVE  NewToken(line, i) = Proxy!Rewritten(s, Got(s) + i)
    <3>1. PICK k \in Nat : k = Got(s) + i
      BY <1>3
    <3>2. sent[s][k] = line[i] /\ k \in 1..Len(sent[s])
      BY <1>3, <1>4, <3>1
    <3>3. CASE line[i] # Address
      BY <3>1, <3>2, <3>3 DEF NewToken, Proxy!Rewritten
    <3>4. CASE line[i] = Address
      <4>1. i # n /\ NewLine # Address
        BY <1>5, <3>4 DEF Proxy!ProxyAssumption
      <4>2. i \in 1..(n - 1) /\ i + 1 \in 1..n /\ k + 1 = Got(s) + (i + 1) /\ k < Len(sent[s])
        BY <1>3, <1>4, <3>1, <4>1
      <4>3. sent[s][k + 1] = line[i + 1]
        BY <1>4, <4>2
      <4>4. ~Proxy!InName(s, k)
        <5>1. CASE s = "server"
          BY <5>1 DEF Proxy!InName
        <5>2. CASE s = "client"
          <6>1. Got(s) # 0 /\ sent[s][Got(s)] = NewLine
            BY <1>4, <1>7, <5>2
          <6>2. Got(s) \in 1..(k - 1)
            BY <1>3, <3>1, <6>1
          <6>. QED  BY <6>1, <6>2 DEF Proxy!InName
        <5>. QED  BY <5>1, <5>2 DEF Proxy!Side
      <4>5. (k = 1 \/ sent[s][k - 1] \in {Space, NewLine}) <=> (i = 1 \/ line[i - 1] = Space)
        <5>1. CASE i = 1
          <6>1. k - 1 = Got(s)
            BY <1>3, <3>1, <5>1
          <6>2. k = 1 \/ sent[s][k - 1] = NewLine
            BY <1>3, <1>4, <3>1, <5>1, <6>1
          <6>. QED  BY <5>1, <6>2
        <5>2. CASE i # 1
          <6>1. i - 1 \in 1..n /\ i - 1 \in 1..(n - 1) /\ k - 1 = Got(s) + (i - 1) /\ k # 1
            BY <1>3, <3>1, <4>2, <5>2
          <6>2. sent[s][k - 1] = line[i - 1] /\ line[i - 1] # NewLine
            BY <1>4, <6>1
          <6>. QED  BY <5>2, <6>1, <6>2
        <5>. QED  BY <5>1, <5>2
      <4>6. NewToken(line, i) = Proxy!Rewritten(s, k)
        <5>1. i # Len(line)
          BY <4>1
        <5>. QED  BY <3>2, <3>4, <4>2, <4>3, <4>4, <4>5, <5>1 DEF NewToken, Proxy!Rewritten,
                                                                  Proxy!WholeWord
      <4>. QED  BY <3>1, <4>6
    <3>. QED  BY <3>3, <3>4
  <2>. QED  BY <1>2, <1>5, <2>2, <2>3
<1>. QED  BY <1>6, <1>7

LEMMA TakeStep ==
  ASSUME Proxy!ProxyAssumption, TypeInv, TypeInv', NEW s \in Proxy!Side, Proxy!TakeLine(s),
         SideInv(s)
  PROVE  SideInv(s)'
<1>1. /\ sent' = sent /\ closed' = closed /\ written' = written /\ taken' = taken
      /\ ended' = ended /\ relay = "selecting" /\ relay' = "writing" /\ target' = Proxy!Other(s)
      /\ prev_part' = [prev_part EXCEPT ![s] = <<>>]
      /\ name_established' = (name_established \/ s = "client")
  BY DEF Proxy!TakeLine, Proxy!peerVars, Proxy!endVars
<1>2. Got(s)' = Got(s)
  BY <1>1 DEF Got
<1>3. \A i : Proxy!Rewritten(s, i)' = Proxy!Rewritten(s, i)
  BY <1>1 DEF Proxy!Rewritten, Proxy!WholeWord, Proxy!InName
<1>4. Relayed(s)'
  BY <1>1, <1>2, <1>3 DEF SideInv, Relayed
<1>5. ASSUME s \notin ended'
      PROVE  InStep(s)'
  <2>1. InStep(s)
    BY <1>1, <1>5 DEF SideInv
  <2>2. PICK n \in Nat : n = Len(prev_part[s])
    BY SideTypes
  <2>3. /\ n # 0 /\ Len(writing') = n /\ Passed(s) = Got(s)
        /\ \A i \in 1..n : writing'[i] = Proxy!Rewritten(s, Got(s) + i)
    BY <1>1, <1>5, <2>2, TakenLine
  <2>4. Pending(s)' = writing'
    BY <1>1 DEF Pending
  <2>5. Passed(s)' = Got(s) + n
    BY <1>2, <2>3, <2>4 DEF Passed
  <2>6. Got(s) \in Nat /\ prev_part[s] \in Seq(Proxy!Token \ {Wide}) /\ taken[s] \in Nat
    BY SideTypes
  <2>7. taken[s] = Got(s) + n /\ sent[s][Got(s) + n] = prev_part[s][n]
    <3>1. n \in 1..n
      BY <2>3
    <3>. QED  BY <2>1, <2>2, <2>3, <3>1 DEF InStep
  <2>8. prev_part[s][n] = NewLine
    BY <2>2 DEF Proxy!TakeLine, Proxy!HasLine
  <2>9. prev_part'[s] = <<>>
    BY <1>1 DEF TypeInv, Proxy!TypeOK
  <2>10. /\ taken'[s] = Passed(s)' + Len(prev_part'[s])
         /\ sent'[s][Passed(s)'] = NewLine
    BY <1>1, <2>5, <2>6, <2>7, <2>8, <2>9
  <2>11. s = "client" => (name_established' <=> Passed(s)' # 0)
    <3>1. Passed(s)' # 0
      BY <2>2, <2>3, <2>5, <2>6
    <3>2. s = "client" => name_established'
      BY <1>1
    <3>. QED  BY <3>1, <3>2
  <2>12. ASSUME NEW i \in 1..Len(Pending(s)')
         PROVE  Pending(s)'[i] = Proxy!Rewritten(s, Got(s) + i)'
    <3>1. i \in 1..n /\ Pending(s)'[i] = Proxy!Rewritten(s, Got(s) + i)
      BY <2>3, <2>4
    <3>2. PICK k : k = Got(s) + i
      OBVIOUS
    <3>3. Proxy!Rewritten(s, k)' = Proxy!Rewritten(s, k) /\ Got(s)' + i = k
      BY <1>2, <1>3, <3>2
    <3>. QED  BY <1>2, <3>1, <3>2, <3>3
  <2>. QED  BY <2>9, <2>10, <2>11, <2>12 DEF InStep
<1>6. ASSUME s \in ended'
      PROVE  Over(s)'
  BY <1>1, <1>2, <1>6 DEF SideInv, Over
<1>. QED  BY <1>4, <1>5, <1>6 DEF SideInv

LEMMA RelayWriteStep ==
  ASSUME TypeInv, TypeInv', NEW s \in Proxy!Side, Proxy!WriteLine, target = Proxy!Other(s),
         SideInv(s)
  PROVE  SideInv(s)'
<1>1. /\ sent' = sent /\ closed' = closed /\ taken' = taken /\ prev_part' = prev_part
      /\ ended' = ended /\ target' = target /\ name_established' = name_established
      /\ relay = "writing" /\ relay' = "selecting" /\ s \notin ended
      /\ written' = [written EXCEPT ![target] = @ \o writing]
  BY SideFacts DEF Proxy!WriteLine, Proxy!peerVars, Proxy!lineVars, Proxy!endVars
<1>2. InStep(s) /\ Relayed(s)
  BY <1>1 DEF SideInv
<1>3. Pending(s) = writing /\ Pending(s)' = <<>>
  BY <1>1 DEF Pending
<1>4. /\ written[Proxy!Other(s)] \in Seq(Item \ {Wide}) /\ writing \in Seq(Item \ {Wide})
      /\ Got(s) \in Nat /\ Len(writing) \in Nat /\ Passed(s) \in Nat /\ Got(s) <= Passed(s)
      /\ Len(sent[s]) \in Nat /\ taken[s] \in Nat /\ taken[s] <= Len(sent[s])
      /\ Len(prev_part[s]) \in Nat
  BY SideTypes
<1>5. written'[Proxy!Other(s)] = written[Proxy!Other(s)] \o writing
  BY <1>1, SideFacts DEF TypeInv, Proxy!TypeOK
<1>6. /\ Got(s)' = Passed(s) /\ Passed(s)' = Passed(s)
      /\ Passed(s) = Got(s) + Len(writing)
      /\ \A i \in 1..Got(s) : written'[Proxy!Other(s)][i] = written[Proxy!Other(s)][i]
      /\ \A i \in 1..Len(writing) : written'[Proxy!Other(s)][Got(s) + i] = writing[i]
  <2>1. /\ Len(written[Proxy!Other(s)] \o writing) = Got(s) + Len(writing)
        /\ \A i \in 1..Got(s) : (written[Proxy!Other(s)] \o writing)[i] = written[Proxy!Other(s)][i]
        /\ \A i \in 1..Len(writing) : (written[Proxy!Other(s)] \o writing)[Got(s) + i] = writing[i]
    BY <1>4 DEF Got
  <2>2. Passed(s) = Got(s) + Len(writing)
    BY <1>3 DEF Passed
  <2>3. Got(s)' = Passed(s)
    BY <1>5, <2>1, <2>2 DEF Got
  <2>4. Passed(s)' = Passed(s)
    BY <1>3, <1>4, <2>3 DEF Passed
  <2>. QED  BY <1>5, <2>1, <2>2, <2>3, <2>4
<1>7. \A i : Proxy!Rewritten(s, i)' = Proxy!Rewritten(s, i)
  BY <1>1 DEF Proxy!Rewritten, Proxy!WholeWord, Proxy!InName
<1>8. Relayed(s)'
  <2>1. Got(s)' <= Len(sent'[s])
    BY <1>1, <1>2, <1>4, <1>6 DEF InStep
  <2>2. Got(s)' # 0 => sent'[s][Got(s)'] = NewLine
    BY <1>1, <1>2, <1>6 DEF InStep
  <2>3. ASSUME NEW i \in 1..Passed(s)
        PROVE  written'[Proxy!Other(s)][i] = Proxy!Rewritten(s, i)
    <3>1. CASE i <= Got(s)
      <4>1. i \in 1..Got(s)
        BY <1>4, <3>1
      <4>. QED  BY <1>2, <1>6, <4>1 DEF Relayed
    <3>2. CASE Got(s) < i
      <4>1. PICK k \in Nat : k = i - Got(s)
        BY <1>4, <3>2
      <4>2. k \in 1..Len(writing) /\ i = Got(s) + k
        BY <1>4, <1>6, <3>2, <4>1
      <4>. QED  BY <1>2, <1>3, <1>6, <4>2 DEF InStep
    <3>. QED  BY <1>4, <3>1, <3>2
  <2>4. \A i \in 1..Passed(s) : written'[Proxy!Other(s)][i] = Proxy!Rewritten(s, i)'
    BY <1>7, <2>3
  <2>. QED  BY <1>6, <2>1, <2>2, <2>4 DEF Relayed
<1>9. InStep(s)'
  <2>1. Len(Pending(s)') = 0
    BY <1>3
  <2>2. /\ taken'[s] = Passed(s)' + Len(prev_part'[s])
        /\ Passed(s)' # 0 => sent'[s][Passed(s)'] = NewLine
        /\ \A i \in 1..Len(prev_part'[s]) : prev_part'[s][i] = sent'[s][Passed(s)' + i]
        /\ \A i \in 1..(Len(prev_part'[s]) - 1) : prev_part'[s][i] # NewLine
        /\ s = "client" => (name_established' <=> Passed(s)' # 0)
    BY <1>1, <1>2, <1>6 DEF InStep
  <2>3. \A i \in 1..Len(Pending(s)') : Pending(s)'[i] = Proxy!Rewritten(s, Got(s) + i)'
    BY <2>1
  <2>. QED  BY <2>2, <2>3 DEF InStep
<1>. QED  BY <1>1, <1>8, <1>9 DEF SideInv

LEMMA FailStep ==
  ASSUME NEW s \in Proxy!Side, Proxy!FailToWrite, SideInv(s)
  PROVE  SideInv(s)'
<1>1. /\ sent' = sent /\ closed' = closed /\ written' = written /\ ended' = ended
      /\ relay' = "ended"
  BY DEF Proxy!FailToWrite, Proxy!peerVars, Proxy!lineVars, Proxy!writeVars
<1>2. Got(s)' = Got(s)
  BY <1>1 DEF Got
<1>3. \A i : Proxy!Rewritten(s, i)' = Proxy!Rewritten(s, i)
  BY <1>1 DEF Proxy!Rewritten, Proxy!WholeWord, Proxy!InName
<1>4. Relayed(s)'
  BY <1>1, <1>2, <1>3 DEF SideInv, Relayed
<1>5. s \in ended' => Over(s)'
  BY <1>1, <1>2 DEF SideInv, Over
<1>. QED  BY <1>1, <1>4, <1>5 DEF SideInv

-----------------------------------------------------------------------------
(* What a step of one side leaves alone of the other one.                  *)
LEMMA OtherSide ==
  ASSUME TypeInv, NEW s \in Proxy!Side, NEW r \in Proxy!Side, r # s,
         \/ Proxy!ReadToken(s) \/ Proxy!EndSide(s) \/ Proxy!TakeLine(s)
         \/ \E text \in Texts : Proxy!Send(s, text)
         \/ Proxy!WriteLine /\ target = Proxy!Other(s)
  PROVE  Untouched(r)
<1>1. r = Proxy!Other(s) /\ s = Proxy!Other(r) /\ Proxy!Other(s) # s
  BY SideFacts
<1>2. name_established \in BOOLEAN /\ relay \in {"selecting", "writing", "ended"}
  BY DEF TypeInv, Proxy!TypeOK
<1>3. CASE Proxy!ReadToken(s)
  <2>1. Pending(r)' = Pending(r)
    BY <1>3 DEF Proxy!ReadToken, Proxy!writeVars, Pending
  <2>. QED  BY <1>3, <2>1 DEF Proxy!ReadToken, Untouched, Proxy!peerVars, Proxy!writeVars,
                              Proxy!endVars, TypeInv, Proxy!TypeOK
<1>4. CASE Proxy!EndSide(s)
  <2>1. Pending(r) = <<>> /\ Pending(r)' = <<>>
    BY <1>4 DEF Proxy!EndSide, Pending
  <2>2. taken'[r] = taken[r]
    BY <1>4 DEF Proxy!EndSide, TypeInv, Proxy!TypeOK
  <2>. QED  BY <1>4, <2>1, <2>2 DEF Proxy!EndSide, Untouched, Proxy!peerVars, Proxy!writeVars
<1>5. CASE Proxy!TakeLine(s)
  <2>1. Pending(r) = <<>> /\ Pending(r)' = <<>>
    BY <1>1, <1>5 DEF Proxy!TakeLine, Pending
  <2>2. r = "client" => name_established' = name_established
    BY <1>1, <1>2, <1>5 DEF Proxy!TakeLine
  <2>. QED  BY <1>5, <2>1, <2>2 DEF Proxy!TakeLine, Untouched, Proxy!peerVars, Proxy!endVars,
                                    TypeInv, Proxy!TypeOK
<1>6. ASSUME NEW text \in Texts, Proxy!Send(s, text)
      PROVE  Untouched(r)
  <2>1. Pending(r)' = Pending(r)
    BY <1>6 DEF Proxy!Send, Proxy!writeVars, Pending
  <2>. QED  BY <1>6, <2>1 DEF Proxy!Send, Untouched, Proxy!lineVars, Proxy!writeVars,
                              Proxy!endVars, TypeInv, Proxy!TypeOK
<1>7. CASE Proxy!WriteLine /\ target = Proxy!Other(s)
  <2>1. Pending(r) = <<>> /\ Pending(r)' = <<>>
    BY <1>1, <1>7 DEF Proxy!WriteLine, Pending
  <2>2. written'[Proxy!Other(r)] = written[Proxy!Other(r)]
    BY <1>1, <1>7 DEF Proxy!WriteLine, TypeInv, Proxy!TypeOK
  <2>. QED  BY <1>7, <2>1, <2>2 DEF Proxy!WriteLine, Untouched, Proxy!peerVars, Proxy!lineVars,
                                    Proxy!endVars
<1>. QED  BY <1>3, <1>4, <1>5, <1>6, <1>7

LEMMA CloseUntouched ==
  ASSUME NEW s \in Proxy!Side, Proxy!Close(s), NEW r \in Proxy!Side
  PROVE  Untouched(r)
<1>1. Pending(r)' = Pending(r)
  BY DEF Proxy!Close, Proxy!writeVars, Pending
<1>. QED  BY <1>1 DEF Proxy!Close, Untouched, Proxy!lineVars, Proxy!writeVars, Proxy!endVars

LEMMA RelayInvInit ==
  ASSUME Proxy!ProxyAssumption
  PROVE  Proxy!Init => RelayInv
  BY TypeInit, SideInit DEF RelayInv, Proxy!Init

LEMMA RelayInvStep ==
  ASSUME Proxy!ProxyAssumption, RelayInv, [Proxy!Next]_(Proxy!proxyVars)
  PROVE  RelayInv'
<1>1. TypeInv /\ TypeInv' /\ \A s \in Proxy!Side : SideInv(s)
  BY TypeStep DEF RelayInv
<1>2. CASE UNCHANGED Proxy!proxyVars
  <2>1. ASSUME NEW s \in Proxy!Side
        PROVE  Untouched(s)
    <3>1. Pending(s)' = Pending(s)
      BY <1>2 DEF Proxy!proxyVars, Proxy!writeVars, Pending
    <3>. QED  BY <1>2, <3>1 DEF Untouched, Proxy!proxyVars, Proxy!peerVars, Proxy!lineVars,
                                Proxy!writeVars, Proxy!endVars
  <2>2. \A s \in Proxy!Side : SideInv(s)'
    BY <1>1, <2>1, UntouchedKeeps
  <2>3. (relay = "ended" /\ ~broken => ended = Proxy!Side)'
    BY <1>2 DEF RelayInv, Proxy!proxyVars, Proxy!endVars
  <2>. QED  BY <1>1, <2>2, <2>3 DEF RelayInv
<1>3. ASSUME NEW s \in Proxy!Side, Proxy!ReadToken(s)
      PROVE  RelayInv'
  <2>1. \A r \in Proxy!Side : SideInv(r)'
    BY <1>1, <1>3, ReadStep, OtherSide, UntouchedKeeps
  <2>2. relay' # "ended"
    BY <1>3 DEF Proxy!ReadToken
  <2>. QED  BY <1>1, <2>1, <2>2 DEF RelayInv
<1>4. ASSUME NEW s \in Proxy!Side, Proxy!EndSide(s)
      PROVE  RelayInv'
  <2>1. \A r \in Proxy!Side : SideInv(r)'
    BY <1>1, <1>4, EndStep, OtherSide, UntouchedKeeps
  <2>2. relay' = "ended" => ended' = Proxy!Side
    BY <1>4 DEF Proxy!EndSide
  <2>. QED  BY <1>1, <2>1, <2>2 DEF RelayInv
<1>5. ASSUME NEW s \in Proxy!Side, Proxy!TakeLine(s)
      PROVE  RelayInv'
  <2>1. \A r \in Proxy!Side : SideInv(r)'
    BY <1>1, <1>5, TakeStep, OtherSide, UntouchedKeeps
  <2>2. relay' # "ended"
    BY <1>5 DEF Proxy!TakeLine
  <2>. QED  BY <1>1, <2>1, <2>2 DEF RelayInv
<1>6. ASSUME NEW s \in Proxy!Side, NEW text \in Texts, Proxy!Send(s, text)
      PROVE  RelayInv'
  <2>1. \A r \in Proxy!Side : SideInv(r)'
    BY <1>1, <1>6, PeerSendStep, OtherSide, UntouchedKeeps
  <2>2. (relay = "ended" /\ ~broken => ended = Proxy!Side)'
    BY <1>6 DEF RelayInv, Proxy!Send, Proxy!endVars
  <2>. QED  BY <1>1, <2>1, <2>2 DEF RelayInv
<1>7. ASSUME NEW s \in Proxy!Side, Proxy!Close(s)
      PROVE  RelayInv'
  <2>1. \A r \in Proxy!Side : SideInv(r)'
    BY <1>1, <1>7, CloseUntouched, UntouchedKeeps
  <2>2. (relay = "ended" /\ ~broken => ended = Proxy!Side)'
    BY <1>7 DEF RelayInv, Proxy!Close, Proxy!endVars
  <2>. QED  BY <1>1, <2>1, <2>2 DEF RelayInv
<1>8. ASSUME Proxy!WriteLine
      PROVE  RelayInv'
  <2>1. PICK s \in Proxy!Side : target = Proxy!Other(s)
    BY <1>1, SideFacts DEF TypeInv, Proxy!TypeOK
  <2>2. \A r \in Proxy!Side : SideInv(r)'
    BY <1>1, <1>8, <2>1, RelayWriteStep, OtherSide, UntouchedKeeps
  <2>3. relay' # "ended"
    BY <1>8 DEF Proxy!WriteLine
  <2>. QED  BY <1>1, <2>2, <2>3 DEF RelayInv
<1>9. ASSUME Proxy!FailToWrite
      PROVE  RelayInv'
  <2>1. \A r \in Proxy!Side : SideInv(r)'
    BY <1>1, <1>9, FailStep
  <2>2. broken' = TRUE
    BY <1>9 DEF Proxy!FailToWrite
  <2>. QED  BY <1>1, <2>1, <2>2 DEF RelayInv
<1>10. CASE Proxy!Next
  BY <1>3, <1>4, <1>5, <1>6, <1>7, <1>8, <1>9, <1>10 DEF Proxy!Next
<1>. QED  BY <1>2, <1>10

(* Whatever the two sides send, and however their closing and the failing  *)
(* of writes fall between the steps of the relay, each receives what the   *)
(* other one sent, in order and whole, with every address that is a word   *)
(* rewritten, and nothing else.                                            *)
THEOREM RelayCorrect ==
  ASSUME Proxy!ProxyAssumption
  PROVE  Proxy!Spec => []Proxy!RelayedExactly
<1>1. Proxy!Spec => []RelayInv
  BY RelayInvInit, RelayInvStep, PTL DEF Proxy!Spec
<1>2. RelayInv => Proxy!RelayedExactly
  <2> SUFFICES ASSUME RelayInv, NEW s \in Proxy!Side
               PROVE  /\ Got(s) <= Len(sent[s])
                      /\ \A i \in 1..Got(s) : written[Proxy!Other(s)][i] = Proxy!Rewritten(s, i)
                      /\ relay = "ended" /\ ~broken =>
                           \A i \in 1..Len(sent[s]) :
                             sent[s][i] = NewLine /\ (\A j \in 1..i : sent[s][j] # Wide) => i <= Got(s)
    BY DEF Proxy!RelayedExactly, Got
  <2>. QED  BY DEF RelayInv, SideInv, Relayed, Over
<1>. QED  BY <1>1, <1>2, PTL

-----------------------------------------------------------------------------
(* The packets of LRCP.                                                    *)
CONSTANTS Char, Backslash, Slash, Newline, MaxSize, MaxText, ConnectWord, DataWord, AckWord,
          CloseWord, NoMessage
VARIABLE text

Wire == INSTANCE LrcpText

Sign == Char \union {ConnectWord, DataWord, AckWord, CloseWord} \union Nat

LEMMA SameMax == \A s : Wire!Max(s) = Proxy!Max(s)
BY DEF Wire!Max, Proxy!Max

(* What one more token makes of a fold.                                    *)
LEMMA OneMore ==
  ASSUME NEW Values, NEW base \in Values, NEW N \in Nat, NEW step, NEW more,
         NEW t, NEW u, NEW last, NEW next,
         Trace(t, Values, base, N, step, last), Trace(u, Values, base, N + 1, more, next),
         \A n \in 1..N : more[n] = step[n]
  PROVE  last \in Values /\ next = more[N + 1][last]
<1> USE DEF Trace
<1> DEFINE same == {n \in 0..N : u[n] = t[n]}
<1>1. 0 \in same
  OBVIOUS
<1>2. ASSUME NEW n \in 0..(N - 1), n \in same
      PROVE  n + 1 \in same
  <2>1. n + 1 \in 1..N /\ n + 1 \in 1..(N + 1) /\ (n + 1) - 1 = n /\ n + 1 \in 0..N
    OBVIOUS
  <2>. QED  BY <1>2, <2>1
<1>3. \A n \in 0..N : n \in same
  <2> HIDE DEF same
  <2>. QED  BY <1>1, <1>2, UpTo
<1>4. N \in 0..N /\ N + 1 \in 1..(N + 1) /\ (N + 1) - 1 = N
  OBVIOUS
<1>. QED  BY <1>3, <1>4

(* Induction over a text.                                                  *)
LEMMA Prefix ==
  ASSUME NEW s \in Seq(Sign), NEW n \in 0..(Len(s) - 1)
  PROVE  /\ SubSeq(s, 1, n) \in Seq(Sign) /\ s[n + 1] \in Sign
         /\ SubSeq(s, 1, n + 1) = Append(SubSeq(s, 1, n), s[n + 1])
<1>1. n + 1 \in 1..Len(s) /\ n \in Nat /\ Len(s) \in Nat
  OBVIOUS
<1>. QED  BY <1>1

LEMMA ByPrefix ==
  ASSUME NEW s \in Seq(Sign), NEW good, << >> \in good,
         \A u \in Seq(Sign), d \in Sign : u \in good => Append(u, d) \in good
  PROVE  s \in good
<1> DEFINE upto == {n \in 0..Len(s) : SubSeq(s, 1, n) \in good}
<1>1. Len(s) \in Nat /\ SubSeq(s, 1, Len(s)) = s /\ SubSeq(s, 1, 0) = << >>
  OBVIOUS
<1>2. 0 \in upto
  <2>1. 0 \in 0..Len(s)
    BY <1>1
  <2>2. SubSeq(s, 1, 0) \in good
    BY <1>1, Zenon
  <2>. QED  BY <2>1, <2>2
<1>3. ASSUME NEW n \in 0..(Len(s) - 1), n \in upto
      PROVE  n + 1 \in upto
  <2>1. n + 1 \in 0..Len(s)
    BY <1>1
  <2>. QED  BY <1>3, <2>1, Prefix
<1>4. \A n \in 0..Len(s) : n \in upto
  <2> HIDE DEF upto
  <2>. QED  BY <1>1, <1>2, <1>3, UpTo
<1>5. Len(s) \in 0..Len(s)
  BY <1>1
<1>6. SubSeq(s, 1, Len(s)) \in good
  BY <1>4, <1>5
<1>. QED  BY <1>1, <1>6

-----------------------------------------------------------------------------
(* The folds of Lrcp.                                                      *)
TextSteps(line) == [n \in 1..Len(line) |-> [v \in Seq(Sign) |-> v \o line[n]]]
SizeSteps(line) == [n \in 1..Len(line) |-> [v \in Nat |-> v + Wire!char_size(line[n])]]

(* Halve on its way: "open" says that the last character may open a pair.  *)
Opened == {h \in [out : Seq(Sign), open : BOOLEAN] :
             h.open => h.out # << >> /\ h.out[Len(h.out)] = Backslash}
Start == [out |-> << >>, open |-> FALSE]
Paired(c, h, d) ==
  IF h.open /\ d = c THEN [out |-> Append(Wire!Front(h.out), c), open |-> FALSE]
  ELSE [out |-> Append(h.out, d), open |-> d = Backslash]
Halving(c, line) ==
  LET step(s, d) == IF s.open /\ d = c
                    THEN [out |-> Append(Wire!Front(s.out), c), open |-> FALSE]
                    ELSE [out |-> Append(s.out, d), open |-> d = Backslash]
  IN  Wire!FoldLeft(step, [out |-> << >>, open |-> FALSE], line)
HalveSteps(c, line) == [n \in 1..Len(line) |-> [v \in Opened |-> Paired(c, v, line[n])]]

LEMMA Halves == \A c, line : Wire!Halve(c, line) = Halving(c, line).out
BY DEF Wire!Halve, Halving

LEMMA FrontFacts ==
  ASSUME NEW s \in Seq(Sign), s # << >>
  PROVE  /\ Wire!Front(s) \in Seq(Sign) /\ s[Len(s)] \in Sign
         /\ s = Append(Wire!Front(s), s[Len(s)])
<1>1. Len(s) \in Nat /\ Len(s) # 0 /\ Len(s) - 1 \in 0..(Len(s) - 1) /\ (Len(s) - 1) + 1 = Len(s)
  OBVIOUS
<1>2. SubSeq(s, 1, Len(s)) = s
  BY <1>1
<1>. QED  BY <1>1, <1>2, Prefix DEF Wire!Front

LEMMA FrontAppend ==
  ASSUME NEW s \in Seq(Sign), NEW d \in Sign
  PROVE  /\ Append(s, d) \in Seq(Sign) /\ Append(s, d) # << >> /\ Wire!Front(Append(s, d)) = s
         /\ Len(Append(s, d)) = Len(s) + 1 /\ Append(s, d)[Len(s) + 1] = d
<1>1. /\ Append(s, d) \in Seq(Sign) /\ Len(Append(s, d)) = Len(s) + 1 /\ Len(s) \in Nat
      /\ Append(s, d)[Len(s) + 1] = d /\ \A i \in 1..Len(s) : Append(s, d)[i] = s[i]
  OBVIOUS
<1>2. (Len(s) + 1) - 1 = Len(s)
  BY <1>1
<1>3. SubSeq(Append(s, d), 1, Len(s)) = s
  BY <1>1
<1>. QED  BY <1>1, <1>2, <1>3 DEF Wire!Front

LEMMA PairedType ==
  ASSUME NEW c \in Sign, NEW h \in Opened, NEW d \in Sign
  PROVE  Paired(c, h, d) \in Opened
<1>1. h.out \in Seq(Sign) /\ h.open \in BOOLEAN
  BY DEF Opened
<1>2. CASE h.open /\ d = c
  <2>1. Append(Wire!Front(h.out), c) \in Seq(Sign)
    BY <1>1, <1>2, FrontFacts DEF Opened
  <2>. QED  BY <1>2, <2>1 DEF Paired, Opened
<1>3. CASE ~(h.open /\ d = c)
  <2>1. /\ Append(h.out, d) \in Seq(Sign) /\ Append(h.out, d) # << >>
        /\ Append(h.out, d)[Len(Append(h.out, d))] = d
    BY <1>1, FrontAppend
  <2>. QED  BY <1>3, <2>1 DEF Paired, Opened
<1>. QED  BY <1>2, <1>3

LEMMA CharSizes == \A d : Wire!char_size(d) \in 1..2
BY DEF Wire!char_size

LEMMA TextTrace ==
  ASSUME NEW line \in Seq(Seq(Sign))
  PROVE  \E trace : Trace(trace, Seq(Sign), << >>, Len(line), TextSteps(line), Wire!Text(line))
<1> DEFINE N == Len(line)
           values == Seq(Sign)
           base == << >>
           next(v, i) == v \o line[i]
           step == [n \in 1..N |-> [v \in values |-> next(v, n)]]
           Law(f) == f = [s \in SUBSET DOMAIN line |->
                            IF s = {} THEN base ELSE next(f[s \ {Wire!Max(s)}], Wire!Max(s))]
<1>1. N \in Nat /\ DOMAIN line = 1..N /\ base \in values
  OBVIOUS
<1>2. \A i \in 1..N, v \in values : next(v, i) \in values
  OBVIOUS
<1>3. step \in [1..N -> [values -> values]]
  <2> HIDE DEF next, values
  <2>. QED  BY <1>2
<1>4. \E f : Law(f)
  <2>1. PICK f : Folding(f, values, base, N, step)
    <3> HIDE DEF step, N, values, base
    <3>. QED  BY <1>1, <1>3, FoldDefined
  <2>2. ASSUME NEW s \in SUBSET (1..N), s # {}
        PROVE  f[s] = next(f[s \ {Wire!Max(s)}], Wire!Max(s))
    <3>1. Wire!Max(s) = Proxy!Max(s) /\ Wire!Max(s) \in 1..N /\ s \ {Wire!Max(s)} \in SUBSET (1..N)
      BY <1>1, <2>2, LastOf, SameMax
    <3> HIDE DEF next, N, values, base
    <3>. QED  BY <2>1, <2>2, <3>1 DEF Folding
  <2>3. Law(f)
    <3> HIDE DEF next, N, values, base
    <3>. QED  BY <1>1, <2>1, <2>2 DEF Folding
  <2>. QED  BY <2>3
<1>5. PICK g : Law(g) /\ Wire!Text(line) = g[DOMAIN line]
  BY <1>4 DEF Wire!Text, Wire!FoldLeft, Wire!MapThenFoldSet
<1> HIDE DEF next, values, base, N
<1>6. Folds(g, values, base, N, step)
  <2>1. ASSUME NEW s \in SUBSET (1..N), s # {}, g[s \ {Proxy!Max(s)}] \in values
        PROVE  g[s] = step[Proxy!Max(s)][g[s \ {Proxy!Max(s)}]]
    <3>1. Proxy!Max(s) \in 1..N /\ Wire!Max(s) = Proxy!Max(s)
      BY <1>1, <2>1, LastOf, SameMax
    <3>. QED  BY <1>1, <1>5, <2>1, <3>1
  <2>2. g[{}] = base
    BY <1>1, <1>5
  <2>. QED  BY <2>1, <2>2 DEF Folds
<1> HIDE DEF step
<1>7. PICK trace : Trace(trace, values, base, N, step, g[1..N])
  BY <1>1, <1>3, <1>6, FoldTrace
<1>8. Trace(trace, values, base, N, step, Wire!Text(line))
  BY <1>1, <1>5, <1>7
<1>9. TextSteps(line) = step
  BY DEF TextSteps, step, next, values, N
<1>. QED  BY <1>8, <1>9 DEF values, base, N

LEMMA SizeTrace ==
  ASSUME NEW line \in Seq(Sign)
  PROVE  \E trace : Trace(trace, Nat, 0, Len(line), SizeSteps(line), Wire!total_size(line))
<1> DEFINE N == Len(line)
           values == Nat
           base == 0
           next(v, i) == v + Wire!char_size(line[i])
           step == [n \in 1..N |-> [v \in values |-> next(v, n)]]
           Law(f) == f = [s \in SUBSET DOMAIN line |->
                            IF s = {} THEN base ELSE next(f[s \ {Wire!Max(s)}], Wire!Max(s))]
<1>1. N \in Nat /\ DOMAIN line = 1..N /\ base \in values
  OBVIOUS
<1>2. \A i \in 1..N, v \in values : next(v, i) \in values
  BY CharSizes
<1>3. step \in [1..N -> [values -> values]]
  <2> HIDE DEF next, values
  <2>. QED  BY <1>2
<1>4. \E f : Law(f)
  <2>1. PICK f : Folding(f, values, base, N, step)
    <3> HIDE DEF step, N, values, base
    <3>. QED  BY <1>1, <1>3, FoldDefined
  <2>2. ASSUME NEW s \in SUBSET (1..N), s # {}
        PROVE  f[s] = next(f[s \ {Wire!Max(s)}], Wire!Max(s))
    <3>1. Wire!Max(s) = Proxy!Max(s) /\ Wire!Max(s) \in 1..N /\ s \ {Wire!Max(s)} \in SUBSET (1..N)
      BY <1>1, <2>2, LastOf, SameMax
    <3> HIDE DEF next, N, values, base
    <3>. QED  BY <2>1, <2>2, <3>1 DEF Folding
  <2>3. Law(f)
    <3> HIDE DEF next, N, values, base
    <3>. QED  BY <1>1, <2>1, <2>2 DEF Folding
  <2>. QED  BY <2>3
<1>5. PICK g : Law(g) /\ Wire!total_size(line) = g[DOMAIN line]
  BY <1>4 DEF Wire!total_size, Wire!FoldLeft, Wire!MapThenFoldSet
<1> HIDE DEF next, values, base, N
<1>6. Folds(g, values, base, N, step)
  <2>1. ASSUME NEW s \in SUBSET (1..N), s # {}, g[s \ {Proxy!Max(s)}] \in values
        PROVE  g[s] = step[Proxy!Max(s)][g[s \ {Proxy!Max(s)}]]
    <3>1. Proxy!Max(s) \in 1..N /\ Wire!Max(s) = Proxy!Max(s)
      BY <1>1, <2>1, LastOf, SameMax
    <3>. QED  BY <1>1, <1>5, <2>1, <3>1
  <2>2. g[{}] = base
    BY <1>1, <1>5
  <2>. QED  BY <2>1, <2>2 DEF Folds
<1> HIDE DEF step
<1>7. PICK trace : Trace(trace, values, base, N, step, g[1..N])
  BY <1>1, <1>3, <1>6, FoldTrace
<1>8. Trace(trace, values, base, N, step, Wire!total_size(line))
  BY <1>1, <1>5, <1>7
<1>9. SizeSteps(line) = step
  BY DEF SizeSteps, step, next, values, N
<1>. QED  BY <1>8, <1>9 DEF values, base, N

LEMMA HalveTrace ==
  ASSUME NEW c \in Sign, NEW line \in Seq(Sign)
  PROVE  \E trace : Trace(trace, Opened, Start, Len(line), HalveSteps(c, line), Halving(c, line))
<1> DEFINE N == Len(line)
           values == Opened
           base == Start
           next(v, i) == Paired(c, v, line[i])
           step == [n \in 1..N |-> [v \in values |-> next(v, n)]]
           Law(f) == f = [s \in SUBSET DOMAIN line |->
                            IF s = {} THEN base ELSE next(f[s \ {Wire!Max(s)}], Wire!Max(s))]
<1>1. N \in Nat /\ DOMAIN line = 1..N /\ base \in values
  BY DEF Opened, Start
<1>2. \A i \in 1..N, v \in values : next(v, i) \in values
  BY PairedType
<1>3. step \in [1..N -> [values -> values]]
  <2> HIDE DEF next, values
  <2>. QED  BY <1>2
<1>4. \E f : Law(f)
  <2>1. PICK f : Folding(f, values, base, N, step)
    <3> HIDE DEF step, N, values, base
    <3>. QED  BY <1>1, <1>3, FoldDefined
  <2>2. ASSUME NEW s \in SUBSET (1..N), s # {}
        PROVE  f[s] = next(f[s \ {Wire!Max(s)}], Wire!Max(s))
    <3>1. Wire!Max(s) = Proxy!Max(s) /\ Wire!Max(s) \in 1..N /\ s \ {Wire!Max(s)} \in SUBSET (1..N)
      BY <1>1, <2>2, LastOf, SameMax
    <3> HIDE DEF next, N, values, base
    <3>. QED  BY <2>1, <2>2, <3>1 DEF Folding
  <2>3. Law(f)
    <3> HIDE DEF next, N, values, base
    <3>. QED  BY <1>1, <2>1, <2>2 DEF Folding
  <2>. QED  BY <2>3
<1>5. PICK g : Law(g) /\ Halving(c, line) = g[DOMAIN line]
  BY <1>4 DEF Halving, Paired, Start, Wire!FoldLeft, Wire!MapThenFoldSet
<1> HIDE DEF next, values, base, N
<1>6. Folds(g, values, base, N, step)
  <2>1. ASSUME NEW s \in SUBSET (1..N), s # {}, g[s \ {Proxy!Max(s)}] \in values
        PROVE  g[s] = step[Proxy!Max(s)][g[s \ {Proxy!Max(s)}]]
    <3>1. Proxy!Max(s) \in 1..N /\ Wire!Max(s) = Proxy!Max(s)
      BY <1>1, <2>1, LastOf, SameMax
    <3>. QED  BY <1>1, <1>5, <2>1, <3>1
  <2>2. g[{}] = base
    BY <1>1, <1>5
  <2>. QED  BY <2>1, <2>2 DEF Folds
<1> HIDE DEF step
<1>7. PICK trace : Trace(trace, values, base, N, step, g[1..N])
  BY <1>1, <1>3, <1>6, FoldTrace
<1>8. Trace(trace, values, base, N, step, Halving(c, line))
  BY <1>1, <1>5, <1>7
<1>9. HalveSteps(c, line) = step
  BY DEF HalveSteps, step, next, values, N
<1>. QED  BY <1>8, <1>9 DEF values, base, N

LEMMA Appended ==
  ASSUME NEW S, NEW s \in Seq(S), NEW d \in S
  PROVE  /\ Append(s, d) \in Seq(S) /\ Len(Append(s, d)) = Len(s) + 1 /\ Len(s) \in Nat
         /\ Append(s, d)[Len(s) + 1] = d /\ \A i \in 1..Len(s) : Append(s, d)[i] = s[i]
         /\ Len(s) + 1 \in 1..(Len(s) + 1) /\ \A i \in 1..Len(s) : i \in 1..(Len(s) + 1)
<1>1. Len(s) \in Nat
  OBVIOUS
<1>2. /\ Append(s, d) \in Seq(S) /\ Len(Append(s, d)) = Len(s) + 1
      /\ Append(s, d)[Len(s) + 1] = d /\ \A i \in 1..Len(s) : Append(s, d)[i] = s[i]
  OBVIOUS
<1>. QED  BY <1>1, <1>2

(* Token by token, what Lrcp folds.                                        *)
LEMMA TextMore ==
  /\ Wire!Text(<< >>) = << >>
  /\ \A s \in Seq(Seq(Sign)), t \in Seq(Sign) :
       Wire!Text(s) \in Seq(Sign) /\ Wire!Text(Append(s, t)) = Wire!Text(s) \o t
<1>1. Wire!Text(<< >>) = << >>
  <2>1. << >> \in Seq(Seq(Sign)) /\ Len(<< >>) = 0
    OBVIOUS
  <2>2. PICK trace : Trace(trace, Seq(Sign), << >>, Len(<< >>), TextSteps(<< >>), Wire!Text(<< >>))
    BY <2>1, TextTrace
  <2>. QED  BY <2>1, <2>2 DEF Trace
<1>2. ASSUME NEW s \in Seq(Seq(Sign)), NEW t \in Seq(Sign)
      PROVE  Wire!Text(s) \in Seq(Sign) /\ Wire!Text(Append(s, t)) = Wire!Text(s) \o t
  <2> DEFINE u == Append(s, t)
             N == Len(s)
  <2>1. /\ u \in Seq(Seq(Sign)) /\ Len(u) = N + 1 /\ N \in Nat /\ u[N + 1] = t
        /\ \A i \in 1..N : u[i] = s[i] /\ i \in 1..(N + 1)
        /\ N + 1 \in 1..(N + 1) /\ << >> \in Seq(Sign)
    BY Appended
  <2> HIDE DEF u
  <2>2. PICK before : Trace(before, Seq(Sign), << >>, N, TextSteps(s), Wire!Text(s))
    BY TextTrace
  <2>3. PICK after : Trace(after, Seq(Sign), << >>, N + 1, TextSteps(u), Wire!Text(u))
    BY <2>1, TextTrace
  <2>4. \A n \in 1..N : TextSteps(u)[n] = TextSteps(s)[n]
    BY <2>1 DEF TextSteps
  <2>5. Wire!Text(s) \in Seq(Sign) /\ Wire!Text(u) = TextSteps(u)[N + 1][Wire!Text(s)]
    <3> DEFINE values == Seq(Sign)
               base == << >>
    <3>1. /\ base \in values /\ Trace(before, values, base, N, TextSteps(s), Wire!Text(s))
          /\ Trace(after, values, base, N + 1, TextSteps(u), Wire!Text(u))
      BY <2>1, <2>2, <2>3
    <3> HIDE DEF N, values, base
    <3>2. Wire!Text(s) \in values /\ Wire!Text(u) = TextSteps(u)[N + 1][Wire!Text(s)]
      BY <2>1, <2>4, <3>1, OneMore
    <3>. QED  BY <3>2 DEF values
  <2>6. Wire!Text(u) = Wire!Text(s) \o t
    BY <2>1, <2>5 DEF TextSteps
  <2>. QED  BY <2>5, <2>6 DEF u
<1>. QED  BY <1>1, <1>2

LEMMA SizeMore ==
  /\ Wire!total_size(<< >>) = 0
  /\ \A s \in Seq(Sign), d \in Sign :
       /\ Wire!total_size(s) \in Nat
       /\ Wire!total_size(Append(s, d)) = Wire!total_size(s) + Wire!char_size(d)
<1>1. Wire!total_size(<< >>) = 0
  <2>1. << >> \in Seq(Sign) /\ Len(<< >>) = 0
    OBVIOUS
  <2>2. PICK trace : Trace(trace, Nat, 0, Len(<< >>), SizeSteps(<< >>), Wire!total_size(<< >>))
    BY <2>1, SizeTrace
  <2>. QED  BY <2>1, <2>2 DEF Trace
<1>2. ASSUME NEW s \in Seq(Sign), NEW d \in Sign
      PROVE  /\ Wire!total_size(s) \in Nat
             /\ Wire!total_size(Append(s, d)) = Wire!total_size(s) + Wire!char_size(d)
  <2> DEFINE u == Append(s, d)
             N == Len(s)
  <2>1. /\ u \in Seq(Sign) /\ Len(u) = N + 1 /\ N \in Nat /\ u[N + 1] = d
        /\ \A i \in 1..N : u[i] = s[i] /\ i \in 1..(N + 1)
        /\ N + 1 \in 1..(N + 1)
    BY Appended
  <2> HIDE DEF u
  <2>2. PICK before : Trace(before, Nat, 0, N, SizeSteps(s), Wire!total_size(s))
    BY SizeTrace
  <2>3. PICK after : Trace(after, Nat, 0, N + 1, SizeSteps(u), Wire!total_size(u))
    BY <2>1, SizeTrace
  <2>4. \A n \in 1..N : SizeSteps(u)[n] = SizeSteps(s)[n]
    BY <2>1 DEF SizeSteps
  <2>5. Wire!total_size(s) \in Nat /\ Wire!total_size(u) = SizeSteps(u)[N + 1][Wire!total_size(s)]
    <3> DEFINE values == Nat
               base == 0
    <3>1. /\ base \in values /\ Trace(before, values, base, N, SizeSteps(s), Wire!total_size(s))
          /\ Trace(after, values, base, N + 1, SizeSteps(u), Wire!total_size(u))
      BY <2>1, <2>2, <2>3
    <3> HIDE DEF N, values, base
    <3>2. Wire!total_size(s) \in values /\ Wire!total_size(u) = SizeSteps(u)[N + 1][Wire!total_size(s)]
      BY <2>1, <2>4, <3>1, OneMore
    <3>. QED  BY <3>2 DEF values
  <2>6. Wire!total_size(u) = Wire!total_size(s) + Wire!char_size(d)
    BY <2>1, <2>5 DEF SizeSteps
  <2>. QED  BY <2>5, <2>6 DEF u
<1>. QED  BY <1>1, <1>2

LEMMA HalvingMore ==
  ASSUME NEW c \in Sign
  PROVE  /\ Halving(c, << >>) = Start
         /\ \A s \in Seq(Sign), d \in Sign :
              /\ Halving(c, s) \in Opened
              /\ Halving(c, Append(s, d)) = Paired(c, Halving(c, s), d)
<1>1. Halving(c, << >>) = Start
  <2>1. << >> \in Seq(Sign) /\ Len(<< >>) = 0
    OBVIOUS
  <2>2. PICK trace : Trace(trace, Opened, Start, Len(<< >>), HalveSteps(c, << >>), Halving(c, << >>))
    BY <2>1, HalveTrace
  <2>. QED  BY <2>1, <2>2 DEF Trace
<1>2. ASSUME NEW s \in Seq(Sign), NEW d \in Sign
      PROVE  /\ Halving(c, s) \in Opened
             /\ Halving(c, Append(s, d)) = Paired(c, Halving(c, s), d)
  <2> DEFINE u == Append(s, d)
             N == Len(s)
  <2>1. /\ u \in Seq(Sign) /\ Len(u) = N + 1 /\ N \in Nat /\ u[N + 1] = d
        /\ \A i \in 1..N : u[i] = s[i] /\ i \in 1..(N + 1)
        /\ N + 1 \in 1..(N + 1)
    BY Appended
  <2> HIDE DEF u
  <2>2. PICK before : Trace(before, Opened, Start, N, HalveSteps(c, s), Halving(c, s))
    BY HalveTrace
  <2>3. PICK after : Trace(after, Opened, Start, N + 1, HalveSteps(c, u), Halving(c, u))
    BY <2>1, HalveTrace
  <2>4. \A n \in 1..N : HalveSteps(c, u)[n] = HalveSteps(c, s)[n]
    BY <2>1 DEF HalveSteps
  <2>5. Start \in Opened
    BY DEF Start, Opened
  <2>6. Halving(c, s) \in Opened /\ Halving(c, u) = HalveSteps(c, u)[N + 1][Halving(c, s)]
    <3> HIDE DEF N
    <3>. QED  BY <2>1, <2>2, <2>3, <2>4, <2>5, OneMore
  <2>7. Halving(c, u) = Paired(c, Halving(c, s), d)
    BY <2>1, <2>6 DEF HalveSteps
  <2>. QED  BY <2>6, <2>7 DEF u
<1>. QED  BY <1>1, <1>2

(* A character as Double writes it.                                        *)
Written(c, d) == IF d = c THEN <<Backslash, c>> ELSE <<d>>

LEMMA DoubleMore ==
  ASSUME Backslash \in Sign, NEW c \in Sign
  PROVE  /\ Wire!Double(c, << >>) = << >>
         /\ \A s \in Seq(Sign), d \in Sign :
              /\ Wire!Double(c, s) \in Seq(Sign)
              /\ Wire!Double(c, Append(s, d)) = Wire!Double(c, s) \o Written(c, d)
<1> DEFINE Each(s) == [i \in DOMAIN s |-> IF s[i] = c THEN <<Backslash, c>> ELSE <<s[i]>>]
<1>1. \A s : Wire!Double(c, s) = Wire!Text(Each(s))
  BY DEF Wire!Double
<1>2. Each(<< >>) = << >>
  OBVIOUS
<1>3. ASSUME NEW s \in Seq(Sign)
      PROVE  Each(s) \in Seq(Seq(Sign)) /\ Len(Each(s)) = Len(s)
  <2>1. \A i \in 1..Len(s) : Each(s)[i] \in Seq(Sign)
    OBVIOUS
  <2>2. DOMAIN s = 1..Len(s) /\ Len(s) \in Nat
    OBVIOUS
  <2>3. Each(s) \in [1..Len(s) -> Seq(Sign)]
    BY <2>1, <2>2
  <2> HIDE DEF Each
  <2>. QED  BY <2>2, <2>3
<1>4. ASSUME NEW s \in Seq(Sign), NEW d \in Sign
      PROVE  Each(Append(s, d)) = Append(Each(s), Written(c, d))
  <2>1. /\ Append(s, d) \in Seq(Sign) /\ Len(Append(s, d)) = Len(s) + 1 /\ Len(s) \in Nat
        /\ Append(s, d)[Len(s) + 1] = d /\ \A i \in 1..Len(s) : Append(s, d)[i] = s[i]
    BY Appended
  <2>2. Written(c, d) \in Seq(Sign)
    BY DEF Written
  <2>3. \A i \in 1..(Len(s) + 1) : Each(Append(s, d))[i] = Append(Each(s), Written(c, d))[i]
    <3> SUFFICES ASSUME NEW i \in 1..(Len(s) + 1)
                 PROVE  Each(Append(s, d))[i] = Append(Each(s), Written(c, d))[i]
      OBVIOUS
    <3>1. CASE i \in 1..Len(s)
      <4>1. Each(Append(s, d))[i] = Each(s)[i]
        BY <2>1, <3>1
      <4>2. Append(Each(s), Written(c, d))[i] = Each(s)[i]
        <5> HIDE DEF Each
        <5>. QED  BY <1>3, <2>2, <3>1, Appended
      <4>. QED  BY <4>1, <4>2
    <3>2. CASE i = Len(s) + 1
      <4>1. Each(Append(s, d))[i] = Written(c, d)
        BY <2>1, <3>2 DEF Written
      <4>2. Append(Each(s), Written(c, d))[i] = Written(c, d)
        <5> HIDE DEF Each
        <5>. QED  BY <1>3, <2>2, <3>2, Appended
      <4>. QED  BY <4>1, <4>2
    <3>. QED  BY <2>1, <3>1, <3>2
  <2>4. /\ Each(Append(s, d)) \in Seq(Seq(Sign)) /\ Len(Each(Append(s, d))) = Len(s) + 1
        /\ Append(Each(s), Written(c, d)) \in Seq(Seq(Sign))
        /\ Len(Append(Each(s), Written(c, d))) = Len(s) + 1
    <3> HIDE DEF Each
    <3>1. Each(Append(s, d)) \in Seq(Seq(Sign)) /\ Len(Each(Append(s, d))) = Len(s) + 1
      BY <1>3, <2>1
    <3>2. Each(s) \in Seq(Seq(Sign)) /\ Len(Each(s)) = Len(s)
      BY <1>3
    <3>3. /\ Append(Each(s), Written(c, d)) \in Seq(Seq(Sign))
          /\ Len(Append(Each(s), Written(c, d))) = Len(Each(s)) + 1
      BY <2>2, <3>2, Appended
    <3>. QED  BY <3>1, <3>2, <3>3
  <2> HIDE DEF Each
  <2>. QED  BY <2>3, <2>4, SeqEqual
<1> HIDE DEF Each
<1>5. \A d \in Sign : Written(c, d) \in Seq(Sign)
  BY DEF Written
<1>6. ASSUME NEW s \in Seq(Sign), NEW d \in Sign
      PROVE  /\ Wire!Double(c, s) \in Seq(Sign)
             /\ Wire!Double(c, Append(s, d)) = Wire!Double(c, s) \o Written(c, d)
  <2>1. Each(s) \in Seq(Seq(Sign)) /\ Written(c, d) \in Seq(Sign)
    BY <1>3, <1>5
  <2>2. Wire!Double(c, Append(s, d)) = Wire!Text(Append(Each(s), Written(c, d)))
    BY <1>1, <1>4
  <2>. QED  BY <1>1, <2>1, <2>2, TextMore
<1>7. Wire!Double(c, << >>) = << >>
  BY <1>1, <1>2, TextMore
<1>. QED  BY <1>6, <1>7

LEMMA WrittenOn ==
  ASSUME Backslash \in Sign, NEW c \in Sign, NEW s \in Seq(Sign), NEW d \in Sign
  PROVE  s \o Written(c, d) = IF d = c THEN Append(Append(s, Backslash), c) ELSE Append(s, d)
<1>1. s \o <<Backslash, c>> = Append(Append(s, Backslash), c)
  OBVIOUS
<1>2. s \o <<d>> = Append(s, d)
  OBVIOUS
<1>. QED  BY <1>1, <1>2 DEF Written

LEMMA DoubleAppend ==
  ASSUME Backslash \in Sign, NEW c \in Sign, NEW s \in Seq(Sign), NEW d \in Sign
  PROVE  /\ Wire!Double(c, s) \in Seq(Sign)
         /\ d = c => Wire!Double(c, Append(s, d)) = Append(Append(Wire!Double(c, s), Backslash), c)
         /\ d # c => Wire!Double(c, Append(s, d)) = Append(Wire!Double(c, s), d)
<1>1. /\ Wire!Double(c, s) \in Seq(Sign)
      /\ Wire!Double(c, Append(s, d)) = Wire!Double(c, s) \o Written(c, d)
  BY DoubleMore
<1> DEFINE x == Wire!Double(c, s)
<1>2. x \o Written(c, d) = IF d = c THEN Append(Append(x, Backslash), c) ELSE Append(x, d)
  <2> HIDE DEF x
  <2>1. x \in Seq(Sign)
    BY <1>1 DEF x
  <2>. QED  BY <2>1, WrittenOn
<1>. QED  BY <1>1, <1>2

(* Pairs of c are written and read back.                                   *)
LEMMA DoubledHalved ==
  ASSUME Backslash \in Sign, NEW c \in Sign, NEW u \in Seq(Sign)
  PROVE  Wire!Halve(c, Wire!Double(c, u)) = u
<1> DEFINE Opens(s) == s # << >> /\ s[Len(s)] = Backslash
           state(s) == [out |-> s, open |-> c # Backslash /\ Opens(s)]
           good == {s \in Seq(Sign) : Halving(c, Wire!Double(c, s)) = state(s)}
<1>1. << >> \in good
  <2>1. Halving(c, Wire!Double(c, << >>)) = [out |-> << >>, open |-> FALSE]
    BY DoubleMore, HalvingMore DEF Start
  <2>2. << >> \in Seq(Sign) /\ ~Opens(<< >>)
    OBVIOUS
  <2>3. state(<< >>) = [out |-> << >>, open |-> FALSE]
    BY <2>2
  <2>. QED  BY <2>1, <2>2, <2>3
<1>2. ASSUME NEW s \in Seq(Sign), NEW d \in Sign, s \in good
      PROVE  Append(s, d) \in good
  <2> DEFINE x == Wire!Double(c, s)
             t == Append(s, d)
  <2>1. /\ x \in Seq(Sign) /\ Halving(c, x) = state(s)
        /\ d = c => Wire!Double(c, t) = Append(Append(x, Backslash), c)
        /\ d # c => Wire!Double(c, t) = Append(x, d)
    BY <1>2, DoubleAppend
  <2>2. t \in Seq(Sign) /\ t # << >> /\ t[Len(t)] = d /\ (Opens(t) <=> d = Backslash)
    BY FrontAppend
  <2>3. \A e \in Sign : Append(s, e) \in Seq(Sign) /\ Wire!Front(Append(s, e)) = s
    BY FrontAppend
  <2>4. CASE d = c
    <3> HIDE DEF x
    <3>1. Append(x, Backslash) \in Seq(Sign)
      BY <2>1
    <3>2. Halving(c, Append(x, Backslash)) = Paired(c, state(s), Backslash)
      BY <2>1, HalvingMore
    <3>3. Paired(c, state(s), Backslash) = [out |-> Append(s, Backslash), open |-> TRUE]
      BY DEF Paired
    <3>4. Halving(c, Append(Append(x, Backslash), c))
            = Paired(c, [out |-> Append(s, Backslash), open |-> TRUE], c)
      <4>1. Halving(c, Append(Append(x, Backslash), c))
              = Paired(c, Halving(c, Append(x, Backslash)), c)
        BY <3>1, HalvingMore
      <4>. QED  BY <3>2, <3>3, <4>1, Zenon
    <3>5. Paired(c, [out |-> Append(s, Backslash), open |-> TRUE], c)
            = [out |-> Append(s, c), open |-> FALSE]
      BY <2>3 DEF Paired
    <3>6. state(t) = [out |-> Append(s, c), open |-> FALSE]
      BY <2>2, <2>4
    <3>. QED  BY <2>1, <2>2, <2>4, <3>4, <3>5, <3>6 DEF x
  <2>5. CASE d # c
    <3>1. Halving(c, Append(x, d)) = Paired(c, state(s), d)
      <4> HIDE DEF x
      <4>. QED  BY <2>1, HalvingMore
    <3>2. Paired(c, state(s), d) = [out |-> Append(s, d), open |-> d = Backslash]
      BY <2>5 DEF Paired
    <3>3. state(t) = [out |-> Append(s, d), open |-> d = Backslash]
      BY <2>2, <2>5
    <3> HIDE DEF x
    <3>. QED  BY <2>1, <2>2, <2>5, <3>1, <3>2, <3>3
  <2>. QED  BY <2>4, <2>5
<1>3. u \in good
  <2> HIDE DEF good
  <2>. QED  BY <1>1, <1>2, ByPrefix
<1>4. Halving(c, Wire!Double(c, u)).out = u
  BY <1>3
<1>. QED  BY <1>4, Halves

LEMMA EscapedBack ==
  ASSUME Wire!PacketAssumption, NEW u \in Seq(Sign)
  PROVE  Wire!escape_data(u) \in Seq(Sign) /\ Wire!unescape_data(Wire!escape_data(u)) = u
<1>1. Backslash \in Sign /\ Slash \in Sign
  BY DEF Wire!PacketAssumption, Sign
<1>2. Wire!Double(Backslash, u) \in Seq(Sign)
  BY <1>1, DoubleMore
<1>3. Wire!Double(Slash, Wire!Double(Backslash, u)) \in Seq(Sign)
  BY <1>1, <1>2, DoubleMore
<1>4. Wire!Halve(Slash, Wire!Double(Slash, Wire!Double(Backslash, u))) = Wire!Double(Backslash, u)
  BY <1>1, <1>2, DoubledHalved
<1>5. Wire!Halve(Backslash, Wire!Double(Backslash, u)) = u
  BY <1>1, DoubledHalved
<1>. QED  BY <1>3, <1>4, <1>5 DEF Wire!escape_data, Wire!unescape_data

-----------------------------------------------------------------------------
(* The escaped data have the size that total_size says.                    *)
LEMMA EscapedSize ==
  ASSUME Wire!PacketAssumption, NEW u \in Seq(Sign)
  PROVE  Len(Wire!escape_data(u)) = Wire!total_size(u) /\ Wire!total_size(u) \in Nat
<1> DEFINE good == {s \in Seq(Sign) : Len(Wire!escape_data(s)) = Wire!total_size(s)}
<1>1. Backslash \in Sign /\ Slash \in Sign /\ Backslash # Slash
  BY DEF Wire!PacketAssumption, Sign
<1>2. << >> \in good
  <2>1. Wire!escape_data(<< >>) = << >>
    BY <1>1, DoubleMore DEF Wire!escape_data
  <2>. QED  BY <2>1, SizeMore
<1>3. ASSUME NEW s \in Seq(Sign), NEW d \in Sign, s \in good
      PROVE  Append(s, d) \in good
  <2> DEFINE y == Wire!Double(Backslash, s)
             x == Wire!Double(Slash, y)
  <2>1. y \in Seq(Sign) /\ x \in Seq(Sign) /\ Len(x) \in Nat /\ Wire!escape_data(s) = x
    <3>1. y \in Seq(Sign)
      BY <1>1, DoubleMore
    <3> HIDE DEF y
    <3>2. x \in Seq(Sign)
      BY <1>1, <3>1, DoubleMore
    <3>. QED  BY <3>1, <3>2 DEF Wire!escape_data, y
  <2>2. /\ d = Backslash => Wire!Double(Backslash, Append(s, d)) = Append(Append(y, Backslash), Backslash)
        /\ d # Backslash => Wire!Double(Backslash, Append(s, d)) = Append(y, d)
    BY <1>1, DoubleAppend
  <2>3. Append(y, Backslash) \in Seq(Sign) /\ Append(y, d) \in Seq(Sign)
    BY <1>1, <2>1
  <2> HIDE DEF y
  <2>4. /\ d = Backslash => Wire!Double(Slash, Append(Append(y, Backslash), Backslash))
                              = Append(Append(x, Backslash), Backslash)
        /\ d = Slash => Wire!Double(Slash, Append(y, d)) = Append(Append(x, Backslash), Slash)
        /\ d \notin {Slash, Backslash} => Wire!Double(Slash, Append(y, d)) = Append(x, d)
    <3>1. CASE d = Backslash
      <4>1. Wire!Double(Slash, Append(y, Backslash)) = Append(x, Backslash)
        BY <1>1, <2>1, DoubleAppend
      <4>2. Wire!Double(Slash, Append(Append(y, Backslash), Backslash))
              = Append(Wire!Double(Slash, Append(y, Backslash)), Backslash)
        BY <1>1, <2>3, DoubleAppend
      <4>. QED  BY <1>1, <3>1, <4>1, <4>2
    <3>2. CASE d # Backslash
      BY <1>1, <2>1, <3>2, DoubleAppend
    <3>. QED  BY <3>1, <3>2
  <2>5. /\ d \in {Slash, Backslash} => Wire!escape_data(Append(s, d)) = Append(Append(x, Backslash), d)
        /\ d \notin {Slash, Backslash} => Wire!escape_data(Append(s, d)) = Append(x, d)
    BY <1>1, <2>2, <2>4 DEF Wire!escape_data
  <2> HIDE DEF x
  <2>6. /\ Len(Append(x, d)) = Len(x) + 1
        /\ Len(Append(Append(x, Backslash), d)) = Len(x) + 2
    BY <1>1, <2>1
  <2>7. Len(Wire!escape_data(Append(s, d))) = Len(x) + Wire!char_size(d)
    BY <2>5, <2>6 DEF Wire!char_size, Wire!Special
  <2>8. Wire!total_size(Append(s, d)) = Len(x) + Wire!char_size(d)
    BY <1>3, <2>1, SizeMore
  <2>. QED  BY <2>7, <2>8
<1>4. u \in good
  <2> HIDE DEF good
  <2>. QED  BY <1>2, <1>3, ByPrefix
<1>. QED  BY <1>4, SizeMore

(* What Halve has read so far is not longer than what Double makes of what *)
(* it has written, and is the same if it is as long.                       *)
Fits(x, y) == Len(x) <= Len(y) /\ (Len(x) = Len(y) => y = x)
Back(c, h) ==
  IF h.open /\ c = Backslash THEN Append(Wire!Double(c, Wire!Front(h.out)), Backslash)
  ELSE Wire!Double(c, h.out)

LEMMA FitsMore ==
  ASSUME NEW x \in Seq(Sign), NEW y \in Seq(Sign), NEW d \in Sign, Fits(x, y)
  PROVE  /\ Fits(Append(x, d), Append(y, d))
         /\ \A e, f \in Sign : Fits(Append(x, d), Append(Append(y, e), f))
<1>1. Len(x) \in Nat /\ Len(y) \in Nat /\ Len(Append(x, d)) = Len(x) + 1 /\ Len(Append(y, d)) = Len(y) + 1
  OBVIOUS
<1>2. \A e, f \in Sign : Len(Append(Append(y, e), f)) = Len(y) + 2
  OBVIOUS
<1>. QED  BY <1>1, <1>2 DEF Fits

LEMMA BackMore ==
  ASSUME Backslash \in Sign, NEW c \in Sign, NEW h \in Opened, NEW d \in Sign
  PROVE  /\ Back(c, h) \in Seq(Sign)
         /\ \/ Back(c, Paired(c, h, d)) = Append(Back(c, h), d)
            \/ \E e, f \in Sign : Back(c, Paired(c, h, d)) = Append(Append(Back(c, h), e), f)
<1> DEFINE w == h.out
           v == Wire!Front(w)
           k == Paired(c, h, d)
<1>1. w \in Seq(Sign) /\ h.open \in BOOLEAN /\ Wire!Double(c, w) \in Seq(Sign)
  BY DoubleMore DEF Opened
<1>2. h.open => /\ v \in Seq(Sign) /\ w = Append(v, Backslash)
                /\ Wire!Double(c, v) \in Seq(Sign)
  <2>1. h.open => w # << >> /\ w[Len(w)] = Backslash
    BY DEF Opened
  <2>2. h.open => v \in Seq(Sign) /\ w = Append(v, Backslash)
    BY <1>1, <2>1, FrontFacts
  <2> HIDE DEF v, w
  <2>. QED  BY <2>2, DoubleMore
<1>3. Append(w, d) \in Seq(Sign) /\ Wire!Front(Append(w, d)) = w
  BY <1>1, FrontAppend
<1>4. /\ d = c => Wire!Double(c, Append(w, d)) = Append(Append(Wire!Double(c, w), Backslash), c)
      /\ d # c => Wire!Double(c, Append(w, d)) = Append(Wire!Double(c, w), d)
  BY <1>1, DoubleAppend
<1>5. h.open => /\ Wire!Double(c, Append(v, c)) = Append(Append(Wire!Double(c, v), Backslash), c)
                /\ c # Backslash => Wire!Double(c, w) = Append(Wire!Double(c, v), Backslash)
                /\ c = Backslash => Wire!Double(c, w)
                                      = Append(Append(Wire!Double(c, v), Backslash), Backslash)
  <2> SUFFICES ASSUME h.open
               PROVE  /\ Wire!Double(c, Append(v, c)) = Append(Append(Wire!Double(c, v), Backslash), c)
                      /\ c # Backslash => Wire!Double(c, w) = Append(Wire!Double(c, v), Backslash)
                      /\ c = Backslash => Wire!Double(c, w)
                                            = Append(Append(Wire!Double(c, v), Backslash), Backslash)
    OBVIOUS
  <2> HIDE DEF v, w
  <2>1. v \in Seq(Sign) /\ w = Append(v, Backslash)
    BY <1>2
  <2>2. Wire!Double(c, Append(v, c)) = Append(Append(Wire!Double(c, v), Backslash), c)
    BY <2>1, DoubleAppend
  <2>3. c # Backslash => Wire!Double(c, Append(v, Backslash)) = Append(Wire!Double(c, v), Backslash)
    BY <2>1, DoubleAppend
  <2>. QED  BY <2>1, <2>2, <2>3
<1>6. Back(c, h) = IF h.open /\ c = Backslash THEN Append(Wire!Double(c, v), Backslash)
                   ELSE Wire!Double(c, w)
  BY DEF Back
<1>7. Back(c, h) \in Seq(Sign)
  <2> HIDE DEF v, w
  <2>. QED  BY <1>1, <1>2, <1>6
<1>8. CASE h.open /\ d = c
  <2>1. k.open = FALSE /\ k.out = Append(v, c)
    BY <1>8 DEF Paired
  <2>2. Back(c, k) = Wire!Double(c, Append(v, c))
    BY <2>1 DEF Back
  <2> HIDE DEF v, w, k
  <2>3. Back(c, k) = Append(Back(c, h), d)
    BY <1>5, <1>6, <1>8, <2>2
  <2>. QED  BY <1>7, <2>3 DEF k
<1>9. CASE ~(h.open /\ d = c)
  <2>1. k.open = (d = Backslash) /\ k.out = Append(w, d)
    BY <1>9 DEF Paired
  <2>2. Back(c, k) = IF d = Backslash /\ c = Backslash THEN Append(Wire!Double(c, w), Backslash)
                     ELSE Wire!Double(c, Append(w, d))
    BY <1>3, <2>1 DEF Back
  <2> HIDE DEF v, w, k
  <2>3. CASE d = c /\ c = Backslash
    <3>1. Back(c, k) = Append(Back(c, h), d)
      BY <1>6, <1>9, <2>2, <2>3
    <3>. QED  BY <1>7, <3>1 DEF k
  <2>4. CASE d = c /\ c # Backslash
    <3>1. Back(c, k) = Append(Append(Back(c, h), Backslash), c)
      BY <1>4, <1>6, <2>2, <2>4
    <3>. QED  BY <1>7, <3>1 DEF k
  <2>5. CASE d # c /\ ~(h.open /\ c = Backslash)
    <3>1. Back(c, k) = Append(Back(c, h), d)
      BY <1>4, <1>6, <2>2, <2>5
    <3>. QED  BY <1>7, <3>1 DEF k
  <2>6. CASE d # c /\ h.open /\ c = Backslash
    <3>1. Back(c, k) = Append(Append(Back(c, h), Backslash), d)
      BY <1>4, <1>5, <1>6, <2>2, <2>6
    <3>. QED  BY <1>7, <3>1 DEF k
  <2>. QED  BY <2>3, <2>4, <2>5, <2>6
<1>. QED  BY <1>8, <1>9

LEMMA HalvedFits ==
  ASSUME Backslash \in Sign, NEW c \in Sign, NEW x \in Seq(Sign)
  PROVE  /\ Wire!Halve(c, x) \in Seq(Sign)
         /\ Fits(x, Wire!Double(c, Wire!Halve(c, x)))
<1> DEFINE good == {s \in Seq(Sign) : Fits(s, Back(c, Halving(c, s)))}
<1>1. << >> \in good
  <2>1. Back(c, Halving(c, << >>)) = << >>
    BY DoubleMore, HalvingMore DEF Start, Back
  <2>2. << >> \in Seq(Sign) /\ Fits(<< >>, << >>)
    BY DEF Fits
  <2>. QED  BY <2>1, <2>2
<1>2. ASSUME NEW s \in Seq(Sign), NEW d \in Sign, s \in good
      PROVE  Append(s, d) \in good
  <2> DEFINE h == Halving(c, s)
  <2>1. h \in Opened /\ Halving(c, Append(s, d)) = Paired(c, h, d)
    BY HalvingMore
  <2>2. Fits(s, Back(c, h)) /\ Append(s, d) \in Seq(Sign)
    BY <1>2
  <2> HIDE DEF h
  <2>3. Fits(Append(s, d), Back(c, Paired(c, h, d)))
    <3> DEFINE y == Back(c, h)
               z == Back(c, Paired(c, h, d))
    <3>1. y \in Seq(Sign) /\ (z = Append(y, d) \/ \E e, f \in Sign : z = Append(Append(y, e), f))
      BY <2>1, BackMore
    <3>2. Fits(s, y)
      BY <2>2
    <3> HIDE DEF y, z
    <3>3. /\ Fits(Append(s, d), Append(y, d))
          /\ \A e, f \in Sign : Fits(Append(s, d), Append(Append(y, e), f))
      BY <3>1, <3>2, FitsMore
    <3>4. Fits(Append(s, d), z)
      BY <3>1, <3>3
    <3>. QED  BY <3>4 DEF z
  <2>. QED  BY <2>1, <2>2, <2>3
<1>3. x \in good
  <2> HIDE DEF good
  <2>. QED  BY <1>1, <1>2, ByPrefix
<1> DEFINE h == Halving(c, x)
           w == h.out
           v == Wire!Front(w)
<1>4. /\ h \in Opened /\ w \in Seq(Sign) /\ h.open \in BOOLEAN /\ Wire!Halve(c, x) = w
      /\ h.open => w # << >> /\ w[Len(w)] = Backslash
  BY HalvingMore, Halves DEF Opened
<1>5. Fits(x, Back(c, h)) /\ Wire!Double(c, w) \in Seq(Sign)
  BY <1>3, <1>4, DoubleMore
<1> HIDE DEF h
<1>6. CASE ~(h.open /\ c = Backslash)
  BY <1>4, <1>5, <1>6 DEF Back
<1>7. CASE h.open /\ c = Backslash
  <2>1. v \in Seq(Sign) /\ w = Append(v, Backslash)
    BY <1>4, <1>7, FrontFacts
  <2>2. Back(c, h) = Append(Wire!Double(c, v), Backslash)
    BY <1>7 DEF Back
  <2> HIDE DEF w, v
  <2>3. /\ Wire!Double(c, w) = Append(Append(Wire!Double(c, v), Backslash), Backslash)
        /\ Wire!Double(c, v) \in Seq(Sign)
    BY <1>7, <2>1, DoubleAppend
  <2>4. /\ Len(Wire!Double(c, w)) = Len(Back(c, h)) + 1 /\ Len(Back(c, h)) \in Nat
        /\ Len(x) \in Nat
    <3> DEFINE y == Wire!Double(c, v)
    <3>1. y \in Seq(Sign)
      BY <2>3
    <3> HIDE DEF y
    <3>2. Len(Append(Append(y, Backslash), Backslash)) = Len(Append(y, Backslash)) + 1
      BY <3>1
    <3>3. Len(Append(y, Backslash)) \in Nat
      BY <3>1
    <3>. QED  BY <2>2, <2>3, <3>2, <3>3 DEF y
  <2>5. Fits(x, Wire!Double(c, w))
    BY <1>5, <2>4 DEF Fits
  <2>. QED  BY <1>4, <2>5 DEF w
<1>. QED  BY <1>6, <1>7

-----------------------------------------------------------------------------
(* Neither of the two replacements of backslashes changes how many slashes *)
(* there are.                                                              *)
Slashes(s) == Len(Wire!Double(Slash, s)) - Len(s)

LEMMA SlashesMore ==
  ASSUME Wire!PacketAssumption
  PROVE  /\ Slashes(<< >>) = 0
         /\ \A s \in Seq(Sign), d \in Sign :
              /\ Slashes(s) \in Int
              /\ Slashes(Append(s, d)) = Slashes(s) + (IF d = Slash THEN 1 ELSE 0)
<1>1. Backslash \in Sign /\ Slash \in Sign
  BY DEF Wire!PacketAssumption, Sign
<1>2. Slashes(<< >>) = 0
  BY <1>1, DoubleMore DEF Slashes
<1>3. ASSUME NEW s \in Seq(Sign), NEW d \in Sign
      PROVE  /\ Slashes(s) \in Int
             /\ Slashes(Append(s, d)) = Slashes(s) + (IF d = Slash THEN 1 ELSE 0)
  <2> DEFINE x == Wire!Double(Slash, s)
  <2>1. /\ x \in Seq(Sign)
        /\ d = Slash => Wire!Double(Slash, Append(s, d)) = Append(Append(x, Backslash), Slash)
        /\ d # Slash => Wire!Double(Slash, Append(s, d)) = Append(x, d)
    BY <1>1, DoubleAppend
  <2> HIDE DEF x
  <2>2. /\ Len(x) \in Nat /\ Len(s) \in Nat /\ Len(Append(s, d)) = Len(s) + 1
        /\ Len(Append(x, d)) = Len(x) + 1
        /\ Len(Append(Append(x, Backslash), Slash)) = Len(x) + 2
    BY <1>1, <2>1
  <2>3. Slashes(s) = Len(x) - Len(s)
    BY DEF Slashes, x
  <2>4. Slashes(Append(s, d)) = Len(Wire!Double(Slash, Append(s, d))) - Len(Append(s, d))
    BY DEF Slashes
  <2>. QED  BY <2>1, <2>2, <2>3, <2>4
<1>. QED  BY <1>2, <1>3

LEMMA DoubledSlashes ==
  ASSUME Wire!PacketAssumption, NEW u \in Seq(Sign)
  PROVE  Slashes(Wire!Double(Backslash, u)) = Slashes(u)
<1> DEFINE good == {s \in Seq(Sign) : Slashes(Wire!Double(Backslash, s)) = Slashes(s)}
<1>1. Backslash \in Sign /\ Slash \in Sign /\ Backslash # Slash
  BY DEF Wire!PacketAssumption, Sign
<1>2. << >> \in good
  BY <1>1, DoubleMore
<1>3. ASSUME NEW s \in Seq(Sign), NEW d \in Sign, s \in good
      PROVE  Append(s, d) \in good
  <2> DEFINE y == Wire!Double(Backslash, s)
  <2>1. /\ y \in Seq(Sign) /\ Slashes(y) = Slashes(s)
        /\ d = Backslash => Wire!Double(Backslash, Append(s, d))
                              = Append(Append(y, Backslash), Backslash)
        /\ d # Backslash => Wire!Double(Backslash, Append(s, d)) = Append(y, d)
    BY <1>1, <1>3, DoubleAppend
  <2> HIDE DEF y
  <2>2. Append(y, Backslash) \in Seq(Sign) /\ Append(s, d) \in Seq(Sign)
    BY <1>1, <2>1
  <2>3. /\ Slashes(s) \in Int
        /\ Slashes(Append(s, d)) = Slashes(s) + (IF d = Slash THEN 1 ELSE 0)
        /\ Slashes(Append(y, d)) = Slashes(y) + (IF d = Slash THEN 1 ELSE 0)
    BY <2>1, SlashesMore
  <2>4. Slashes(Append(Append(y, Backslash), Backslash)) = Slashes(y)
    <3>1. Slashes(Append(y, Backslash)) = Slashes(y) + 0 /\ Slashes(y) \in Int
      BY <1>1, <2>1, SlashesMore
    <3>2. Slashes(Append(Append(y, Backslash), Backslash)) = Slashes(Append(y, Backslash)) + 0
      BY <1>1, <2>2, SlashesMore
    <3>. QED  BY <3>1, <3>2
  <2>5. Slashes(Wire!Double(Backslash, Append(s, d))) = Slashes(Append(s, d))
    <3>1. CASE d = Backslash
      <4>1. Slashes(Append(s, d)) = Slashes(s)
        BY <1>1, <2>3, <3>1
      <4>. QED  BY <2>1, <2>4, <3>1, <4>1
    <3>2. CASE d # Backslash
      <4>1. Slashes(Append(y, d)) = Slashes(Append(s, d))
        BY <2>1, <2>3
      <4>. QED  BY <2>1, <3>2, <4>1
    <3>. QED  BY <3>1, <3>2
  <2>. QED  BY <2>2, <2>5
<1>4. u \in good
  <2> HIDE DEF good
  <2>. QED  BY <1>2, <1>3, ByPrefix
<1>. QED  BY <1>4

LEMMA HalvedSlashes ==
  ASSUME Wire!PacketAssumption, NEW x \in Seq(Sign)
  PROVE  Slashes(Wire!Halve(Backslash, x)) = Slashes(x)
<1> DEFINE good == {s \in Seq(Sign) : Slashes(Halving(Backslash, s).out) = Slashes(s)}
<1>1. Backslash \in Sign /\ Slash \in Sign /\ Backslash # Slash
  BY DEF Wire!PacketAssumption, Sign
<1>2. << >> \in good
  BY <1>1, HalvingMore DEF Start
<1>3. ASSUME NEW s \in Seq(Sign), NEW d \in Sign, s \in good
      PROVE  Append(s, d) \in good
  <2> DEFINE h == Halving(Backslash, s)
             w == h.out
  <2>1. h \in Opened /\ Halving(Backslash, Append(s, d)) = Paired(Backslash, h, d)
    BY <1>1, HalvingMore
  <2>2. /\ w \in Seq(Sign) /\ h.open \in BOOLEAN
        /\ h.open => w # << >> /\ w[Len(w)] = Backslash
    BY <2>1 DEF Opened
  <2>3. h.open => w = Append(Wire!Front(w), Backslash)
    BY <2>2, FrontFacts
  <2>4. /\ Slashes(s) \in Int
        /\ Slashes(Append(s, d)) = Slashes(s) + (IF d = Slash THEN 1 ELSE 0)
        /\ Slashes(Append(w, d)) = Slashes(w) + (IF d = Slash THEN 1 ELSE 0)
    BY <2>2, SlashesMore
  <2>5. CASE h.open /\ d = Backslash
    <3>1. Paired(Backslash, h, d).out = w
      BY <2>3, <2>5 DEF Paired
    <3>2. Slashes(w) = Slashes(s)
      BY <1>3
    <3> HIDE DEF w, h
    <3>. QED  BY <1>1, <2>1, <2>4, <2>5, <3>1, <3>2
  <2>6. CASE ~(h.open /\ d = Backslash)
    <3>1. Paired(Backslash, h, d).out = Append(w, d)
      BY <2>6 DEF Paired
    <3>2. Slashes(w) = Slashes(s)
      BY <1>3
    <3> HIDE DEF w, h
    <3>3. Slashes(Append(w, d)) = Slashes(Append(s, d))
      BY <2>4, <3>2
    <3>4. Slashes(Halving(Backslash, Append(s, d)).out) = Slashes(Append(s, d))
      BY <2>1, <3>1, <3>3
    <3>. QED  BY <3>4
  <2>. QED  BY <2>5, <2>6
<1>4. x \in good
  <2> HIDE DEF good
  <2>. QED  BY <1>2, <1>3, ByPrefix
<1>. QED  BY <1>4, Halves

(* Contents of the size of what was read from them are what that is        *)
(* written as: every slash and every backslash in them is escaped.         *)
LEMMA ReadEscaped ==
  ASSUME Wire!PacketAssumption, NEW content \in Seq(Sign), Wire!Valid(content)
  PROVE  /\ Wire!unescape_data(content) \in Seq(Sign)
         /\ Wire!escape_data(Wire!unescape_data(content)) = content
<1> DEFINE y == Wire!Halve(Slash, content)
           u == Wire!Halve(Backslash, y)
           z == Wire!Double(Backslash, u)
<1>1. Backslash \in Sign /\ Slash \in Sign
  BY DEF Wire!PacketAssumption, Sign
<1>2. y \in Seq(Sign) /\ Fits(content, Wire!Double(Slash, y))
  BY <1>1, HalvedFits
<1>3. Wire!unescape_data(content) = u
  BY DEF Wire!unescape_data
<1> HIDE DEF y
<1>4. u \in Seq(Sign) /\ Fits(y, z) /\ Slashes(u) = Slashes(y)
  BY <1>1, <1>2, HalvedFits, HalvedSlashes
<1> HIDE DEF u
<1>5. z \in Seq(Sign) /\ Slashes(z) = Slashes(u)
  BY <1>1, <1>4, DoubleMore, DoubledSlashes
<1>6. Wire!escape_data(u) = Wire!Double(Slash, z)
  BY DEF Wire!escape_data
<1> HIDE DEF z
<1>7. Len(Wire!Double(Slash, z)) = Len(content)
  BY <1>3, <1>4, <1>6, EscapedSize DEF Wire!Valid
<1>8. /\ Len(Wire!Double(Slash, z)) \in Nat /\ Len(Wire!Double(Slash, y)) \in Nat
      /\ Len(content) \in Nat /\ Len(y) \in Nat /\ Len(z) \in Nat
  <2>1. Wire!Double(Slash, z) \in Seq(Sign) /\ Wire!Double(Slash, y) \in Seq(Sign)
    BY <1>1, <1>2, <1>5, DoubleMore
  <2>. QED  BY <1>2, <1>5, <2>1
<1>9. Len(Wire!Double(Slash, y)) - Len(y) = Len(Wire!Double(Slash, z)) - Len(z)
  BY <1>4, <1>5 DEF Slashes
<1>10. Len(content) <= Len(Wire!Double(Slash, y)) /\ Len(y) <= Len(z)
  BY <1>2, <1>4 DEF Fits
<1>11. Len(y) = Len(z) /\ Len(content) = Len(Wire!Double(Slash, y))
  BY <1>7, <1>8, <1>9, <1>10
<1>12. y = z /\ Wire!Double(Slash, y) = content
  BY <1>2, <1>4, <1>11 DEF Fits
<1>. QED  BY <1>3, <1>4, <1>6, <1>12

LEMMA Signs ==
  ASSUME Wire!PacketAssumption
  PROVE  /\ Slash \in Sign /\ Backslash \in Sign /\ ConnectWord \in Sign /\ DataWord \in Sign
         /\ AckWord \in Sign /\ CloseWord \in Sign /\ \A n \in Nat : n \in Sign
         /\ \A s \in Seq(Char) : s \in Seq(Sign)
<1>1. \A s \in Seq(Char) : s \in Seq(Sign)
  <2>1. Char \subseteq Sign
    BY DEF Sign
  <2> SUFFICES ASSUME NEW s \in Seq(Char) PROVE s \in Seq(Sign)
    OBVIOUS
  <2>2. Len(s) \in Nat /\ s \in [1..Len(s) -> Char]
    OBVIOUS
  <2>3. s \in [1..Len(s) -> Sign]
    BY <2>1, <2>2
  <2>. QED  BY <2>2, <2>3
<1>. QED  BY <1>1 DEF Wire!PacketAssumption, Sign

(* Part by part, what serialize encloses in slashes.                       *)
LEMMA EnclosedMore ==
  ASSUME Wire!PacketAssumption
  PROVE  /\ Wire!Enclosed(<< >>) = <<Slash>>
         /\ \A parts \in Seq(Seq(Sign)), part \in Seq(Sign) :
              /\ Wire!Enclosed(parts) \in Seq(Sign)
              /\ Wire!Enclosed(Append(parts, part)) = Wire!Enclosed(parts) \o Append(part, Slash)
<1> DEFINE Each(parts) == [i \in DOMAIN parts |-> Append(parts[i], Slash)]
<1>1. \A parts : Wire!Enclosed(parts) = <<Slash>> \o Wire!Text(Each(parts))
  BY DEF Wire!Enclosed
<1>2. Wire!Enclosed(<< >>) = <<Slash>>
  <2>1. Each(<< >>) = << >>
    OBVIOUS
  <2>2. <<Slash>> \o << >> = <<Slash>>
    OBVIOUS
  <2> HIDE DEF Each
  <2>. QED  BY <1>1, <2>1, <2>2, TextMore
<1>3. ASSUME NEW parts \in Seq(Seq(Sign))
      PROVE  Each(parts) \in Seq(Seq(Sign)) /\ Len(Each(parts)) = Len(parts)
  <2>1. DOMAIN parts = 1..Len(parts) /\ Len(parts) \in Nat
    OBVIOUS
  <2>2. ASSUME NEW i \in 1..Len(parts)
        PROVE  Append(parts[i], Slash) \in Seq(Sign)
    <3>1. parts[i] \in Seq(Sign)
      OBVIOUS
    <3>. QED  BY <3>1, Signs
  <2>3. Each(parts) \in [1..Len(parts) -> Seq(Sign)]
    BY <2>1, <2>2
  <2> HIDE DEF Each
  <2>. QED  BY <2>1, <2>3
<1>4. ASSUME NEW parts \in Seq(Seq(Sign)), NEW part \in Seq(Sign)
      PROVE  /\ Append(part, Slash) \in Seq(Sign)
             /\ Each(Append(parts, part)) = Append(Each(parts), Append(part, Slash))
  <2> DEFINE more == Append(parts, part)
             last == Append(part, Slash)
  <2>1. /\ more \in Seq(Seq(Sign)) /\ Len(more) = Len(parts) + 1 /\ Len(parts) \in Nat
        /\ more[Len(parts) + 1] = part /\ \A i \in 1..Len(parts) : more[i] = parts[i]
    BY Appended
  <2>2. last \in Seq(Sign)
    BY Signs
  <2>3. DOMAIN more = 1..(Len(parts) + 1) /\ DOMAIN parts = 1..Len(parts)
    BY <2>1
  <2> HIDE DEF more
  <2>4. ASSUME NEW i \in 1..(Len(parts) + 1)
        PROVE  Each(more)[i] = Append(Each(parts), last)[i]
    <3>1. Each(more)[i] = Append(more[i], Slash)
      BY <2>3
    <3>2. CASE i \in 1..Len(parts)
      <4>1. Each(parts)[i] = Append(parts[i], Slash)
        BY <2>3, <3>2
      <4>2. Append(Each(parts), last)[i] = Each(parts)[i]
        <5> HIDE DEF Each
        <5>. QED  BY <1>3, <2>2, <3>2, Appended
      <4>. QED  BY <2>1, <3>1, <3>2, <4>1, <4>2
    <3>3. CASE i = Len(parts) + 1
      <4>1. Append(Each(parts), last)[i] = last
        <5> HIDE DEF Each
        <5>. QED  BY <1>3, <2>2, <3>3, Appended
      <4>. QED  BY <2>1, <3>1, <3>3, <4>1
    <3>. QED  BY <2>1, <3>2, <3>3
  <2>5. /\ Each(more) \in Seq(Seq(Sign)) /\ Len(Each(more)) = Len(parts) + 1
        /\ Append(Each(parts), last) \in Seq(Seq(Sign))
        /\ Len(Append(Each(parts), last)) = Len(parts) + 1
    <3> HIDE DEF Each
    <3>1. Each(more) \in Seq(Seq(Sign)) /\ Len(Each(more)) = Len(parts) + 1
      BY <1>3, <2>1
    <3>2. Each(parts) \in Seq(Seq(Sign)) /\ Len(Each(parts)) = Len(parts)
      BY <1>3
    <3>. QED  BY <2>2, <3>1, <3>2, Appended
  <2> HIDE DEF Each
  <2>6. Each(more) = Append(Each(parts), last)
    BY <2>4, <2>5, SeqEqual
  <2>. QED  BY <2>2, <2>6 DEF more
<1> HIDE DEF Each
<1>5. ASSUME NEW parts \in Seq(Seq(Sign)), NEW part \in Seq(Sign)
      PROVE  /\ Wire!Enclosed(parts) \in Seq(Sign)
             /\ Wire!Enclosed(Append(parts, part)) = Wire!Enclosed(parts) \o Append(part, Slash)
  <2> DEFINE last == Append(part, Slash)
             inside == Wire!Text(Each(parts))
  <2>1. Each(parts) \in Seq(Seq(Sign)) /\ last \in Seq(Sign)
    BY <1>3, <1>4
  <2>2. /\ inside \in Seq(Sign)
        /\ Wire!Text(Each(Append(parts, part))) = inside \o last
    <3>1. Each(Append(parts, part)) = Append(Each(parts), last)
      BY <1>4
    <3> HIDE DEF last
    <3>. QED  BY <2>1, <3>1, TextMore
  <2> HIDE DEF last, inside
  <2>3. <<Slash>> \in Seq(Sign)
    BY Signs
  <2>4. <<Slash>> \o (inside \o last) = (<<Slash>> \o inside) \o last
    BY <2>1, <2>2, <2>3
  <2>5. <<Slash>> \o inside \in Seq(Sign)
    BY <2>2, <2>3
  <2>. QED  BY <1>1, <2>2, <2>4, <2>5 DEF last, inside
<1>. QED  BY <1>2, <1>5

LEMMA TwoMore ==
  ASSUME NEW s \in Seq(Sign), NEW d \in Sign, NEW e \in Sign
  PROVE  s \o Append(<<d>>, e) = Append(Append(s, d), e)
<1>1. <<d, e>> = Append(<<d>>, e)
  OBVIOUS
<1>2. s \o <<d, e>> = Append(Append(s, d), e)
  OBVIOUS
<1>. QED  BY <1>1, <1>2

(* The packets.                                                            *)
LEMMA Packets ==
  ASSUME Wire!PacketAssumption
  PROVE  /\ \A a, b \in Sign : Wire!Enclosed(<<<<a>>, <<b>>>>) = <<Slash, a, Slash, b, Slash>>
         /\ \A a, b, c \in Sign :
              Wire!Enclosed(<<<<a>>, <<b>>, <<c>>>>) = <<Slash, a, Slash, b, Slash, c, Slash>>
         /\ \A a, b, c \in Sign, content \in Seq(Sign) :
              Wire!Enclosed(<<<<a>>, <<b>>, <<c>>, content>>)
                = <<Slash, a, Slash, b, Slash, c, Slash>> \o Append(content, Slash)
<1>1. ASSUME NEW a \in Sign, NEW b \in Sign
      PROVE  /\ <<<<a>>, <<b>>>> \in Seq(Seq(Sign))
             /\ Wire!Enclosed(<<<<a>>, <<b>>>>) = <<Slash, a, Slash, b, Slash>>
  <2>1. /\ << >> \in Seq(Seq(Sign)) /\ <<a>> \in Seq(Sign) /\ <<b>> \in Seq(Sign)
        /\ <<<<a>>>> \in Seq(Seq(Sign)) /\ <<<<a>>, <<b>>>> \in Seq(Seq(Sign))
        /\ <<<<a>>>> = Append(<< >>, <<a>>) /\ <<<<a>>, <<b>>>> = Append(<<<<a>>>>, <<b>>)
    OBVIOUS
  <2>2. Wire!Enclosed(<<<<a>>>>) = <<Slash>> \o Append(<<a>>, Slash)
    BY <2>1, EnclosedMore
  <2>3. Wire!Enclosed(<<<<a>>, <<b>>>>) = (<<Slash>> \o Append(<<a>>, Slash)) \o Append(<<b>>, Slash)
    BY <2>1, <2>2, EnclosedMore
  <2>4. <<Slash>> \o Append(<<a>>, Slash) = <<Slash, a, Slash>>
    <3>1. <<Slash, a>> = Append(<<Slash>>, a) /\ <<Slash, a, Slash>> = Append(<<Slash, a>>, Slash)
      OBVIOUS
    <3>2. <<Slash>> \in Seq(Sign)
      BY Signs
    <3>3. <<Slash>> \o Append(<<a>>, Slash) = Append(Append(<<Slash>>, a), Slash)
      BY <3>2, Signs, TwoMore
    <3>. QED  BY <3>1, <3>3, Zenon
  <2>5. <<Slash, a, Slash>> \o Append(<<b>>, Slash) = <<Slash, a, Slash, b, Slash>>
    <3>1. /\ <<Slash, a, Slash, b>> = Append(<<Slash, a, Slash>>, b)
          /\ <<Slash, a, Slash, b, Slash>> = Append(<<Slash, a, Slash, b>>, Slash)
      OBVIOUS
    <3>2. <<Slash, a, Slash>> \in Seq(Sign)
      BY Signs
    <3>3. <<Slash, a, Slash>> \o Append(<<b>>, Slash) = Append(Append(<<Slash, a, Slash>>, b), Slash)
      BY <3>2, Signs, TwoMore
    <3>. QED  BY <3>1, <3>3, Zenon
  <2>. QED  BY <2>1, <2>3, <2>4, <2>5
<1>2. ASSUME NEW a \in Sign, NEW b \in Sign, NEW c \in Sign
      PROVE  /\ <<<<a>>, <<b>>, <<c>>>> \in Seq(Seq(Sign))
             /\ Wire!Enclosed(<<<<a>>, <<b>>, <<c>>>>) = <<Slash, a, Slash, b, Slash, c, Slash>>
  <2>1. /\ <<<<a>>, <<b>>>> \in Seq(Seq(Sign)) /\ <<c>> \in Seq(Sign)
        /\ <<<<a>>, <<b>>, <<c>>>> \in Seq(Seq(Sign))
        /\ <<<<a>>, <<b>>, <<c>>>> = Append(<<<<a>>, <<b>>>>, <<c>>)
    OBVIOUS
  <2>2. Wire!Enclosed(<<<<a>>, <<b>>, <<c>>>>) = <<Slash, a, Slash, b, Slash>> \o Append(<<c>>, Slash)
    BY <1>1, <2>1, EnclosedMore
  <2>3. <<Slash, a, Slash, b, Slash>> \o Append(<<c>>, Slash) = <<Slash, a, Slash, b, Slash, c, Slash>>
    <3>1. /\ <<Slash, a, Slash, b, Slash, c>> = Append(<<Slash, a, Slash, b, Slash>>, c)
          /\ <<Slash, a, Slash, b, Slash, c, Slash>> = Append(<<Slash, a, Slash, b, Slash, c>>, Slash)
      OBVIOUS
    <3>2. <<Slash, a, Slash, b, Slash>> \in Seq(Sign)
      BY Signs
    <3>3. <<Slash, a, Slash, b, Slash>> \o Append(<<c>>, Slash) = Append(Append(<<Slash, a, Slash, b, Slash>>, c), Slash)
      BY <3>2, Signs, TwoMore
    <3>. QED  BY <3>1, <3>3, Zenon
  <2>. QED  BY <2>1, <2>2, <2>3
<1>3. ASSUME NEW a \in Sign, NEW b \in Sign, NEW c \in Sign, NEW content \in Seq(Sign)
      PROVE  Wire!Enclosed(<<<<a>>, <<b>>, <<c>>, content>>)
               = <<Slash, a, Slash, b, Slash, c, Slash>> \o Append(content, Slash)
  <2>1. /\ <<<<a>>, <<b>>, <<c>>>> \in Seq(Seq(Sign))
        /\ <<<<a>>, <<b>>, <<c>>, content>> = Append(<<<<a>>, <<b>>, <<c>>>>, content)
    OBVIOUS
  <2>. QED  BY <1>2, <2>1, EnclosedMore
<1>. QED  BY <1>1, <1>2, <1>3

LEMMA Joined ==
  ASSUME NEW s \in Seq(Sign), NEW t \in Seq(Sign)
  PROVE  /\ s \o t \in Seq(Sign) /\ Len(s \o t) = Len(s) + Len(t)
         /\ \A i \in 1..Len(s) : (s \o t)[i] = s[i]
         /\ \A i \in 1..Len(t) : (s \o t)[Len(s) + i] = t[i]
OBVIOUS

(* Between the head of a packet of data and its last slash is the content. *)
Framed(a, b, c, content) == <<Slash, a, Slash, b, Slash, c, Slash>> \o Append(content, Slash)

Frames(packet, a, b, c, content) ==
  /\ packet \in Seq(Sign) /\ Len(packet) = 8 + Len(content) /\ Len(content) \in Nat
  /\ packet[1] = Slash /\ packet[2] = a /\ packet[3] = Slash /\ packet[4] = b
  /\ packet[5] = Slash /\ packet[6] = c /\ packet[7] = Slash
  /\ \A i \in 1..Len(content) : packet[7 + i] = content[i]
  /\ packet[8 + Len(content)] = Slash

LEMMA SevenMore ==
  \A l \in Nat : \A k : l >= 8 /\ k = (IF 8 <= l - 1 THEN (l - 1) - 8 + 1 ELSE 0) => k = l - 8
OBVIOUS

LEMMA FramedFacts ==
  ASSUME Wire!PacketAssumption, NEW a \in Sign, NEW b \in Sign, NEW c \in Sign,
         NEW content \in Seq(Sign), NEW packet, packet = Framed(a, b, c, content)
  PROVE  Frames(packet, a, b, c, content)
<1> DEFINE head == <<Slash, a, Slash, b, Slash, c, Slash>>
           tail == Append(content, Slash)
<1>0. packet = head \o tail
  BY DEF Framed
<1>1. /\ head \in Seq(Sign) /\ Len(head) = 7
      /\ head[1] = Slash /\ head[2] = a /\ head[3] = Slash /\ head[4] = b
      /\ head[5] = Slash /\ head[6] = c /\ head[7] = Slash
  BY Signs
<1>2. /\ tail \in Seq(Sign) /\ Len(tail) = Len(content) + 1 /\ Len(content) \in Nat
      /\ \A i \in 1..Len(content) : tail[i] = content[i]
      /\ tail[Len(content) + 1] = Slash
  BY Signs, Appended
<1> HIDE DEF head, tail
<1>3. /\ packet \in Seq(Sign) /\ Len(packet) = 7 + Len(tail)
      /\ \A i \in 1..7 : packet[i] = head[i]
      /\ \A i \in 1..Len(tail) : packet[7 + i] = tail[i]
  <2>1. /\ packet \in Seq(Sign) /\ Len(packet) = Len(head) + Len(tail)
        /\ \A i \in 1..Len(head) : packet[i] = head[i]
        /\ \A i \in 1..Len(tail) : packet[Len(head) + i] = tail[i]
    <3>1. /\ head \o tail \in Seq(Sign) /\ Len(head \o tail) = Len(head) + Len(tail)
          /\ \A i \in 1..Len(head) : (head \o tail)[i] = head[i]
          /\ \A i \in 1..Len(tail) : (head \o tail)[Len(head) + i] = tail[i]
      BY <1>1, <1>2, Joined
    <3>. QED  BY <1>0, <3>1, Zenon
  <2>. QED  BY <1>1, <2>1
<1>4. /\ Len(packet) = 8 + Len(content)
      /\ \A i \in 1..Len(content) : packet[7 + i] = content[i]
      /\ packet[8 + Len(content)] = Slash
  <2>1. /\ \A i \in 1..Len(content) : i \in 1..(Len(content) + 1)
        /\ Len(content) + 1 \in 1..(Len(content) + 1)
        /\ 7 + (Len(content) + 1) = 8 + Len(content)
    BY <1>2
  <2>. QED  BY <1>2, <1>3, <2>1
<1>5. /\ packet[1] = Slash /\ packet[2] = a /\ packet[3] = Slash /\ packet[4] = b
      /\ packet[5] = Slash /\ packet[6] = c /\ packet[7] = Slash
  BY <1>1, <1>3
<1>. QED  BY <1>2, <1>3, <1>4, <1>5 DEF Frames

(* A packet that parses is the one that serialize makes of what was read.  *)
LEMMA FramedBack ==
  ASSUME Wire!PacketAssumption, NEW packet \in Seq(Sign), Len(packet) >= 8,
         packet[1] = Slash, packet[3] = Slash, packet[5] = Slash, packet[7] = Slash,
         packet[Len(packet)] = Slash
  PROVE  /\ SubSeq(packet, 8, Len(packet) - 1) \in Seq(Sign)
         /\ packet = Framed(packet[2], packet[4], packet[6], SubSeq(packet, 8, Len(packet) - 1))
<1> DEFINE content == SubSeq(packet, 8, Len(packet) - 1)
           framed == Framed(packet[2], packet[4], packet[6], content)
<1>1. /\ Len(packet) \in Nat /\ content \in Seq(Sign) /\ Len(content) = Len(packet) - 8
      /\ \A i \in 1..Len(content) : content[i] = packet[7 + i]
  <2>1. Len(packet) \in Nat
    OBVIOUS
  <2>2. \A i \in 8..(Len(packet) - 1) : packet[i] \in Sign
    BY <2>1
  <2>3. Len(content) = Len(packet) - 8
    <3>1. Len(content) = IF 8 <= Len(packet) - 1 THEN (Len(packet) - 1) - 8 + 1 ELSE 0
      BY <2>1, <2>2, SubSeqProperties
    <3>. QED  BY <2>1, <3>1, SevenMore, Zenon
  <2>4. \A i \in 1..(Len(packet) - 8) : content[i] = packet[7 + i]
    BY <2>1
  <2>5. content \in Seq(Sign)
    BY <2>1, <2>2
  <2>. QED  BY <2>1, <2>3, <2>4, <2>5
<1>2. packet[2] \in Sign /\ packet[4] \in Sign /\ packet[6] \in Sign
  BY <1>1
<1> HIDE DEF content
<1>a. framed = Framed(packet[2], packet[4], packet[6], content)
  OBVIOUS
<1> HIDE DEF framed
<1>3. /\ framed \in Seq(Sign) /\ Len(framed) = 8 + Len(content)
      /\ framed[1] = Slash /\ framed[2] = packet[2] /\ framed[3] = Slash /\ framed[4] = packet[4]
      /\ framed[5] = Slash /\ framed[6] = packet[6] /\ framed[7] = Slash
      /\ \A i \in 1..Len(content) : framed[7 + i] = content[i]
      /\ framed[8 + Len(content)] = Slash
  <2>1. Frames(framed, packet[2], packet[4], packet[6], content)
    BY <1>1, <1>2, <1>a, FramedFacts
  <2>. QED  BY <2>1 DEF Frames
<1>4. Len(framed) = Len(packet) /\ 8 + Len(content) = Len(packet)
  BY <1>1, <1>3
<1>5. ASSUME NEW i \in 1..Len(packet)
      PROVE  packet[i] = framed[i]
  <2>1. CASE i \in 1..7
    <3>1. i = 1 \/ i = 2 \/ i = 3 \/ i = 4 \/ i = 5 \/ i = 6 \/ i = 7
      BY <2>1
    <3>. QED  BY <1>3, <3>1
  <2>2. CASE i \notin 1..7 /\ i # Len(packet)
    <3>1. i - 7 \in 1..Len(content) /\ 7 + (i - 7) = i
      BY <1>1, <2>2
    <3>. QED  BY <1>1, <1>3, <3>1
  <2>3. CASE i = Len(packet)
    BY <1>3, <1>4, <2>3
  <2>. QED  BY <2>1, <2>2, <2>3
<1>6. packet = framed
  BY <1>3, <1>4, <1>5, SeqEqual
<1>. QED  BY <1>1, <1>6 DEF framed, content

LEMMA Serialized ==
  ASSUME Wire!PacketAssumption
  PROVE  /\ \A msg : msg.type \in {ConnectWord, CloseWord} =>
              Wire!serialize(msg) = Wire!Enclosed(<<<<msg.type>>, <<msg.session>>>>)
         /\ \A msg : msg.type = AckWord =>
              Wire!serialize(msg) = Wire!Enclosed(<<<<AckWord>>, <<msg.session>>, <<msg.length>>>>)
         /\ \A msg : msg.type = DataWord =>
              Wire!serialize(msg) = Wire!Enclosed(<<<<DataWord>>, <<msg.session>>, <<msg.pos>>,
                                                    Wire!escape_data(msg.data)>>)
BY DEF Wire!serialize, Wire!PacketAssumption

LEMMA Fields ==
  /\ \A a, b : LET msg == [type |-> a, session |-> b] IN msg.type = a /\ msg.session = b
  /\ \A a, b, c : LET msg == [type |-> a, session |-> b, length |-> c] IN
       msg.type = a /\ msg.session = b /\ msg.length = c
  /\ \A a, b, c, d : LET msg == [type |-> a, session |-> b, pos |-> c, data |-> d] IN
       msg.type = a /\ msg.session = b /\ msg.pos = c /\ msg.data = d
OBVIOUS

LEMMA ShortBack ==
  ASSUME NEW packet \in Seq(Sign)
  PROVE  /\ Len(packet) = 5 =>
              /\ packet = <<packet[1], packet[2], packet[3], packet[4], packet[5]>>
              /\ packet[2] \in Sign /\ packet[4] \in Sign
         /\ Len(packet) = 7 =>
              /\ packet = <<packet[1], packet[2], packet[3], packet[4], packet[5], packet[6], packet[7]>>
              /\ packet[2] \in Sign /\ packet[4] \in Sign /\ packet[6] \in Sign
OBVIOUS

LEMMA ParsedBack ==
  ASSUME Wire!PacketAssumption, NEW packet \in Seq(Sign), Wire!parse(packet) # NoMessage
  PROVE  Wire!serialize(Wire!parse(packet)) = packet
<1> DEFINE content == SubSeq(packet, 8, Len(packet) - 1)
           short == packet[2] \in {ConnectWord, CloseWord} /\ Len(packet) = 5
                      /\ Wire!Matches(packet, {4}, 5)
           ack == packet[2] = AckWord /\ Len(packet) = 7 /\ Wire!Matches(packet, {4, 6}, 7)
           full == packet[2] = DataWord /\ Wire!Matches(packet, {4, 6}, 8) /\ Wire!Valid(content)
           shortMsg == [type |-> packet[2], session |-> packet[4]]
           ackMsg == [type |-> AckWord, session |-> packet[4], length |-> packet[6]]
           dataMsg == [type |-> DataWord, session |-> packet[4], pos |-> packet[6],
                       data |-> Wire!unescape_data(content)]
<1>1. /\ Len(packet) > 2 /\ packet[1] = Slash /\ packet[Len(packet)] = Slash
      /\ short \/ ack \/ full
      /\ Wire!parse(packet) = IF short THEN shortMsg ELSE IF ack THEN ackMsg ELSE dataMsg
  BY DEF Wire!parse
<1>2. CASE short
  <2>1. packet[3] = Slash /\ packet[5] = Slash /\ packet[4] \in Nat
    BY <1>2 DEF Wire!Matches
  <2>2. Wire!serialize(shortMsg) = Wire!Enclosed(<<<<packet[2]>>, <<packet[4]>>>>)
    <3>1. shortMsg.type = packet[2] /\ shortMsg.session = packet[4]
      OBVIOUS
    <3> HIDE DEF shortMsg
    <3>2. shortMsg.type \in {ConnectWord, CloseWord}
      BY <1>2, <3>1
    <3>3. Wire!serialize(shortMsg) = Wire!Enclosed(<<<<shortMsg.type>>, <<shortMsg.session>>>>)
      BY <3>2, Serialized
    <3>. QED  BY <3>1, <3>3, Zenon
  <2>3. Wire!Enclosed(<<<<packet[2]>>, <<packet[4]>>>>)
          = <<Slash, packet[2], Slash, packet[4], Slash>>
    BY <1>2, ShortBack, Packets
  <2>4. packet = <<packet[1], packet[2], packet[3], packet[4], packet[5]>>
    BY <1>2, ShortBack
  <2>5. packet = <<Slash, packet[2], Slash, packet[4], Slash>>
    BY <1>1, <2>1, <2>4, Zenon
  <2>6. Wire!parse(packet) = shortMsg
    BY <1>1, <1>2
  <2> HIDE DEF shortMsg
  <2>. QED  BY <2>2, <2>3, <2>5, <2>6, Zenon
<1>3. CASE ~short /\ ack
  <2>1. /\ packet[3] = Slash /\ packet[5] = Slash /\ packet[4] \in Nat
        /\ packet[7] = Slash /\ packet[6] \in Nat
    BY <1>3 DEF Wire!Matches
  <2>2. Wire!serialize(ackMsg) = Wire!Enclosed(<<<<AckWord>>, <<packet[4]>>, <<packet[6]>>>>)
    <3>1. ackMsg.type = AckWord /\ ackMsg.session = packet[4] /\ ackMsg.length = packet[6]
      OBVIOUS
    <3> HIDE DEF ackMsg
    <3>2. Wire!serialize(ackMsg) = Wire!Enclosed(<<<<AckWord>>, <<ackMsg.session>>, <<ackMsg.length>>>>)
      BY <3>1, Serialized
    <3>. QED  BY <3>1, <3>2, Zenon
  <2>3. Wire!Enclosed(<<<<AckWord>>, <<packet[4]>>, <<packet[6]>>>>)
          = <<Slash, AckWord, Slash, packet[4], Slash, packet[6], Slash>>
    BY <1>3, ShortBack, Packets, Signs
  <2>4. packet = <<packet[1], packet[2], packet[3], packet[4], packet[5], packet[6], packet[7]>>
    BY <1>3, ShortBack
  <2>5. packet = <<Slash, AckWord, Slash, packet[4], Slash, packet[6], Slash>>
    BY <1>1, <1>3, <2>1, <2>4, Zenon
  <2>6. Wire!parse(packet) = ackMsg
    BY <1>1, <1>3
  <2> HIDE DEF ackMsg
  <2>. QED  BY <2>2, <2>3, <2>5, <2>6, Zenon
<1>4. CASE ~short /\ ~ack
  <2>1. /\ packet[3] = Slash /\ packet[5] = Slash /\ packet[4] \in Nat
        /\ packet[7] = Slash /\ packet[6] \in Nat /\ Len(packet) >= 8 /\ packet[2] = DataWord
    BY <1>1, <1>4 DEF Wire!Matches
  <2>2. content \in Seq(Sign) /\ packet = Framed(packet[2], packet[4], packet[6], content)
    BY <1>1, <2>1, FramedBack
  <2>3. Wire!Valid(content)
    BY <1>1, <1>4
  <2> DEFINE data == Wire!unescape_data(content)
  <2>4. Wire!escape_data(data) = content
    BY <2>2, <2>3, ReadEscaped
  <2>5. Wire!serialize(dataMsg)
          = Wire!Enclosed(<<<<DataWord>>, <<packet[4]>>, <<packet[6]>>, Wire!escape_data(data)>>)
    <3>1. /\ dataMsg.type = DataWord /\ dataMsg.session = packet[4] /\ dataMsg.pos = packet[6]
          /\ dataMsg.data = data
      OBVIOUS
    <3> HIDE DEF dataMsg, data
    <3>2. Wire!serialize(dataMsg) = Wire!Enclosed(<<<<DataWord>>, <<dataMsg.session>>, <<dataMsg.pos>>,
                                                    Wire!escape_data(dataMsg.data)>>)
      BY <3>1, Serialized
    <3>. QED  BY <3>1, <3>2, Zenon
  <2>6. packet[4] \in Sign /\ packet[6] \in Sign /\ DataWord \in Sign
    BY <2>1, Signs
  <2>7. Wire!parse(packet) = dataMsg
    BY <1>1, <1>4
  <2> HIDE DEF dataMsg, content, data
  <2>8. Wire!Enclosed(<<<<DataWord>>, <<packet[4]>>, <<packet[6]>>, content>>)
          = Framed(DataWord, packet[4], packet[6], content)
    BY <2>2, <2>6, Packets DEF Framed
  <2>. QED  BY <2>1, <2>2, <2>4, <2>5, <2>7, <2>8, Zenon
<1>. QED  BY <1>2, <1>3, <1>4

(* A message is read back from its packet.                                 *)
LEMMA DataParsed ==
  ASSUME Wire!PacketAssumption, NEW pos \in Nat, NEW data \in Seq(Sign)
  PROVE  Wire!parse(Wire!serialize(Wire!DataMessage(pos, data))) = Wire!DataMessage(pos, data)
<1> DEFINE msg == Wire!DataMessage(pos, data)
           content == Wire!escape_data(data)
           packet == Framed(DataWord, 1, pos, content)
<1>1. content \in Seq(Sign) /\ Wire!unescape_data(content) = data /\ Len(content) = Wire!total_size(data)
  BY EscapedBack, EscapedSize
<1>2. Wire!Valid(content)
  BY <1>1 DEF Wire!Valid
<1>3. msg.type = DataWord /\ msg.session = 1 /\ msg.pos = pos /\ msg.data = data
  BY DEF Wire!DataMessage
<1>4. 1 \in Sign /\ pos \in Sign /\ DataWord \in Sign
  BY Signs
<1> HIDE DEF msg, content
<1>5. Wire!serialize(msg) = packet
  <2>1. Wire!serialize(msg) = Wire!Enclosed(<<<<DataWord>>, <<msg.session>>, <<msg.pos>>,
                                              Wire!escape_data(msg.data)>>)
    BY <1>3, Serialized
  <2>2. Wire!serialize(msg) = Wire!Enclosed(<<<<DataWord>>, <<1>>, <<pos>>, content>>)
    BY <1>3, <2>1, Zenon DEF content
  <2>3. Wire!Enclosed(<<<<DataWord>>, <<1>>, <<pos>>, content>>) = packet
    BY <1>1, <1>4, Packets DEF Framed
  <2>. QED  BY <2>2, <2>3
<1>a. packet = Framed(DataWord, 1, pos, content)
  OBVIOUS
<1> HIDE DEF packet
<1>6. /\ packet \in Seq(Sign) /\ Len(packet) = 8 + Len(content) /\ Len(content) \in Nat
      /\ packet[1] = Slash /\ packet[2] = DataWord /\ packet[3] = Slash /\ packet[4] = 1
      /\ packet[5] = Slash /\ packet[6] = pos /\ packet[7] = Slash
      /\ \A i \in 1..Len(content) : packet[7 + i] = content[i]
      /\ packet[8 + Len(content)] = Slash
  <2>1. Frames(packet, DataWord, 1, pos, content)
    BY <1>1, <1>4, <1>a, FramedFacts
  <2>. QED  BY <2>1 DEF Frames
<1>7. SubSeq(packet, 8, Len(packet) - 1) = content
  <2> DEFINE inside == SubSeq(packet, 8, Len(packet) - 1)
  <2>1. Len(packet) - 1 = 7 + Len(content)
    BY <1>6
  <2>2. \A i \in 8..(7 + Len(content)) : packet[i] \in Sign
    BY <1>6
  <2>3. inside \in Seq(Sign) /\ Len(inside) = Len(content)
    BY <1>6, <2>1, <2>2
  <2>4. \A i \in 1..Len(content) : inside[i] = packet[7 + i]
    BY <1>6, <2>1
  <2> HIDE DEF inside
  <2>5. inside = content
    BY <1>1, <1>6, <2>3, <2>4, SeqEqual
  <2>. QED  BY <2>5 DEF inside
<1>8. Len(packet) >= 8 /\ Wire!Matches(packet, {4, 6}, 8)
  BY <1>6 DEF Wire!Matches
<1>9. Wire!parse(packet)
        = [type |-> DataWord, session |-> 1, pos |-> pos, data |-> Wire!unescape_data(content)]
  <2>1. packet[Len(packet)] = Slash
    BY <1>6
  <2>2. ~(Len(packet) = 5) /\ ~(Len(packet) = 7) /\ Len(packet) > 2
    BY <1>6
  <2>3. Wire!Valid(SubSeq(packet, 8, Len(packet) - 1))
    BY <1>2, <1>7
  <2>. QED  BY <1>6, <1>7, <1>8, <2>1, <2>2, <2>3 DEF Wire!parse
<1>. QED  BY <1>1, <1>5, <1>9 DEF msg, Wire!DataMessage

LEMMA OthersParsed ==
  ASSUME Wire!PacketAssumption
  PROVE  /\ \A t \in {ConnectWord, CloseWord} :
              LET msg == [type |-> t, session |-> 1] IN Wire!parse(Wire!serialize(msg)) = msg
         /\ LET msg == [type |-> AckWord, session |-> 1, length |-> 2] IN
              Wire!parse(Wire!serialize(msg)) = msg
<1>1. ASSUME NEW t \in {ConnectWord, CloseWord}
      PROVE  Wire!parse(Wire!serialize([type |-> t, session |-> 1])) = [type |-> t, session |-> 1]
  <2> DEFINE msg == [type |-> t, session |-> 1]
             packet == <<Slash, t, Slash, 1, Slash>>
  <2>1. Wire!serialize(msg) = packet
    <3>1. msg.type = t /\ msg.session = 1
      OBVIOUS
    <3> HIDE DEF msg
    <3>2. Wire!serialize(msg) = Wire!Enclosed(<<<<msg.type>>, <<msg.session>>>>)
      BY <3>1, Serialized
    <3>3. Wire!Enclosed(<<<<t>>, <<1>>>>) = packet
      BY Packets, Signs
    <3>. QED  BY <3>1, <3>2, <3>3, Zenon
  <2>2. /\ Len(packet) = 5 /\ packet[1] = Slash /\ packet[2] = t /\ packet[3] = Slash
        /\ packet[4] = 1 /\ packet[5] = Slash
    OBVIOUS
  <2> HIDE DEF packet
  <2>3. Wire!Matches(packet, {4}, 5)
    BY <2>2 DEF Wire!Matches
  <2>4. Wire!parse(packet) = [type |-> packet[2], session |-> packet[4]]
    BY <2>2, <2>3 DEF Wire!parse
  <2>. QED  BY <2>1, <2>2, <2>4
<1>2. Wire!parse(Wire!serialize([type |-> AckWord, session |-> 1, length |-> 2]))
        = [type |-> AckWord, session |-> 1, length |-> 2]
  <2> DEFINE msg == [type |-> AckWord, session |-> 1, length |-> 2]
             packet == <<Slash, AckWord, Slash, 1, Slash, 2, Slash>>
  <2>1. Wire!serialize(msg) = packet
    <3>1. msg.type = AckWord /\ msg.session = 1 /\ msg.length = 2
      OBVIOUS
    <3> HIDE DEF msg
    <3>2. Wire!serialize(msg) = Wire!Enclosed(<<<<AckWord>>, <<msg.session>>, <<msg.length>>>>)
      BY <3>1, Serialized
    <3>3. Wire!Enclosed(<<<<AckWord>>, <<1>>, <<2>>>>) = packet
      BY Packets, Signs
    <3>. QED  BY <3>1, <3>2, <3>3, Zenon
  <2>2. /\ Len(packet) = 7 /\ packet[1] = Slash /\ packet[2] = AckWord /\ packet[3] = Slash
        /\ packet[4] = 1 /\ packet[5] = Slash /\ packet[6] = 2 /\ packet[7] = Slash
    OBVIOUS
  <2> HIDE DEF packet
  <2>3. Wire!Matches(packet, {4, 6}, 7)
    BY <2>2 DEF Wire!Matches
  <2>4. Wire!parse(packet) = [type |-> AckWord, session |-> packet[4], length |-> packet[6]]
    BY <2>2, <2>3 DEF Wire!parse
  <2>. QED  BY <2>1, <2>2, <2>4
<1>. QED  BY <1>1, <1>2

-----------------------------------------------------------------------------
(* The chunks of split_data.                                               *)
Piece == [pos : Nat, data : Seq(Sign)]
Cutting == [cut : Seq(Piece), pos : Nat, cur : Seq(Sign), size : Nat]
Datas(cut) == [i \in DOMAIN cut |-> cut[i].data]

(* Pieces that follow one another from position pos on and fit a packet,   *)
(* and where they end.                                                     *)
Stop(piece) == piece.pos + Len(piece.data)
Pieces(cut, pos) ==
  /\ cut \in Seq(Piece)
  /\ \A i \in 1..Len(cut) : /\ cut[i].pos = IF i = 1 THEN pos ELSE Stop(cut[i - 1])
                           /\ Wire!total_size(cut[i].data) <= MaxSize
PiecesEnd(cut, pos) == IF cut = << >> THEN pos ELSE Stop(cut[Len(cut)])
Filled(cut) == \A i \in 1..Len(cut) : cut[i].data # << >>

(* After what split_data has done. *)
Cut(s, pos, done) ==
  /\ s \in Cutting
  /\ Pieces(s.cut, pos) /\ Filled(s.cut) /\ s.pos = PiecesEnd(s.cut, pos)
  /\ Wire!Text(Datas(s.cut)) \o s.cur = done
  /\ s.size = Wire!total_size(s.cur) /\ s.size <= MaxSize
  /\ done # << >> => s.cur # << >>

LEMMA Recursive ==
  ASSUME NEW Values, NEW base \in Values, NEW N \in Nat, NEW step \in [1..N -> [Values -> Values]]
  PROVE  \E trace \in [0..N -> Values] :
           trace[0] = base /\ \A n \in 1..N : trace[n] = step[n][trace[n - 1]]
<1>1. PICK f : Folding(f, Values, base, N, step)
  BY FoldDefined
<1>2. Folds(f, Values, base, N, step)
  BY <1>1 DEF Folding, Folds
<1>3. PICK trace : Trace(trace, Values, base, N, step, f[1..N])
  BY <1>2, FoldTrace
<1>. QED  BY <1>3 DEF Trace

LEMMA DatasMore ==
  /\ Datas(<< >>) = << >>
  /\ \A cut \in Seq(Piece) : Datas(cut) \in Seq(Seq(Sign))
  /\ \A cut \in Seq(Piece), piece \in Piece :
       Datas(Append(cut, piece)) = Append(Datas(cut), piece.data)
<1>1. Datas(<< >>) = << >>
  BY DEF Datas
<1>2. ASSUME NEW cut \in Seq(Piece)
      PROVE  /\ Datas(cut) \in Seq(Seq(Sign)) /\ Len(Datas(cut)) = Len(cut)
             /\ \A i \in 1..Len(cut) : Datas(cut)[i] = cut[i].data
  <2>1. /\ Len(cut) \in Nat /\ DOMAIN cut = 1..Len(cut)
        /\ \A i \in 1..Len(cut) : cut[i] \in Piece /\ cut[i].data \in Seq(Sign)
    <3>1. Len(cut) \in Nat /\ DOMAIN cut = 1..Len(cut) /\ \A i \in 1..Len(cut) : cut[i] \in Piece
      OBVIOUS
    <3>2. \A piece \in Piece : piece.data \in Seq(Sign)
      BY DEF Piece
    <3>. QED  BY <3>1, <3>2
  <2>. QED  BY <2>1 DEF Datas
<1>3. ASSUME NEW cut \in Seq(Piece), NEW piece \in Piece
      PROVE  Datas(Append(cut, piece)) = Append(Datas(cut), piece.data)
  <2> DEFINE more == Append(cut, piece)
             one == Datas(more)
             other == Append(Datas(cut), piece.data)
  <2>1. piece.data \in Seq(Sign)
    BY DEF Piece
  <2>2. /\ more \in Seq(Piece) /\ Len(more) = Len(cut) + 1 /\ Len(cut) \in Nat
        /\ more[Len(cut) + 1] = piece /\ \A i \in 1..Len(cut) : more[i] = cut[i]
    BY Appended
  <2>3. /\ other \in Seq(Seq(Sign)) /\ Len(other) = Len(Datas(cut)) + 1
        /\ other[Len(Datas(cut)) + 1] = piece.data
        /\ \A i \in 1..Len(Datas(cut)) : other[i] = Datas(cut)[i]
    BY <1>2, <2>1, Appended
  <2> HIDE DEF more
  <2>4. /\ one \in Seq(Seq(Sign)) /\ Len(one) = Len(more)
        /\ \A i \in 1..Len(more) : one[i] = more[i].data
    BY <1>2, <2>2
  <2> HIDE DEF one, other
  <2>5. Len(one) = Len(other)
    BY <1>2, <2>2, <2>3, <2>4
  <2>6. ASSUME NEW i \in 1..Len(one)
        PROVE  one[i] = other[i]
    <3>1. i \in 1..Len(cut) \/ i = Len(cut) + 1
      BY <2>2, <2>4
    <3>. QED  BY <1>2, <2>2, <2>3, <2>4, <3>1
  <2>7. one = other
    BY <2>3, <2>4, <2>5, <2>6, SeqEqual
  <2>. QED  BY <2>7 DEF one, other, more
<1>. QED  BY <1>1, <1>2, <1>3

LEMMA PiecesMore ==
  ASSUME NEW pos \in Nat, NEW cut, Pieces(cut, pos), NEW piece \in Piece,
         piece.pos = PiecesEnd(cut, pos), Wire!total_size(piece.data) <= MaxSize
  PROVE  /\ Pieces(Append(cut, piece), pos) /\ PiecesEnd(Append(cut, piece), pos) = Stop(piece)
         /\ Filled(cut) /\ piece.data # << >> => Filled(Append(cut, piece))
<1> DEFINE new == Append(cut, piece)
<1>1. cut \in Seq(Piece) /\ Len(cut) \in Nat
  BY DEF Pieces
<1>2. /\ new \in Seq(Piece) /\ Len(new) = Len(cut) + 1
      /\ \A i \in 1..Len(cut) : new[i] = cut[i]
      /\ new[Len(cut) + 1] = piece
  BY <1>1, Appended
<1>3. new # << >>
  BY <1>1, <1>2
<1>4. \A i \in 1..(Len(cut) + 1) : i \in 1..Len(cut) \/ i = Len(cut) + 1
  BY <1>1
<1> HIDE DEF new
<1>5. ASSUME NEW i \in 1..Len(new)
      PROVE  /\ new[i].pos = IF i = 1 THEN pos ELSE Stop(new[i - 1])
             /\ Wire!total_size(new[i].data) <= MaxSize
  <2>1. CASE i \in 1..Len(cut)
    <3>1. /\ cut[i].pos = IF i = 1 THEN pos ELSE Stop(cut[i - 1])
          /\ Wire!total_size(cut[i].data) <= MaxSize
      BY <2>1 DEF Pieces
    <3>2. i # 1 => i - 1 \in 1..Len(cut)
      BY <1>1, <2>1
    <3>. QED  BY <1>2, <2>1, <3>1, <3>2
  <2>2. CASE i = Len(cut) + 1
    <3>1. CASE cut = << >>
      <4>1. Len(cut) = 0
        BY <3>1
      <4>. QED  BY <1>2, <2>2, <3>1, <4>1 DEF PiecesEnd
    <3>2. CASE cut # << >>
      <4>1. Len(cut) > 0
        BY <1>1, <3>2
      <4>2. i # 1 /\ i - 1 = Len(cut) /\ i - 1 \in 1..Len(cut)
        BY <1>1, <2>2, <4>1
      <4>. QED  BY <1>2, <2>2, <3>2, <4>2 DEF PiecesEnd
    <3>. QED  BY <3>1, <3>2
  <2>. QED  BY <1>2, <1>4, <2>1, <2>2
<1>6. Pieces(new, pos)
  BY <1>2, <1>5 DEF Pieces
<1>7. PiecesEnd(new, pos) = Stop(piece)
  BY <1>2, <1>3 DEF PiecesEnd
<1>8. Filled(cut) /\ piece.data # << >> => Filled(new)
  BY <1>2, <1>4 DEF Filled
<1>. QED  BY <1>6, <1>7, <1>8 DEF new

LEMMA CutType ==
  ASSUME NEW s \in Cutting, NEW c \in Sign
  PROVE  Wire!TakeChar(s, c, Wire!char_size) \in Cutting
<1>1. /\ s.cut \in Seq(Piece) /\ s.pos \in Nat /\ s.cur \in Seq(Sign) /\ s.size \in Nat
      /\ Wire!char_size(c) \in Nat
  BY CharSizes DEF Cutting
<1>2. [pos |-> s.pos, data |-> s.cur] \in Piece
  BY <1>1 DEF Piece
<1>3. /\ Append(s.cut, [pos |-> s.pos, data |-> s.cur]) \in Seq(Piece)
      /\ s.pos + Len(s.cur) \in Nat /\ <<c>> \in Seq(Sign)
      /\ Append(s.cur, c) \in Seq(Sign) /\ s.size + Wire!char_size(c) \in Nat
  BY <1>1, <1>2
<1>. QED  BY <1>1, <1>3 DEF Wire!TakeChar, Cutting

LEMMA JoinedOn ==
  ASSUME NEW s \in Seq(Sign), NEW t \in Seq(Sign), NEW c \in Sign
  PROVE  /\ s \o Append(t, c) = Append(s \o t, c) /\ s \o <<c>> = Append(s, c)
         /\ << >> \o s = s
OBVIOUS

LEMMA CutStep ==
  ASSUME Wire!PacketAssumption, NEW pos \in Nat, NEW done \in Seq(Sign), NEW c \in Sign,
         NEW s, Cut(s, pos, done)
  PROVE  Cut(Wire!TakeChar(s, c, Wire!char_size), pos, Append(done, c))
<1> DEFINE t == Wire!TakeChar(s, c, Wire!char_size)
           piece == [pos |-> s.pos, data |-> s.cur]
           carried == Wire!Text(Datas(s.cut))
<1>1. /\ s \in Cutting /\ s.cut \in Seq(Piece) /\ s.pos \in Nat /\ s.cur \in Seq(Sign) /\ s.size \in Nat
      /\ Wire!char_size(c) \in 1..2 /\ MaxSize \in Nat /\ MaxSize >= 2
  BY CharSizes DEF Cut, Cutting, Wire!PacketAssumption
<1>2. /\ Pieces(s.cut, pos) /\ Filled(s.cut) /\ s.pos = PiecesEnd(s.cut, pos)
      /\ carried \o s.cur = done
      /\ s.size = Wire!total_size(s.cur) /\ s.size <= MaxSize
      /\ done # << >> => s.cur # << >>
  BY DEF Cut
<1>3. Datas(s.cut) \in Seq(Seq(Sign)) /\ carried \in Seq(Sign)
  <2>1. Datas(s.cut) \in Seq(Seq(Sign))
    BY <1>1, DatasMore
  <2>2. << >> \in Seq(Sign)
    OBVIOUS
  <2>. QED  BY <2>1, <2>2, TextMore
<1>4. t \in Cutting
  BY <1>1, CutType
<1>5. CASE s.size + Wire!char_size(c) > MaxSize
  <2>1. t.cut = Append(s.cut, piece) /\ t.pos = s.pos + Len(s.cur) /\ t.cur = <<c>>
        /\ t.size = Wire!char_size(c)
    BY <1>5 DEF Wire!TakeChar
  <2>2. piece \in Piece /\ piece.pos = s.pos /\ piece.data = s.cur /\ Stop(piece) = s.pos + Len(s.cur)
    BY <1>1 DEF Piece, Stop
  <2>3. s.cur # << >>
    <3>1. Wire!total_size(<< >>) = 0
      BY SizeMore
    <3>. QED  BY <1>1, <1>2, <1>5, <3>1
  <2>4. Datas(Append(s.cut, piece)) = Append(Datas(s.cut), s.cur)
    BY <1>1, <2>2, DatasMore
  <2>5. Wire!Text(Datas(Append(s.cut, piece))) = done
    BY <1>1, <1>2, <1>3, <2>4, TextMore
  <2>6. Wire!total_size(<<c>>) = Wire!char_size(c)
    <3>1. << >> \in Seq(Sign) /\ <<c>> = Append(<< >>, c)
      OBVIOUS
    <3>2. Wire!total_size(Append(<< >>, c)) = Wire!total_size(<< >>) + Wire!char_size(c)
      BY <3>1, SizeMore
    <3>3. Wire!total_size(<< >>) = 0
      BY SizeMore
    <3>4. Wire!total_size(Append(<< >>, c)) = Wire!char_size(c)
      BY <1>1, <3>2, <3>3
    <3>. QED  BY <3>1, <3>4, Zenon
  <2>7. <<c>> # << >>
    OBVIOUS
  <2> HIDE DEF t, piece
  <2>8. Pieces(t.cut, pos) /\ Filled(t.cut) /\ t.pos = PiecesEnd(t.cut, pos)
    BY <1>2, <2>1, <2>2, <2>3, PiecesMore
  <2>9. Wire!Text(Datas(t.cut)) \o t.cur = Append(done, c)
    <3>1. done \o <<c>> = Append(done, c)
      BY JoinedOn
    <3>. QED  BY <2>1, <2>5, <3>1, Zenon
  <2>10. t.size = Wire!total_size(t.cur) /\ t.size <= MaxSize /\ t.cur # << >>
    BY <1>1, <2>1, <2>6, <2>7
  <2>11. Cut(t, pos, Append(done, c))
    BY <1>4, <2>8, <2>9, <2>10 DEF Cut
  <2>. QED  BY <2>11 DEF t
<1>6. CASE ~(s.size + Wire!char_size(c) > MaxSize)
  <2>1. /\ t.cut = s.cut /\ t.pos = s.pos /\ t.cur = Append(s.cur, c)
        /\ t.size = s.size + Wire!char_size(c)
    BY <1>1, <1>6 DEF Wire!TakeChar, Cutting
  <2>2. Append(s.cur, c) # << >>
    BY <1>1, FrontAppend
  <2>3. Wire!total_size(Append(s.cur, c)) = Wire!total_size(s.cur) + Wire!char_size(c)
    BY <1>1, SizeMore
  <2>4. carried \o Append(s.cur, c) = Append(done, c)
    <3> HIDE DEF carried
    <3>1. carried \o Append(s.cur, c) = Append(carried \o s.cur, c)
      BY <1>1, <1>3, JoinedOn
    <3>. QED  BY <1>2, <3>1, Zenon
  <2> HIDE DEF t
  <2>5. Pieces(t.cut, pos) /\ Filled(t.cut) /\ t.pos = PiecesEnd(t.cut, pos)
    BY <1>2, <2>1
  <2>6. Wire!Text(Datas(t.cut)) \o t.cur = Append(done, c)
    BY <2>1, <2>4, Zenon
  <2>7. t.size = Wire!total_size(t.cur) /\ t.size <= MaxSize /\ t.cur # << >>
    BY <1>1, <1>2, <1>6, <2>1, <2>2, <2>3
  <2>8. Cut(t, pos, Append(done, c))
    BY <1>4, <2>5, <2>6, <2>7 DEF Cut
  <2>. QED  BY <2>8 DEF t
<1>. QED  BY <1>5, <1>6

LEMMA CuttingSteps ==
  ASSUME NEW base \in Cutting, NEW N \in Nat, NEW step \in [1..N -> [Cutting -> Cutting]]
  PROVE  \E f \in [0..N -> Cutting] : f[0] = base /\ \A n \in 1..N : f[n] = step[n][f[n - 1]]
BY Recursive

(* split_data cuts a text into pieces that follow one another, that carry  *)
(* it, and that fit a packet once they are escaped.                        *)
LEMMA SplitPieces ==
  ASSUME Wire!PacketAssumption, NEW pos \in Nat, NEW data \in Seq(Sign)
  PROVE  LET cut == Wire!split_data(pos, data) IN
         /\ Pieces(cut, pos) /\ Wire!Text(Datas(cut)) = data
         /\ data # << >> => Filled(cut)
<1> DEFINE N == Len(data)
           base == [cut |-> << >>, pos |-> pos, cur |-> << >>, size |-> 0]
           after == CHOOSE after : after = [n \in 0..Len(data) |->
                      IF n = 0 THEN base ELSE Wire!TakeChar(after[n - 1], data[n], Wire!char_size)]
           step == [n \in 1..N |-> [s \in Cutting |-> Wire!TakeChar(s, data[n], Wire!char_size)]]
<1>1. base \in Cutting /\ N \in Nat
  BY DEF Cutting
<1>2. step \in [1..N -> [Cutting -> Cutting]]
  BY CutType
<1>3. PICK f \in [0..N -> Cutting] :
        f[0] = base /\ \A n \in 1..N : f[n] = step[n][f[n - 1]]
  <2> HIDE DEF base, step, N
  <2>1. \E f \in [0..N -> Cutting] : f[0] = base /\ \A n \in 1..N : f[n] = step[n][f[n - 1]]
    BY <1>1, <1>2, CuttingSteps
  <2>. QED  BY <2>1
<1>4. f = [n \in 0..Len(data) |->
             IF n = 0 THEN base ELSE Wire!TakeChar(f[n - 1], data[n], Wire!char_size)]
  <2>1. ASSUME NEW n \in 0..N, n # 0
        PROVE  f[n] = Wire!TakeChar(f[n - 1], data[n], Wire!char_size)
    <3>1. n \in 1..N /\ n - 1 \in 0..N
      BY <1>1, <2>1
    <3>. QED  BY <1>3, <3>1
  <2> HIDE DEF base, step
  <2>2. f = [n \in 0..N |-> f[n]]
    OBVIOUS
  <2>. QED  BY <1>3, <2>1, <2>2
<1>5. after = [n \in 0..Len(data) |->
                 IF n = 0 THEN base ELSE Wire!TakeChar(after[n - 1], data[n], Wire!char_size)]
  <2> HIDE DEF base
  <2>. QED  BY <1>4
<1>6. Wire!split_data(pos, data)
        = Append(after[N].cut, [pos |-> after[N].pos, data |-> after[N].cur])
  BY DEF Wire!split_data, Wire!Chunks
<1> HIDE DEF after
<1> DEFINE good == {n \in 0..N : Cut(after[n], pos, SubSeq(data, 1, n))}
<1>7. 0 \in good
  <2>1. 0 \in 0..N /\ after[0] = base /\ SubSeq(data, 1, 0) = << >>
    BY <1>1, <1>5
  <2>2. Pieces(<< >>, pos) /\ Filled(<< >>) /\ pos = PiecesEnd(<< >>, pos)
    BY DEF Pieces, Filled, PiecesEnd
  <2>3. Wire!Text(Datas(<< >>)) \o << >> = << >>
    BY DatasMore, TextMore
  <2>4. 0 = Wire!total_size(<< >>) /\ 0 <= MaxSize
    BY SizeMore DEF Wire!PacketAssumption
  <2>5. Cut(base, pos, << >>)
    BY <1>1, <2>2, <2>3, <2>4 DEF Cut
  <2> HIDE DEF base
  <2>6. Cut(after[0], pos, SubSeq(data, 1, 0))
    BY <2>1, <2>5, Zenon
  <2>. QED  BY <2>1, <2>6
<1> HIDE DEF base
<1>8. ASSUME NEW n \in 0..(N - 1), n \in good
      PROVE  n + 1 \in good
  <2>1. n + 1 \in 0..N /\ n + 1 # 0 /\ (n + 1) - 1 = n
    BY <1>1
  <2>2. after[n + 1] = Wire!TakeChar(after[n], data[n + 1], Wire!char_size)
    BY <1>5, <2>1
  <2>3. /\ SubSeq(data, 1, n) \in Seq(Sign) /\ data[n + 1] \in Sign
        /\ SubSeq(data, 1, n + 1) = Append(SubSeq(data, 1, n), data[n + 1])
    BY Prefix
  <2>4. Cut(Wire!TakeChar(after[n], data[n + 1], Wire!char_size), pos,
            Append(SubSeq(data, 1, n), data[n + 1]))
    BY <1>8, <2>3, CutStep
  <2>5. Cut(after[n + 1], pos, SubSeq(data, 1, n + 1))
    BY <2>2, <2>3, <2>4, Zenon
  <2>. QED  BY <2>1, <2>5
<1>9. Cut(after[N], pos, data)
  <2>1. N \in good
    <3> HIDE DEF good
    <3>1. \A n \in 0..N : n \in good
      BY <1>1, <1>7, <1>8, UpTo
    <3>. QED  BY <1>1, <3>1
  <2>2. SubSeq(data, 1, N) = data
    OBVIOUS
  <2>3. Cut(after[N], pos, SubSeq(data, 1, N))
    BY <2>1
  <2>. QED  BY <2>2, <2>3, Zenon
<1> DEFINE end == after[N]
           piece == [pos |-> end.pos, data |-> end.cur]
<1> HIDE DEF end
<1>10. /\ end \in Cutting /\ Pieces(end.cut, pos) /\ Filled(end.cut) /\ end.pos = PiecesEnd(end.cut, pos)
       /\ Wire!Text(Datas(end.cut)) \o end.cur = data
       /\ end.size = Wire!total_size(end.cur) /\ end.size <= MaxSize
       /\ data # << >> => end.cur # << >>
  BY <1>9 DEF Cut, end
<1>11. /\ piece \in Piece /\ piece.pos = end.pos /\ piece.data = end.cur
       /\ end.cut \in Seq(Piece) /\ end.cur \in Seq(Sign)
  BY <1>10 DEF Piece, Cutting
<1>12. Wire!split_data(pos, data) = Append(end.cut, piece)
  BY <1>6 DEF end
<1> HIDE DEF piece
<1>13. /\ Pieces(Append(end.cut, piece), pos)
       /\ data # << >> => Filled(Append(end.cut, piece))
  BY <1>10, <1>11, PiecesMore
<1>14. Wire!Text(Datas(Append(end.cut, piece))) = data
  <2>1. Datas(end.cut) \in Seq(Seq(Sign)) /\ Datas(Append(end.cut, piece)) = Append(Datas(end.cut), end.cur)
    BY <1>11, DatasMore
  <2>2. Wire!Text(Append(Datas(end.cut), end.cur)) = Wire!Text(Datas(end.cut)) \o end.cur
    BY <1>11, <2>1, TextMore
  <2>. QED  BY <1>10, <2>1, <2>2, Zenon
<1>. QED  BY <1>12, <1>13, <1>14

(* A peer reads a text in chunks.                                          *)
LEMMA ChunksRead ==
  ASSUME Wire!PacketAssumption, text \in Seq(Sign)
  PROVE  Wire!ReadInChunks
<1>1. ASSUME NEW pos \in {0, 7}
      PROVE  LET cut == Wire!split_data(pos, text)
                 read == [i \in DOMAIN cut |->
                            Wire!parse(Wire!serialize(Wire!DataMessage(cut[i].pos, cut[i].data)))]
             IN /\ Wire!Text([i \in DOMAIN cut |-> read[i].data]) = text
                /\ \A i \in DOMAIN cut :
                     /\ read[i].pos = IF i = 1 THEN pos ELSE read[i-1].pos + Len(read[i-1].data)
                     /\ text # << >> => read[i].data # << >>
                     /\ Len(Wire!escape_data(read[i].data)) <= MaxSize
  <2> DEFINE cut == Wire!split_data(pos, text)
             read == [i \in DOMAIN cut |->
                        Wire!parse(Wire!serialize(Wire!DataMessage(cut[i].pos, cut[i].data)))]
  <2>1. pos \in Nat
    OBVIOUS
  <2>2. Pieces(cut, pos) /\ Wire!Text(Datas(cut)) = text /\ (text # << >> => Filled(cut))
    BY <2>1, SplitPieces
  <2> HIDE DEF cut
  <2>3. /\ Len(cut) \in Nat /\ DOMAIN cut = 1..Len(cut)
        /\ \A i \in 1..Len(cut) : cut[i] \in Piece /\ cut[i].pos \in Nat /\ cut[i].data \in Seq(Sign)
    <3>1. cut \in Seq(Piece)
      BY <2>2 DEF Pieces
    <3>2. Len(cut) \in Nat /\ DOMAIN cut = 1..Len(cut) /\ \A i \in 1..Len(cut) : cut[i] \in Piece
      BY <3>1
    <3>3. \A piece \in Piece : piece.pos \in Nat /\ piece.data \in Seq(Sign)
      BY DEF Piece
    <3>. QED  BY <3>2, <3>3
  <2>4. ASSUME NEW i \in 1..Len(cut)
        PROVE  read[i].pos = cut[i].pos /\ read[i].data = cut[i].data
    <3>1. read[i] = Wire!DataMessage(cut[i].pos, cut[i].data)
      BY <2>3, DataParsed
    <3> HIDE DEF read
    <3>2. \A m, d : Wire!DataMessage(m, d).pos = m /\ Wire!DataMessage(m, d).data = d
      BY DEF Wire!DataMessage
    <3>. QED  BY <3>1, <3>2
  <2> HIDE DEF read
  <2>5. Wire!Text([i \in DOMAIN cut |-> read[i].data]) = text
    <3>1. [i \in DOMAIN cut |-> read[i].data] = Datas(cut)
      BY <2>3, <2>4 DEF Datas
    <3>. QED  BY <2>2, <3>1
  <2>6. ASSUME NEW i \in DOMAIN cut
        PROVE  /\ read[i].pos = IF i = 1 THEN pos ELSE read[i-1].pos + Len(read[i-1].data)
               /\ text # << >> => read[i].data # << >>
               /\ Len(Wire!escape_data(read[i].data)) <= MaxSize
    <3>1. i \in 1..Len(cut) /\ (i # 1 => i - 1 \in 1..Len(cut))
      BY <2>3
    <3>2. /\ cut[i].pos = IF i = 1 THEN pos ELSE cut[i - 1].pos + Len(cut[i - 1].data)
          /\ Wire!total_size(cut[i].data) <= MaxSize
      BY <2>2, <3>1 DEF Pieces, Stop
    <3>3. text # << >> => cut[i].data # << >>
      BY <2>2, <3>1 DEF Filled
    <3>4. Len(Wire!escape_data(cut[i].data)) = Wire!total_size(cut[i].data)
      BY <2>3, <3>1, EscapedSize
    <3>. QED  BY <2>4, <3>1, <3>2, <3>3, <3>4
  <2>. QED  BY <2>5, <2>6 DEF read, cut
<1>. QED  BY <1>1 DEF Wire!ReadInChunks

LEMMA HeadsTyped ==
  ASSUME Wire!PacketAssumption, NEW head \in Wire!Heads
  PROVE  head \in Seq(Sign)
<1>1. 1 \in Sign /\ 2 \in Sign
  BY Signs
<1>2. /\ <<>> \in Seq(Sign) /\ <<Slash>> \in Seq(Sign)
      /\ <<Slash, ConnectWord, Slash, 1>> \in Seq(Sign)
      /\ <<Slash, CloseWord>> \in Seq(Sign)
  BY <1>1, Signs
<1>3. /\ <<Slash, AckWord, Slash, 1, Slash, 2>> \in Seq(Sign)
      /\ <<Slash, DataWord, Slash, 1, Slash>> \in Seq(Sign)
  BY <1>1, Signs
<1>4. /\ <<Slash, DataWord, Slash, 1, Slash, 2>> \in Seq(Sign)
      /\ <<Slash, DataWord, Slash, 1, Slash, 2, Slash>> \in Seq(Sign)
  BY <1>1, Signs
<1>. QED  BY <1>2, <1>3, <1>4, Zenon DEF Wire!Heads

LEMMA ReadBack ==
  ASSUME Wire!PacketAssumption, text \in Seq(Char)
  PROVE  Wire!PacketsReadBack
<1>1. text \in Seq(Sign)
  BY Signs
<1>2. Wire!ReadInChunks
  BY <1>1, ChunksRead
<1>3. ASSUME NEW msg \in Wire!Messages
      PROVE  Wire!parse(Wire!serialize(msg)) = msg
  <2>1. CASE msg = Wire!DataMessage(2, text)
    BY <1>1, <2>1, DataParsed
  <2>2. CASE msg \in [type : {ConnectWord, CloseWord}, session : {1}]
    <3>1. PICK t \in {ConnectWord, CloseWord} : msg = [type |-> t, session |-> 1]
      BY <2>2
    <3>2. Wire!parse(Wire!serialize([type |-> t, session |-> 1])) = [type |-> t, session |-> 1]
      BY OthersParsed
    <3>. QED  BY <3>1, <3>2, Zenon
  <2>3. CASE msg \in [type : {AckWord}, session : {1}, length : {2}]
    <3>1. msg = [type |-> AckWord, session |-> 1, length |-> 2]
      BY <2>3
    <3>2. Wire!parse(Wire!serialize([type |-> AckWord, session |-> 1, length |-> 2]))
            = [type |-> AckWord, session |-> 1, length |-> 2]
      BY OthersParsed
    <3>. QED  BY <3>1, <3>2, Zenon
  <2>. QED  BY <2>1, <2>2, <2>3 DEF Wire!Messages
<1>4. ASSUME NEW head \in Wire!Heads, Wire!parse(head \o text) # NoMessage
      PROVE  Wire!serialize(Wire!parse(head \o text)) = head \o text
  <2>1. head \o text \in Seq(Sign)
    BY <1>1, HeadsTyped, Joined
  <2>. QED  BY <1>4, <2>1, ParsedBack
<1>. QED  BY <1>2, <1>3, <1>4 DEF Wire!PacketsReadBack

LEMMA TextTyped == Wire!Spec => [](text \in Seq(Char))
<1>1. Wire!Init => text \in Seq(Char)
  BY DEF Wire!Init
<1>2. text \in Seq(Char) /\ [Wire!Next]_text => (text \in Seq(Char))'
  BY DEF Wire!Next, Wire!Type
<1>. QED  BY <1>1, <1>2, PTL DEF Wire!Spec

(* Every message is read back from its packet, a text from the chunks that *)
(* split_data cuts, and no other packet is read as a message.              *)
THEOREM PacketsRead ==
  ASSUME Wire!PacketAssumption
  PROVE  Wire!Spec => []Wire!PacketsReadBack
<1>1. text \in Seq(Char) => Wire!PacketsReadBack
  BY ReadBack
<1>. QED  BY <1>1, TextTyped, PTL
=============================================================================
