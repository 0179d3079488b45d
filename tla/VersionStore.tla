---------------------------- MODULE VersionStore ----------------------------
(***************************************************************************)
(* What the version control server of problem 10 promises its clients,     *)
(* without folders, locks and parsing: every file has a history that only  *)
(* grows, a listing is a function of the files alone, and an answer is     *)
(* taken from the histories as they are at one moment between the request  *)
(* and the answer.  VersionControl implements this specification.          *)
(***************************************************************************)
EXTENDS Naturals, Sequences

CONSTANTS
  Client,
  FilePath,  \* the paths of files, sequences of names
  Folder,    \* the paths of folders clients list, the root is <<>>
  Content,
  Nothing    \* no answer

VARIABLES
  history,   \* per path, the contents of its revisions 1, 2, ...
  answer,    \* per client, the answer it has not received yet
  told       \* the revisions <<path, number, content>> clients were told of

storeVars == <<history, answer, told>>

Init ==
  /\ history = [p \in FilePath |-> <<>>]
  /\ answer = [c \in Client |-> Nothing]
  /\ told = {}

Exists(p) == history[p] # <<>>

(* The revisions an answer names, with what they are.                      *)
Revision(p, n) == <<p, n, history[p][n]>>
Latest(p) == Revision(p, Len(history[p]))

InFolder(p, dir) ==
  /\ Len(dir) < Len(p)
  /\ SubSeq(p, 1, Len(dir)) = dir

NameIn(p, dir) == p[Len(dir) + 1]

(* A folder is what comes before the last name of a file; a file hides the *)
(* folder of its name.                                                     *)
Listing(dir) ==
  LET below == {p \in FilePath : Exists(p) /\ InFolder(p, dir)}
      files == {p \in below : Len(p) = Len(dir) + 1}
      hidden == {NameIn(p, dir) : p \in files}
  IN  {<<NameIn(p, dir), Len(history[p])>> : p \in files}
        \union {<<n, 0>> : n \in {NameIn(p, dir) : p \in below} \ hidden}

Answer(c, kind, revisions, entries) ==
  /\ answer[c] = Nothing
  /\ answer' = [answer EXCEPT ![c] =
                  [kind |-> kind, revisions |-> revisions, entries |-> entries]]
  /\ told' = told

(* The latest revision has the content after a Put, and it is a new one    *)
(* unless it had that content before.                                      *)
Put(c, p, x) ==
  /\ IF Exists(p) /\ history[p][Len(history[p])] = x
     THEN history' = history
     ELSE history' = [history EXCEPT ![p] = Append(@, x)]
  /\ Answer(c, "revision", {<<p, Len(history'[p]), x>>}, {})

Get(c, p) ==
  \E n \in 1..Len(history[p]) :
    /\ Answer(c, "content", {Revision(p, n)}, {})
    /\ UNCHANGED history

List(c, dir) ==
  /\ Answer(c, "list", {Latest(p) : p \in {q \in FilePath : /\ Exists(q)
                                                            /\ Len(q) = Len(dir) + 1
                                                            /\ InFolder(q, dir)}},
            Listing(dir))
  /\ UNCHANGED history

(* Usage, an error, or nothing at all: no revision is named.               *)
Other(c) ==
  /\ \E kind \in {"help", "error"} : Answer(c, kind, {}, {})
  /\ UNCHANGED history

Deliver(c) ==
  /\ answer[c] # Nothing
  /\ answer' = [answer EXCEPT ![c] = Nothing]
  /\ told' = told \union answer[c].revisions
  /\ UNCHANGED history

Next ==
  \E c \in Client :
    \/ \E p \in FilePath : Get(c, p) \/ \E x \in Content : Put(c, p, x)
    \/ \E dir \in Folder : List(c, dir)
    \/ Other(c)
    \/ Deliver(c)

Spec == Init /\ [][Next]_storeVars
=============================================================================
