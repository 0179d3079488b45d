-------------------------- MODULE PestControlProofs --------------------------
(***************************************************************************)
(* Proofs about PestControl, for any number of visitors, sites, species,   *)
(* targets and policies.  The inductive invariant follows a request and    *)
(* its answer: what a site will remember once it has read the answer that  *)
(* is on the way is what its authority has in force.                       *)
(***************************************************************************)
EXTENDS PestControl, TLAPS

(* What the locks and the places of the tasks mean for a client.           *)
ClientOK(c) ==
  /\ pc[c] \in {"wanting", "dialing", "queueing"} \union Working => visit[c] \in Visit
  /\ pc[c] = "dialing" => map_lock = c /\ connection[visit[c].site] = "none"
  /\ pc[c] \in {"queueing"} \union Working => connection[visit[c].site] # "none"
  /\ pc[c] \in Working => visit[c].counts \in Counts /\ site_lock[visit[c].site] = c
  /\ pc[c] \in Waiting => current[c] \in Species

Unused(s) ==
  connection[s] = "none" =>
    /\ site_lock[s] = Nobody /\ wire[s] = Quiet /\ last[s] = NoVisit
    /\ \A sp \in Species : policies[s][sp] = NoPolicy
    /\ \A i \in PolicyId : in_force[s][i] = NoPolicy

Locked(s) ==
  LET c == site_lock[s] IN
  c # Nobody => c \in Client /\ pc[c] \in Working /\ visit[c].site = s

(* A visit waits for the answer to the request it sent, about a policy     *)
(* that is still remembered, or not yet.                                   *)
WireOK(s) ==
  LET c == site_lock[s]
      sp == current[c]
      old == policies[s][sp]
  IN
  /\ c # Nobody /\ pc[c] = "deleting" => old # NoPolicy
  /\ c # Nobody /\ pc[c] = "creating" => old = NoPolicy /\ WantedBy(c, sp) # "none"
  /\ wire[s] # Quiet =>
       /\ c # Nobody /\ connection[s] = "up"
       /\ wire[s].kind \in {"delete", "ok"} => pc[c] = "deleting"
       /\ wire[s].kind \in {"create", "result"} => pc[c] = "creating"
       /\ wire[s].kind = "unexpected" => pc[c] \in Waiting
       /\ wire[s].kind = "delete" => wire[s].id = old.id
       /\ wire[s].kind = "create" => wire[s].species = sp /\ wire[s].action = WantedBy(c, sp)

(* The policies the visit will remember when it has read the answer.       *)
Believed(s, sp) ==
  LET c == site_lock[s] IN
  IF wire[s].kind = "ok" /\ sp = current[c] THEN NoPolicy
  ELSE IF wire[s].kind = "result" /\ sp = current[c]
       THEN [id |-> wire[s].id, action |-> WantedBy(c, sp)]
  ELSE policies[s][sp]

Agree(s) ==
  connection[s] # "broken" =>
    /\ \A i \in InForce(s), sp \in Species : in_force[s][i].species = sp =>
         Believed(s, sp) = [id |-> i, action |-> in_force[s][i].action]
    /\ \A sp \in Species : Believed(s, sp) # NoPolicy =>
         Believed(s, sp).id \in InForce(s) /\ in_force[s][Believed(s, sp).id].species = sp

OnePolicy(s) ==
  \A i, j \in InForce(s) : in_force[s][i].species = in_force[s][j].species => i = j

(* The species has the policy the counts ask for.                          *)
Right(s, counts, sp) ==
  IF policies[s][sp] = NoPolicy THEN Wanted(s, counts, sp) = "none"
  ELSE policies[s][sp].action = Wanted(s, counts, sp)

(* A visit leaves the species it has looked at right.                      *)
Settled(s) ==
  LET c == site_lock[s] IN
  IF c = Nobody
  THEN last[s] # NoVisit => \A sp \in Targeted(s) : Right(s, last[s], sp)
  ELSE \A sp \in Targeted(s) \ todo[c] :
         (pc[c] \in Waiting /\ sp = current[c]) \/ Right(s, visit[c].counts, sp)

SiteOK(s) == Unused(s) /\ Locked(s) /\ WireOK(s) /\ Agree(s) /\ OnePolicy(s) /\ Settled(s)

IInv ==
  /\ TypeOK
  /\ \A c \in Client : ClientOK(c)
  /\ \A s \in SiteId : SiteOK(s)

-----------------------------------------------------------------------------
(* What is on the connection to an authority.                              *)
LEMMA WireFacts ==
  ASSUME NEW w \in Request \union Reply \union {Quiet}
  PROVE  /\ w.kind \in {"quiet", "delete", "create", "ok", "unexpected", "result"}
         /\ w.kind = "quiet" <=> w = Quiet
         /\ w.kind \in {"delete", "result"} => w.id \in PolicyId
         /\ w.kind = "create" => w.species \in Species /\ w.action \in Action
BY DEF Request, Reply, Quiet

LEMMA WireKinds ==
  /\ \A i \in PolicyId : [kind |-> "delete", id |-> i] \in Request
  /\ \A sp \in Species, a \in Action : [kind |-> "create", species |-> sp, action |-> a] \in Request
  /\ \A i \in PolicyId : [kind |-> "result", id |-> i] \in Reply
  /\ [kind |-> "ok"] \in Reply /\ [kind |-> "unexpected"] \in Reply
BY DEF Request, Reply

LEMMA WantedFacts ==
  ASSUME NEW s \in SiteId, NEW counts, NEW sp \in Species
  PROVE  Wanted(s, counts, sp) \in Action \union {"none"}
BY DEF Wanted, Action

LEMMA PolicyFacts ==
  ASSUME TypeOK, NEW s \in SiteId, NEW sp \in Species, policies[s][sp] # NoPolicy
  PROVE  policies[s][sp].id \in PolicyId /\ policies[s][sp].action \in Action
BY DEF TypeOK, Policy

LEMMA VisitFacts ==
  ASSUME NEW v \in Visit
  PROVE  v.site \in SiteId /\ v.counts \in Counts \union {Conflict}
BY DEF Visit

-----------------------------------------------------------------------------
(* Types.                                                                  *)
LEMMA EndTypes ==
  ASSUME TypeOK, NEW c \in Client, End(c)
  PROVE  /\ pc' \in [Client -> Reading \union {"wanting", "dialing", "queueing"} \union Working]
         /\ visit' \in [Client -> Visit \union {NoVisit}]
         /\ todo' \in [Client -> SUBSET Species]
         /\ current' \in [Client -> Species \union {Nobody}]
BY DEF End, Goto, TypeOK, Reading

LEMMA OutsideTypes ==
  ASSUME IInv, NEW c \in Client,
         \/ Greet(c) \/ BadMessage(c) \/ LookUp(c) \/ Dialed(c) \/ DialFails(c)
         \/ \E v \in Visit : SiteVisit(c, v)
  PROVE  TypeOK'
<1>0. TypeOK /\ ClientOK(c)
  BY DEF IInv
<1>1. CASE Greet(c) \/ \E v \in Visit : SiteVisit(c, v)
  BY ZenonT(60), <1>0, <1>1 DEF TypeOK, Greet, SiteVisit, Goto, Reading, lockVars, authorityVars
<1>2. CASE BadMessage(c)
  BY <1>0, <1>2, EndTypes DEF TypeOK, BadMessage, lockVars, authorityVars
<1>3. CASE LookUp(c)
  BY <1>0, <1>3 DEF TypeOK, LookUp, Goto, authorityVars
<1>4. CASE Dialed(c)
  BY <1>0, <1>4 DEF TypeOK, Dialed, Goto
<1>5. CASE DialFails(c)
  BY <1>0, <1>5, EndTypes DEF TypeOK, DialFails, authorityVars
<1>. QED  BY <1>1, <1>2, <1>3, <1>4, <1>5

LEMMA EnterTypes ==
  ASSUME IInv, NEW c \in Client, Enter(c)
  PROVE  TypeOK'
<1>0. TypeOK
  BY DEF IInv
<1>1. CASE visit[c].counts = Conflict
  BY <1>0, <1>1, EndTypes DEF TypeOK, Enter, authorityVars
<1>2. CASE visit[c].counts # Conflict
  <2>1. /\ pc' = [pc EXCEPT ![c] = "working"]
        /\ site_lock' = [site_lock EXCEPT ![visit[c].site] = c]
        /\ todo' = [todo EXCEPT ![c] = Targeted(visit[c].site)]
        /\ UNCHANGED <<visit, current, map_lock, authorityVars, policies, last>>
    BY <1>2 DEF Enter, Goto
  <2>2. Targeted(visit[c].site) \in SUBSET Species
    BY DEF Targeted
  <2>. QED  BY <1>0, <2>1, <2>2 DEF TypeOK, Working, authorityVars
<1>. QED  BY <1>1, <1>2

LEMMA FailTypes ==
  ASSUME TypeOK, NEW c \in Client, Fail(c), UNCHANGED <<map_lock, connection, in_force, policies>>,
         wire' \in [SiteId -> Request \union Reply \union {Quiet}]
  PROVE  TypeOK'
BY EndTypes DEF TypeOK, Fail

LEMMA WorkTypes ==
  ASSUME IInv, NEW c \in Client,
         \/ \E sp \in Species : Keep(c, sp) \/ Ask(c, sp)
         \/ Deleted(c) \/ Created(c) \/ Refused(c) \/ CutOff(c) \/ Done(c)
  PROVE  TypeOK'
<1> DEFINE s == visit[c].site
<1>0. TypeOK /\ ClientOK(c) /\ pc[c] \in Working
  BY DEF IInv, Keep, Ask, Deleted, Created, Refused, CutOff, Done, Working, Waiting
<1>1. /\ s \in SiteId /\ visit[c].counts \in Counts /\ site_lock[s] = c
      /\ WireOK(s) /\ wire[s] \in Request \union Reply \union {Quiet}
  BY <1>0, VisitFacts DEF ClientOK, IInv, SiteOK, TypeOK
<1>2. CASE \E sp \in Species : Keep(c, sp)
  BY <1>0, <1>2 DEF TypeOK, Keep, lockVars, authorityVars
<1>3. ASSUME NEW sp \in Species, Ask(c, sp)
      PROVE  TypeOK'
  <2> DEFINE old == policies[s][sp]
             request == IF old # NoPolicy THEN [kind |-> "delete", id |-> old.id]
                        ELSE [kind |-> "create", species |-> sp, action |-> WantedBy(c, sp)]
  <2>1. request \in Request
    <3>1. CASE old # NoPolicy
      BY <1>0, <1>1, <3>1, PolicyFacts, WireKinds
    <3>2. CASE old = NoPolicy
      <4>1. WantedBy(c, sp) \in Action
        BY <1>1, <1>3, <3>2, WantedFacts DEF Ask, Keeps, WantedBy
      <4>. QED  BY <3>2, <4>1, WireKinds
    <3>. QED  BY <3>1, <3>2
  <2>2. wire' = [wire EXCEPT ![s] = request] /\ pc' \in [Client -> Reading \union {"wanting", "dialing", "queueing"} \union Working]
    BY <1>0, <1>3 DEF Ask, Send, Goto, TypeOK, Working, Waiting
  <2>. QED  BY <1>0, <1>1, <1>3, <2>1, <2>2 DEF TypeOK, Ask, lockVars
<1>4. CASE Deleted(c)
  <2>1. pc[c] = "deleting" /\ current[c] \in Species
    BY <1>0, <1>4 DEF Deleted, ClientOK, Waiting
  <2>2. policies' \in [SiteId -> [Species -> Policy \union {NoPolicy}]]
    BY <1>0, <1>1, <1>4, <2>1 DEF Deleted, TypeOK
  <2>3. wire' \in [SiteId -> Request \union Reply \union {Quiet}]
    <3>1. CASE WantedBy(c, current[c]) = "none"
      BY <1>0, <1>1, <1>4, <3>1 DEF Deleted, Send, TypeOK
    <3>2. CASE WantedBy(c, current[c]) # "none"
      <4>1. WantedBy(c, current[c]) \in Action
        BY <1>1, <2>1, <3>2, WantedFacts DEF WantedBy
      <4>2. [kind |-> "create", species |-> current[c], action |-> WantedBy(c, current[c])] \in Request
        BY <2>1, <4>1, WireKinds
      <4>. QED  BY <1>0, <1>1, <1>4, <3>2, <4>2 DEF Deleted, Send, TypeOK
    <3>. QED  BY <3>1, <3>2
  <2>4. pc' \in [Client -> Reading \union {"wanting", "dialing", "queueing"} \union Working]
    BY <1>0, <1>4 DEF Deleted, Goto, TypeOK, Working, Waiting
  <2>5. current' \in [Client -> Species \union {Nobody}]
    BY <1>0, <1>4 DEF Deleted, TypeOK
  <2>. QED  BY <1>0, <1>4, <2>2, <2>3, <2>4, <2>5 DEF TypeOK, Deleted, lockVars
<1>5. CASE Created(c)
  <2>1. pc[c] = "creating" /\ current[c] \in Species
    BY <1>0, <1>5 DEF Created, ClientOK, Waiting
  <2>2. wire[s].id \in PolicyId /\ WantedBy(c, current[c]) \in Action
    <3>1. WantedBy(c, current[c]) # "none"
      BY <1>1, <2>1, NullAssumption DEF WireOK
    <3>. QED  BY <1>1, <1>5, <2>1, <3>1, WireFacts, WantedFacts DEF Created, WantedBy
  <2>3. [id |-> wire[s].id, action |-> WantedBy(c, current[c])] \in Policy
    BY <2>2 DEF Policy
  <2>4. policies' \in [SiteId -> [Species -> Policy \union {NoPolicy}]]
    BY <1>0, <1>1, <1>5, <2>1, <2>3 DEF Created, TypeOK
  <2>. QED  BY <1>0, <1>1, <1>5, <2>4 DEF TypeOK, Created, Send, Goto, Working, lockVars
<1>6. CASE Refused(c)
  BY <1>0, <1>1, <1>6, FailTypes DEF Refused, Send, TypeOK
<1>7. CASE CutOff(c)
  BY <1>0, <1>7, FailTypes DEF CutOff, authorityVars, TypeOK
<1>8. CASE Done(c)
  BY <1>0, <1>1, <1>8 DEF Done, TypeOK, Goto, Reading, authorityVars
<1>. QED  BY <1>2, <1>3, <1>4, <1>5, <1>6, <1>7, <1>8

LEMMA AuthorityTypes ==
  ASSUME TypeOK, NEW s \in SiteId, Answer(s) \/ Refuse(s) \/ Break(s)
  PROVE  TypeOK'
<1>1. CASE Answer(s) /\ wire[s].kind = "delete"
  <2>1. /\ in_force' = [in_force EXCEPT ![s][wire[s].id] = NoPolicy]
        /\ wire' = [wire EXCEPT ![s] = [kind |-> "ok"]]
        /\ UNCHANGED <<taskVars, lockVars, connection, policies, last>>
    BY <1>1 DEF Answer
  <2>2. in_force' \in [SiteId -> [PolicyId -> InForcePolicy \union {NoPolicy}]]
    BY <2>1 DEF TypeOK
  <2>3. wire' \in [SiteId -> Request \union Reply \union {Quiet}]
    BY <2>1, WireKinds DEF TypeOK
  <2>. QED  BY <2>1, <2>2, <2>3 DEF TypeOK, taskVars, lockVars
<1>2. ASSUME NEW i \in PolicyId, wire[s].kind = "create", Answer(s),
             in_force' = [in_force EXCEPT ![s][i] =
                            [species |-> wire[s].species, action |-> wire[s].action]],
             wire' = [wire EXCEPT ![s] = [kind |-> "result", id |-> i]]
      PROVE  TypeOK'
  <2>1. [species |-> wire[s].species, action |-> wire[s].action] \in InForcePolicy
    BY <1>2, WireFacts DEF TypeOK, InForcePolicy
  <2>. QED  BY <1>2, <2>1, WireKinds DEF TypeOK, Answer, taskVars, lockVars
<1>3. CASE Refuse(s)
  BY <1>3, WireKinds DEF TypeOK, Refuse, taskVars, lockVars
<1>4. CASE Break(s)
  BY <1>4 DEF TypeOK, Break, taskVars, lockVars
<1>. QED  BY <1>1, <1>2, <1>3, <1>4 DEF Answer

-----------------------------------------------------------------------------
(* A site, or a client, that a step does not touch.                        *)
LEMMA SiteFrame ==
  ASSUME IInv, NEW s \in SiteId,
         connection'[s] = connection[s], policies'[s] = policies[s], wire'[s] = wire[s],
         in_force'[s] = in_force[s], last'[s] = last[s], site_lock'[s] = site_lock[s],
         \A c \in Client : c = site_lock[s] =>
           pc'[c] = pc[c] /\ visit'[c] = visit[c] /\ todo'[c] = todo[c] /\ current'[c] = current[c]
  PROVE  SiteOK(s)'
<1>0. TypeOK /\ Unused(s) /\ Locked(s) /\ WireOK(s) /\ Agree(s) /\ OnePolicy(s) /\ Settled(s)
  BY DEF IInv, SiteOK
<1> DEFINE c == site_lock[s]
<1>1. c # Nobody => /\ c \in Client /\ pc'[c] = pc[c] /\ visit'[c] = visit[c]
                    /\ todo'[c] = todo[c] /\ current'[c] = current[c]
  BY <1>0 DEF Locked
<1>2. Unused(s)' /\ Locked(s)'
  BY <1>0, <1>1 DEF Unused, Locked
<1>3. WireOK(s)'
  BY <1>0, <1>1 DEF WireOK, WantedBy
<1>4. Agree(s)'
  <2>1. InForce(s)' = InForce(s)
    BY DEF InForce
  <2>2. \A sp : Believed(s, sp)' = Believed(s, sp)
    <3>1. CASE c = Nobody
      BY <1>0, <3>1 DEF WireOK, Believed, Quiet
    <3>2. CASE c # Nobody
      BY <1>1, <3>2 DEF Believed, WantedBy
    <3>. QED  BY <3>1, <3>2
  <2>. QED  BY <1>0, <2>1, <2>2 DEF Agree
<1>5. OnePolicy(s)'
  BY <1>0 DEF OnePolicy, InForce
<1>6. Settled(s)'
  BY <1>0, <1>1 DEF Settled, Right
<1>. QED  BY <1>2, <1>3, <1>4, <1>5, <1>6 DEF SiteOK

LEMMA ClientFrame ==
  ASSUME IInv, NEW d \in Client,
         pc'[d] = pc[d], visit'[d] = visit[d], current'[d] = current[d],
         map_lock = d => map_lock' = d,
         \A s \in SiteId :
           /\ connection[s] # "none" => connection'[s] # "none"
           /\ connection[s] = "none" /\ map_lock = d => connection'[s] = "none"
           /\ site_lock[s] = d => site_lock'[s] = d
  PROVE  ClientOK(d)'
BY VisitFacts DEF IInv, ClientOK, Working, Waiting

(* A client that does not work on a site leaves all sites as they are.     *)
LEMMA NoSiteOf ==
  ASSUME IInv, NEW c \in Client, pc[c] \notin Working
  PROVE  \A s \in SiteId : site_lock[s] # c
BY NullAssumption DEF IInv, SiteOK, Locked

LEMMA SiteOf ==
  ASSUME IInv, NEW c \in Client
  PROVE  \A s \in SiteId : s # visit[c].site => site_lock[s] # c
BY NullAssumption DEF IInv, SiteOK, Locked

(* The steps of a client that does not work on a site.                     *)
LEMMA OutsideStep ==
  ASSUME IInv, NEW c \in Client,
         \/ Greet(c) \/ BadMessage(c) \/ LookUp(c) \/ DialFails(c)
         \/ \E v \in Visit : SiteVisit(c, v)
  PROVE  IInv'
<1>0. TypeOK /\ ClientOK(c) /\ (\A d \in Client : ClientOK(d)) /\ TypeOK'
  BY OutsideTypes DEF IInv
<1>1. pc[c] \notin Working
  BY DEF Greet, BadMessage, LookUp, DialFails, SiteVisit, Working, Waiting
<1>2. UNCHANGED <<site_lock, authorityVars, policies, last>>
  BY DEF Greet, BadMessage, LookUp, DialFails, SiteVisit, lockVars
<1>3. \A d \in Client \ {c} : /\ pc'[d] = pc[d] /\ visit'[d] = visit[d]
                              /\ todo'[d] = todo[d] /\ current'[d] = current[d]
  BY <1>0 DEF TypeOK, Greet, BadMessage, LookUp, DialFails, SiteVisit, Goto, End
<1>4. \A s \in SiteId : SiteOK(s)'
  BY <1>1, <1>2, <1>3, NoSiteOf, SiteFrame DEF authorityVars
<1>5. \A d \in Client \ {c} : map_lock = d => map_lock' = d
  BY <1>0, NullAssumption DEF LookUp, DialFails, Greet, BadMessage, SiteVisit, lockVars, ClientOK
<1>6. \A d \in Client \ {c} : ClientOK(d)'
  BY <1>2, <1>3, <1>5, ClientFrame DEF authorityVars
<1>7. ClientOK(c)'
  <2>1. CASE Greet(c)
    BY <1>0, <2>1 DEF TypeOK, Greet, Goto, ClientOK, Working, Waiting
  <2>2. ASSUME NEW v \in Visit, SiteVisit(c, v) PROVE ClientOK(c)'
    BY <1>0, <2>2 DEF TypeOK, SiteVisit, Goto, ClientOK, Working, Waiting
  <2>3. CASE BadMessage(c) \/ DialFails(c)
    BY <1>0, <2>3 DEF TypeOK, BadMessage, DialFails, End, Goto, ClientOK, Working, Waiting
  <2>4. CASE LookUp(c)
    BY <1>0, <2>4 DEF TypeOK, LookUp, Goto, ClientOK, Working, Waiting, authorityVars
  <2>. QED  BY <2>1, <2>2, <2>3, <2>4
<1>. QED  BY <1>0, <1>4, <1>6, <1>7 DEF IInv

LEMMA DialedStep ==
  ASSUME IInv, NEW c \in Client, NEW s \in SiteId, s = visit[c].site, Dialed(c)
  PROVE  IInv'
<1>0. TypeOK /\ ClientOK(c) /\ (\A d \in Client : ClientOK(d)) /\ TypeOK'
  BY OutsideTypes DEF IInv
<1>1. pc[c] = "dialing" /\ pc[c] \notin Working /\ visit[c] \in Visit
  BY <1>0 DEF Dialed, Working, Waiting, ClientOK
<1>2. connection[s] = "none" /\ map_lock = c
  BY <1>0, <1>1 DEF ClientOK
<1>3. /\ connection' = [connection EXCEPT ![s] = "up"]
      /\ pc' = [pc EXCEPT ![c] = "queueing"]
      /\ UNCHANGED <<visit, todo, current, site_lock, wire, in_force, policies, last>>
  BY DEF Dialed, Goto
<1>4. \A d \in Client \ {c} : pc'[d] = pc[d]
  BY <1>0, <1>3 DEF TypeOK
<1>5. \A t \in SiteId \ {s} : SiteOK(t)'
  BY <1>0, <1>1, <1>3, <1>4, NoSiteOf, SiteFrame DEF TypeOK
<1>6. SiteOK(s)'
  <2>1. /\ site_lock[s] = Nobody /\ wire[s] = Quiet /\ last[s] = NoVisit
        /\ \A sp \in Species : policies[s][sp] = NoPolicy
        /\ \A i \in PolicyId : in_force[s][i] = NoPolicy
    BY <1>2 DEF IInv, SiteOK, Unused
  <2>2. connection'[s] = "up"
    BY <1>0, <1>2, <1>3 DEF TypeOK
  <2>3. Unused(s)' /\ Locked(s)' /\ WireOK(s)' /\ Settled(s)' /\ OnePolicy(s)'
    BY <1>3, <2>1, <2>2 DEF Unused, Locked, WireOK, Settled, OnePolicy, InForce
  <2>4. Agree(s)'
    <3>1. wire'[s] = Quiet /\ wire'[s].kind \notin {"ok", "result"}
      BY <1>3, <2>1 DEF Quiet
    <3>2. InForce(s)' = {} /\ \A sp \in Species : policies'[s][sp] = NoPolicy
      BY <1>3, <2>1 DEF InForce
    <3>3. \A sp \in Species : Believed(s, sp)' = NoPolicy
      BY <3>1, <3>2 DEF Believed
    <3>. QED  BY <3>2, <3>3 DEF Agree
  <2>. QED  BY <2>3, <2>4 DEF SiteOK
<1>7. \A d \in Client \ {c} : ClientOK(d)'
  BY <1>0, <1>2, <1>3, <1>4, ClientFrame, NullAssumption DEF TypeOK
<1>8. ClientOK(c)'
  BY <1>0, <1>1, <1>2, <1>3 DEF TypeOK, ClientOK, Working, Waiting
<1>. QED  BY <1>0, <1>5, <1>6, <1>7, <1>8 DEF IInv

-----------------------------------------------------------------------------
(* The steps of a visit on its site.                                       *)
OtherTasksStay(c) ==
  \A d \in Client \ {c} : /\ pc'[d] = pc[d] /\ visit'[d] = visit[d]
                          /\ todo'[d] = todo[d] /\ current'[d] = current[d]

OtherSitesStay(s) ==
  \A t \in SiteId \ {s} :
    /\ site_lock'[t] = site_lock[t] /\ wire'[t] = wire[t] /\ policies'[t] = policies[t]
    /\ in_force'[t] = in_force[t] /\ last'[t] = last[t]

LEMMA WorkFrame ==
  ASSUME IInv, NEW c \in Client, NEW s \in SiteId, s = visit[c].site,
         site_lock[s] \in {c, Nobody},
         OtherTasksStay(c), OtherSitesStay(s), UNCHANGED <<map_lock, connection>>
  PROVE  /\ \A t \in SiteId \ {s} : SiteOK(t)'
         /\ \A d \in Client \ {c} : ClientOK(d)'
<1>1. \A t \in SiteId \ {s} : SiteOK(t)'
  BY SiteOf, SiteFrame DEF OtherTasksStay, OtherSitesStay
<1>2. \A d \in Client \ {c} : ClientOK(d)'
  BY ClientFrame, NullAssumption DEF OtherTasksStay, OtherSitesStay
<1>. QED  BY <1>1, <1>2

(* What holds while a visit works.                                         *)
LEMMA AtWork ==
  ASSUME IInv, NEW c \in Client, pc[c] \in Working
  PROVE  LET s == visit[c].site IN
         /\ visit[c] \in Visit /\ s \in SiteId /\ visit[c].counts \in Counts
         /\ site_lock[s] = c /\ c # Nobody /\ connection[s] # "none"
         /\ wire[s] \in Request \union Reply \union {Quiet}
         /\ TypeOK /\ SiteOK(s)
BY VisitFacts, NullAssumption DEF IInv, ClientOK, TypeOK, Working, Waiting

(* What a site will remember, before and after an answer is on the way.    *)
LEMMA NoAnswer ==
  ASSUME NEW s \in SiteId, wire[s].kind \notin {"ok", "result"}
  PROVE  \A sp : Believed(s, sp) = policies[s][sp]
BY DEF Believed

LEMMA NoAnswerNext ==
  ASSUME NEW s \in SiteId, wire'[s].kind \notin {"ok", "result"}
  PROVE  \A sp : Believed(s, sp)' = policies'[s][sp]
BY DEF Believed

LEMMA StillAgree ==
  ASSUME TypeOK, NEW s \in SiteId, Agree(s), connection'[s] = connection[s],
         in_force'[s] = in_force[s], \A sp \in Species : Believed(s, sp)' = Believed(s, sp)
  PROVE  Agree(s)'
<1>1. \A i \in InForce(s) : in_force[s][i].species \in Species
  BY DEF TypeOK, InForce, InForcePolicy
<1>. QED  BY <1>1 DEF Agree, InForce

LEMMA EnterStep ==
  ASSUME IInv, NEW c \in Client, NEW s \in SiteId, s = visit[c].site, Enter(c)
  PROVE  IInv'
<1>0. TypeOK /\ TypeOK' /\ ClientOK(c)
  BY EnterTypes DEF IInv
<1>1. pc[c] = "queueing" /\ pc[c] \notin Working /\ visit[c] \in Visit /\ site_lock[s] = Nobody
  BY <1>0 DEF Enter, Working, Waiting, ClientOK
<1>2. connection[s] # "none" /\ SiteOK(s)
  BY <1>0, <1>1 DEF ClientOK, IInv
<1>3. UNCHANGED <<map_lock, connection, wire, in_force, policies, last>>
  BY DEF Enter, authorityVars
<1>4. CASE visit[c].counts = Conflict
  <2>1. End(c) /\ site_lock' = site_lock
    BY <1>4 DEF Enter
  <2>2. OtherTasksStay(c) /\ OtherSitesStay(s)
    BY <1>0, <1>3, <2>1 DEF End, Goto, TypeOK, OtherTasksStay, OtherSitesStay
  <2>3. SiteOK(s)'
    BY <1>1, <1>2, <1>3, <2>1, SiteFrame, NullAssumption
  <2>4. ClientOK(c)'
    BY <1>0, <2>1 DEF End, Goto, TypeOK, ClientOK, Working, Waiting
  <2>. QED  BY <1>0, <1>1, <1>2, <1>3, <2>2, <2>3, <2>4, WorkFrame DEF IInv
<1>5. CASE visit[c].counts # Conflict
  <2>1. /\ pc' = [pc EXCEPT ![c] = "working"]
        /\ site_lock' = [site_lock EXCEPT ![s] = c]
        /\ todo' = [todo EXCEPT ![c] = Targeted(s)]
        /\ UNCHANGED <<visit, current>>
    BY <1>5 DEF Enter, Goto
  <2>2. OtherTasksStay(c) /\ OtherSitesStay(s)
    BY <1>0, <1>3, <2>1 DEF TypeOK, OtherTasksStay, OtherSitesStay
  <2>3. site_lock'[s] = c /\ pc'[c] = "working" /\ todo'[c] = Targeted(s) /\ c # Nobody
    BY <1>0, <1>2, <2>1, NullAssumption DEF TypeOK
  <2>4. Unused(s)' /\ Locked(s)' /\ OnePolicy(s)'
    BY <1>2, <1>3, <2>1, <2>3 DEF SiteOK, Unused, Locked, OnePolicy, InForce, Working
  <2>5. wire[s] = Quiet
    BY <1>1, <1>2 DEF SiteOK, WireOK
  <2>6. WireOK(s)'
    BY <1>3, <2>3, <2>5 DEF WireOK
  <2>7. Agree(s)'
    <3>1. wire[s].kind \notin {"ok", "result"} /\ wire' = wire /\ policies' = policies
      BY <1>3, <2>5 DEF Quiet
    <3>2. \A sp : Believed(s, sp)' = Believed(s, sp)
      BY <3>1, NoAnswer, NoAnswerNext
    <3>. QED  BY <1>0, <1>2, <1>3, <3>2, StillAgree DEF SiteOK
  <2>8. Settled(s)'
    BY <2>3 DEF Settled
  <2>9. SiteOK(s)'
    BY <2>4, <2>6, <2>7, <2>8 DEF SiteOK
  <2>10. ClientOK(c)'
    BY <1>0, <1>1, <1>2, <1>3, <1>5, <2>1, <2>3, VisitFacts DEF ClientOK, Working, Waiting
  <2>. QED  BY <1>0, <1>1, <1>2, <1>3, <2>2, <2>9, <2>10, WorkFrame DEF IInv
<1>. QED  BY <1>4, <1>5

(* A step of a visit that keeps working: the parts that only its place     *)
(* changes.                                                                *)
LEMMA WorkOn ==
  ASSUME IInv, NEW c \in Client, NEW s \in SiteId, s = visit[c].site, pc[c] \in Working,
         pc'[c] \in Working, pc'[c] \in Waiting => current'[c] \in Species,
         visit' = visit, site_lock' = site_lock, map_lock' = map_lock,
         connection' = connection, in_force' = in_force, last' = last
  PROVE  ClientOK(c)' /\ Unused(s)' /\ Locked(s)' /\ OnePolicy(s)'
<1>1. /\ visit[c] \in Visit /\ visit[c].counts \in Counts /\ site_lock[s] = c
      /\ c # Nobody /\ connection[s] # "none" /\ SiteOK(s)
  BY AtWork
<1>2. pc'[c] \notin {"dialing"}
  BY DEF Working, Waiting
<1>3. ClientOK(c)'
  BY <1>1, <1>2 DEF ClientOK
<1>4. Unused(s)' /\ Locked(s)' /\ OnePolicy(s)'
  BY <1>1 DEF SiteOK, Unused, Locked, OnePolicy, InForce
<1>. QED  BY <1>3, <1>4

LEMMA KeepStep ==
  ASSUME IInv, NEW c \in Client, NEW s \in SiteId, s = visit[c].site,
         NEW sp \in Species, Keep(c, sp)
  PROVE  IInv'
<1>0. TypeOK' /\ pc[c] = "working" /\ pc[c] \in Working
  BY WorkTypes DEF Keep, Working
<1>1. site_lock[s] = c /\ c # Nobody /\ TypeOK /\ SiteOK(s)
  BY <1>0, AtWork
<1>2. /\ todo' = [todo EXCEPT ![c] = @ \ {sp}]
      /\ UNCHANGED <<pc, visit, current, map_lock, site_lock, connection, wire, in_force, policies, last>>
  BY DEF Keep, lockVars, authorityVars
<1>3. OtherTasksStay(c) /\ OtherSitesStay(s)
  BY <1>1, <1>2 DEF TypeOK, OtherTasksStay, OtherSitesStay
<1>4. Right(s, visit[c].counts, sp)
  BY DEF Keep, Keeps, WantedBy, Right
<1>5. ClientOK(c)' /\ Unused(s)' /\ Locked(s)' /\ OnePolicy(s)'
  BY <1>0, <1>1, <1>2, WorkOn DEF Waiting
<1>6. WireOK(s)'
  BY <1>1, <1>2 DEF SiteOK, WireOK, WantedBy
<1>7. Agree(s)'
  <2>1. \A x : Believed(s, x)' = Believed(s, x)
    BY <1>2 DEF Believed, WantedBy
  <2>. QED  BY <1>1, <1>2, <2>1, StillAgree DEF SiteOK
<1>8. Settled(s)'
  <2>1. todo'[c] = todo[c] \ {sp}
    BY <1>1, <1>2 DEF TypeOK
  <2>. QED  BY <1>1, <1>2, <1>4, <2>1 DEF SiteOK, Settled, Right
<1>. QED  BY <1>0, <1>1, <1>2, <1>3, <1>5, <1>6, <1>7, <1>8, WorkFrame DEF IInv, SiteOK

LEMMA AskStep ==
  ASSUME IInv, NEW c \in Client, NEW s \in SiteId, s = visit[c].site,
         NEW sp \in Species, Ask(c, sp)
  PROVE  IInv'
<1> DEFINE old == policies[s][sp]
           request == IF old # NoPolicy THEN [kind |-> "delete", id |-> old.id]
                      ELSE [kind |-> "create", species |-> sp, action |-> WantedBy(c, sp)]
<1>0. TypeOK' /\ pc[c] = "working" /\ pc[c] \in Working
  BY WorkTypes DEF Ask, Working
<1>1. site_lock[s] = c /\ c # Nobody /\ TypeOK /\ SiteOK(s)
  BY <1>0, AtWork
<1>2. /\ pc' = [pc EXCEPT ![c] = IF old # NoPolicy THEN "deleting" ELSE "creating"]
      /\ wire' = [wire EXCEPT ![s] = request]
      /\ current' = [current EXCEPT ![c] = sp]
      /\ todo' = [todo EXCEPT ![c] = @ \ {sp}]
      /\ UNCHANGED <<visit, map_lock, site_lock, connection, in_force, policies, last>>
  BY DEF Ask, Send, Goto, lockVars
<1>3. OtherTasksStay(c) /\ OtherSitesStay(s)
  BY <1>1, <1>2 DEF TypeOK, OtherTasksStay, OtherSitesStay
<1>4. /\ pc'[c] = IF old # NoPolicy THEN "deleting" ELSE "creating"
      /\ wire'[s] = request /\ current'[c] = sp /\ todo'[c] = todo[c] \ {sp}
  BY <1>1, <1>2 DEF TypeOK
<1>5. ClientOK(c)' /\ Unused(s)' /\ Locked(s)' /\ OnePolicy(s)'
  BY <1>0, <1>1, <1>2, <1>4, WorkOn DEF Working, Waiting
<1>6. WireOK(s)'
  <2>1. old = NoPolicy => WantedBy(c, sp) # "none"
    BY DEF Ask, Keeps
  <2>2. /\ WantedBy(c, sp)' = WantedBy(c, sp) /\ policies'[s][sp] = old
        /\ site_lock'[s] = c /\ connection'[s] = "up"
    BY <1>1, <1>2 DEF WantedBy, Ask
  <2>3. CASE old # NoPolicy
    <3>1. pc'[c] = "deleting" /\ wire'[s].kind = "delete" /\ wire'[s].id = old.id
      BY <1>4, <2>3
    <3>2. current'[c] = sp
      BY <1>4
    <3>. QED  BY <1>1, <2>2, <2>3, <3>1, <3>2 DEF WireOK
  <2>4. CASE old = NoPolicy
    <3>1. /\ pc'[c] = "creating" /\ wire'[s].kind = "create"
          /\ wire'[s].species = sp /\ wire'[s].action = WantedBy(c, sp)
      BY <1>4, <2>4
    <3>. QED  BY <1>1, <1>4, <2>1, <2>2, <2>4, <3>1 DEF WireOK
  <2>. QED  BY <2>3, <2>4
<1>7. Agree(s)'
  <2>1. wire[s] = Quiet
    BY <1>0, <1>1, AtWork, WireFacts DEF SiteOK, WireOK, Waiting
  <2>2. wire[s].kind \notin {"ok", "result"} /\ wire'[s].kind \notin {"ok", "result"}
    BY <1>4, <2>1 DEF Quiet
  <2>3. \A x : Believed(s, x)' = Believed(s, x)
    BY <1>2, <2>2, NoAnswer, NoAnswerNext
  <2>. QED  BY <1>1, <1>2, <2>3, StillAgree DEF SiteOK
<1>8. Settled(s)'
  <2>1. pc'[c] \in Waiting /\ pc[c] \notin Waiting
    BY <1>0, <1>4 DEF Waiting
  <2>. QED  BY <1>1, <1>2, <1>4, <2>1 DEF SiteOK, Settled, Right
<1>. QED  BY <1>0, <1>1, <1>2, <1>3, <1>5, <1>6, <1>7, <1>8, WorkFrame DEF IInv, SiteOK

(* A visit goes on: what it changes is its place, the wire, the policies   *)
(* it remembers of one species, and what it has yet to look at.            *)
LEMMA WorkStep ==
  ASSUME IInv, TypeOK', NEW c \in Client, NEW s \in SiteId, s = visit[c].site,
         pc[c] \in Working, pc'[c] \in Working, pc'[c] \in Waiting => current'[c] \in Species,
         OtherTasksStay(c), OtherSitesStay(s),
         UNCHANGED <<visit, map_lock, site_lock, connection, in_force, last>>,
         WireOK(s)', Agree(s)', Settled(s)'
  PROVE  IInv'
<1>1. site_lock[s] = c
  BY AtWork
<1>2. ClientOK(c)' /\ Unused(s)' /\ Locked(s)' /\ OnePolicy(s)'
  BY WorkOn
<1>3. SiteOK(s)'
  BY <1>2 DEF SiteOK
<1>. QED  BY <1>1, <1>2, <1>3, WorkFrame DEF IInv

LEMMA SettledOn ==
  ASSUME NEW c \in Client, NEW s \in SiteId, s = visit[c].site, site_lock[s] = c, c # Nobody,
         Settled(s), NEW sp \in Species, sp = current[c],
         UNCHANGED <<visit, site_lock, todo>>,
         \A x \in Species \ {sp} : policies'[s][x] = policies[s][x],
         (pc'[c] \in Waiting /\ current'[c] = sp) \/ Right(s, visit[c].counts, sp)'
  PROVE  Settled(s)'
<1>1. ASSUME NEW x \in Targeted(s) \ todo[c]
      PROVE  (pc'[c] \in Waiting /\ x = current'[c]) \/ Right(s, visit[c].counts, x)'
  <2>1. CASE x = sp
    BY <2>1
  <2>2. CASE x # sp
    <3>1. Right(s, visit[c].counts, x) /\ x \in Species
      BY <1>1, <2>2 DEF Settled, Targeted
    <3>. QED  BY <2>2, <3>1 DEF Right
  <2>. QED  BY <2>1, <2>2
<1>. QED  BY <1>1 DEF Settled

(* The answer to a delete is read.                                         *)
LEMMA DeletedStep ==
  ASSUME IInv, NEW c \in Client, NEW s \in SiteId, s = visit[c].site,
         NEW sp, sp = current[c], NEW new, new = WantedBy(c, sp), Deleted(c)
  PROVE  IInv'
<1>0. TypeOK' /\ pc[c] = "deleting" /\ pc[c] \in Working /\ wire[s].kind = "ok"
  BY WorkTypes DEF Deleted, Working, Waiting
<1>1. /\ site_lock[s] = c /\ c # Nobody /\ TypeOK /\ SiteOK(s) /\ ClientOK(c)
      /\ sp \in Species
  BY <1>0, AtWork DEF IInv, ClientOK, Waiting
<1>2. /\ policies' = [policies EXCEPT ![s][sp] = NoPolicy]
      /\ UNCHANGED <<visit, todo, map_lock, site_lock, connection, in_force, last>>
  BY DEF Deleted, lockVars
<1>3. policies'[s][sp] = NoPolicy /\ \A x \in Species \ {sp} : policies'[s][x] = policies[s][x]
  BY <1>1, <1>2 DEF TypeOK
<1>4. wire'[s].kind \notin {"ok", "result"} => Agree(s)'
  <2>1. \A x \in Species : Believed(s, x) = IF x = sp THEN NoPolicy ELSE policies[s][x]
    BY <1>0, <1>1 DEF Believed
  <2>. QED  BY <1>1, <1>2, <1>3, <2>1, NoAnswerNext, StillAgree DEF SiteOK
<1>5. CASE new = "none"
  <2>1. pc' = [pc EXCEPT ![c] = "working"] /\ wire' = [wire EXCEPT ![s] = Quiet]
        /\ current' = [current EXCEPT ![c] = Nobody]
    BY <1>5 DEF Deleted, Goto, Send
  <2>2. pc'[c] = "working" /\ wire'[s] = Quiet /\ wire'[s].kind = "quiet"
    BY <1>1, <2>1 DEF TypeOK, Quiet
  <2>3. OtherTasksStay(c) /\ OtherSitesStay(s)
    BY <1>1, <1>2, <2>1 DEF TypeOK, OtherTasksStay, OtherSitesStay
  <2>4. WireOK(s)'
    BY <1>1, <1>2, <2>2 DEF WireOK
  <2>5. Right(s, visit[c].counts, sp)'
    BY <1>2, <1>3, <1>5 DEF Right, WantedBy
  <2>6. Settled(s)'
    BY <1>1, <1>2, <1>3, <2>5, SettledOn DEF SiteOK
  <2>. QED  BY <1>0, <1>2, <1>4, <2>2, <2>3, <2>4, <2>6, WorkStep DEF Working, Waiting
<1>6. CASE new # "none"
  <2>1. /\ pc' = [pc EXCEPT ![c] = "creating"] /\ current' = current
        /\ wire' = [wire EXCEPT ![s] = [kind |-> "create", species |-> sp, action |-> new]]
    BY <1>6 DEF Deleted, Goto, Send
  <2>2. /\ pc'[c] = "creating" /\ wire'[s].kind = "create"
        /\ wire'[s].species = sp /\ wire'[s].action = new
    BY <1>1, <2>1 DEF TypeOK
  <2>3. OtherTasksStay(c) /\ OtherSitesStay(s)
    BY <1>1, <1>2, <2>1 DEF TypeOK, OtherTasksStay, OtherSitesStay
  <2>4. WireOK(s)'
    <3>1. WantedBy(c, sp)' = new /\ site_lock'[s] = c /\ current'[c] = sp
      BY <1>1, <1>2, <2>1 DEF WantedBy
    <3>2. connection'[s] = "up"
      BY <1>0, <1>1, <1>2 DEF SiteOK, WireOK, Quiet
    <3>. QED  BY <1>1, <1>3, <1>6, <2>2, <3>1, <3>2 DEF WireOK
  <2>5. Settled(s)'
    BY <1>1, <1>2, <1>3, <2>1, <2>2, SettledOn DEF SiteOK, Waiting
  <2>. QED  BY <1>0, <1>1, <1>2, <1>4, <2>1, <2>2, <2>3, <2>4, <2>5, WorkStep DEF Working, Waiting
<1>. QED  BY <1>5, <1>6

(* The answer to a create is read.                                         *)
LEMMA CreatedStep ==
  ASSUME IInv, NEW c \in Client, NEW s \in SiteId, s = visit[c].site,
         NEW sp, sp = current[c], NEW new, new = WantedBy(c, sp), Created(c)
  PROVE  IInv'
<1>0. TypeOK' /\ pc[c] = "creating" /\ pc[c] \in Working /\ wire[s].kind = "result"
  BY WorkTypes DEF Created, Working, Waiting
<1>1. /\ site_lock[s] = c /\ c # Nobody /\ TypeOK /\ SiteOK(s) /\ ClientOK(c)
      /\ sp \in Species
  BY <1>0, AtWork DEF IInv, ClientOK, Waiting
<1> DEFINE created == [id |-> wire[s].id, action |-> new]
<1>2. /\ policies' = [policies EXCEPT ![s][sp] = created]
      /\ pc' = [pc EXCEPT ![c] = "working"] /\ wire' = [wire EXCEPT ![s] = Quiet]
      /\ current' = [current EXCEPT ![c] = Nobody]
      /\ UNCHANGED <<visit, todo, map_lock, site_lock, connection, in_force, last>>
  BY DEF Created, lockVars, Goto, Send
<1>3. created # NoPolicy
  <2>1. new \in Action /\ wire[s].id \in PolicyId
    <3>1. s \in SiteId /\ wire[s] \in Request \union Reply \union {Quiet}
      BY <1>0, AtWork
    <3>2. wire[s].id \in PolicyId
      BY <1>0, <3>1, WireFacts
    <3>3. new # "none"
      BY <1>0, <1>1 DEF SiteOK, WireOK
    <3>4. new \in Action \union {"none"}
      BY <1>1, <3>1, WantedFacts DEF WantedBy
    <3>. QED  BY <3>2, <3>3, <3>4
  <2>. QED  BY <2>1, NullAssumption DEF Policy
<1>4. policies'[s][sp] = created /\ \A x \in Species \ {sp} : policies'[s][x] = policies[s][x]
  BY <1>1, <1>2 DEF TypeOK
<1>5. pc'[c] = "working" /\ wire'[s] = Quiet /\ wire'[s].kind = "quiet"
  BY <1>1, <1>2 DEF TypeOK, Quiet
<1>6. OtherTasksStay(c) /\ OtherSitesStay(s)
  BY <1>1, <1>2 DEF TypeOK, OtherTasksStay, OtherSitesStay
<1>7. WireOK(s)'
  BY <1>1, <1>2, <1>5 DEF WireOK
<1>8. Agree(s)'
  <2>1. \A x \in Species : Believed(s, x) = IF x = sp THEN created ELSE policies[s][x]
    BY <1>0, <1>1 DEF Believed
  <2>. QED  BY SMTT(60), <1>1, <1>2, <1>4, <1>5, <2>1, NoAnswerNext, StillAgree DEF SiteOK
<1>9. Settled(s)'
  <2>1. Right(s, visit[c].counts, sp)'
    BY <1>2, <1>3, <1>4 DEF Right, WantedBy
  <2>. QED  BY <1>1, <1>2, <1>4, <2>1, SettledOn DEF SiteOK
<1>. QED  BY <1>0, <1>2, <1>5, <1>6, <1>7, <1>8, <1>9, WorkStep DEF Working, Waiting

(* A visit that fails frees its site.                                      *)
LEMMA FailStep ==
  ASSUME IInv, TypeOK', NEW c \in Client, NEW s \in SiteId, s = visit[c].site,
         pc[c] \in Working, Fail(c), UNCHANGED <<map_lock, connection, in_force, policies>>,
         wire[s].kind \in {"quiet", "unexpected"}, wire' = [wire EXCEPT ![s] = Quiet]
  PROVE  IInv'
<1>1. site_lock[s] = c /\ c # Nobody /\ TypeOK /\ SiteOK(s) /\ connection[s] # "none"
  BY AtWork
<1>2. /\ site_lock' = [site_lock EXCEPT ![s] = Nobody] /\ last' = [last EXCEPT ![s] = NoVisit]
      /\ pc' = [pc EXCEPT ![c] = "ended"] /\ End(c)
  BY DEF Fail, End, Goto
<1>3. /\ site_lock'[s] = Nobody /\ last'[s] = NoVisit /\ pc'[c] = "ended"
      /\ wire'[s] = Quiet /\ wire'[s].kind = "quiet"
  BY <1>1, <1>2 DEF TypeOK, Quiet
<1>4. OtherTasksStay(c) /\ OtherSitesStay(s)
  BY <1>1, <1>2 DEF TypeOK, OtherTasksStay, OtherSitesStay, End, Goto
<1>5. Unused(s)' /\ Locked(s)' /\ WireOK(s)' /\ OnePolicy(s)' /\ Settled(s)'
  BY <1>1, <1>3 DEF SiteOK, Unused, Locked, WireOK, OnePolicy, InForce, Settled
<1>6. Agree(s)'
  <2>1. \A x : Believed(s, x)' = Believed(s, x)
    BY <1>3, NoAnswer, NoAnswerNext
  <2>. QED  BY <1>1, <2>1, StillAgree DEF SiteOK
<1>7. ClientOK(c)'
  BY <1>3 DEF ClientOK, Working, Waiting
<1>. QED  BY <1>1, <1>4, <1>5, <1>6, <1>7, WorkFrame DEF IInv, SiteOK

LEMMA RefusedStep ==
  ASSUME IInv, NEW c \in Client, Refused(c) \/ CutOff(c)
  PROVE  IInv'
<1> DEFINE s == visit[c].site
<1>0. TypeOK' /\ pc[c] \in Working /\ Fail(c)
  BY WorkTypes DEF Refused, CutOff, Working
<1>1. /\ s \in SiteId /\ TypeOK /\ SiteOK(s)
      /\ UNCHANGED <<map_lock, connection, in_force, policies>>
  BY <1>0, AtWork DEF Refused, CutOff, authorityVars
<1>2. CASE Refused(c)
  BY <1>0, <1>1, <1>2, FailStep DEF Refused, Send
<1>3. CASE CutOff(c)
  <2>1. wire[s] = Quiet /\ wire' = wire
    BY <1>1, <1>3 DEF CutOff, SiteOK, WireOK, authorityVars
  <2>2. wire' = [wire EXCEPT ![s] = Quiet] /\ wire[s].kind = "quiet"
    BY <1>1, <2>1 DEF TypeOK, Quiet
  <2>. QED  BY <1>0, <1>1, <2>2, FailStep
<1>. QED  BY <1>2, <1>3 DEF Refused, CutOff

LEMMA DoneStep ==
  ASSUME IInv, NEW c \in Client, NEW s \in SiteId, s = visit[c].site, Done(c)
  PROVE  IInv'
<1>0. TypeOK' /\ pc[c] = "working" /\ pc[c] \in Working /\ pc[c] \notin Waiting
  BY WorkTypes DEF Done, Working, Waiting
<1>1. /\ site_lock[s] = c /\ c # Nobody /\ TypeOK /\ SiteOK(s) /\ connection[s] # "none"
      /\ wire[s] \in Request \union Reply \union {Quiet}
  BY <1>0, AtWork
<1>2. /\ pc' = [pc EXCEPT ![c] = "reading"] /\ visit' = [visit EXCEPT ![c] = NoVisit]
      /\ site_lock' = [site_lock EXCEPT ![s] = Nobody]
      /\ last' = [last EXCEPT ![s] = visit[c].counts] /\ todo[c] = {}
      /\ UNCHANGED <<todo, current, map_lock, connection, wire, in_force, policies>>
  BY DEF Done, Goto, authorityVars
<1>3. /\ site_lock'[s] = Nobody /\ last'[s] = visit[c].counts /\ pc'[c] = "reading"
  BY <1>1, <1>2 DEF TypeOK
<1>4. OtherTasksStay(c) /\ OtherSitesStay(s)
  BY <1>1, <1>2 DEF TypeOK, OtherTasksStay, OtherSitesStay
<1>5. wire[s] = Quiet /\ wire[s].kind = "quiet"
  BY <1>0, <1>1, WireFacts DEF SiteOK, WireOK
<1>6. Unused(s)' /\ Locked(s)' /\ WireOK(s)' /\ OnePolicy(s)'
  BY <1>1, <1>2, <1>3, <1>5 DEF SiteOK, Unused, Locked, WireOK, OnePolicy, InForce
<1>7. Agree(s)'
  <2>1. \A x : Believed(s, x)' = Believed(s, x)
    BY <1>2, <1>5, NoAnswer, NoAnswerNext
  <2>. QED  BY <1>1, <1>2, <2>1, StillAgree DEF SiteOK
<1>8. Settled(s)'
  BY <1>0, <1>1, <1>2, <1>3 DEF SiteOK, Settled, Right
<1>9. ClientOK(c)'
  BY <1>3 DEF ClientOK, Working, Waiting
<1>. QED  BY <1>0, <1>1, <1>2, <1>4, <1>6, <1>7, <1>8, <1>9, WorkFrame DEF IInv, SiteOK

-----------------------------------------------------------------------------
(* The steps of an authority.                                              *)
LEMMA AuthorityFrame ==
  ASSUME IInv, TypeOK', NEW s \in SiteId, connection[s] = "up", connection'[s] # "none",
         UNCHANGED <<taskVars, lockVars, policies, last>>,
         \A t \in SiteId \ {s} : /\ connection'[t] = connection[t] /\ wire'[t] = wire[t]
                                 /\ in_force'[t] = in_force[t],
         WireOK(s)', Agree(s)', OnePolicy(s)'
  PROVE  IInv'
<1>1. \A t \in SiteId \ {s} : SiteOK(t)'
  BY SiteFrame DEF taskVars, lockVars
<1>2. \A d \in Client : ClientOK(d)'
  <2>1. \A t \in SiteId : /\ connection[t] # "none" => connection'[t] # "none"
                          /\ connection[t] = "none" => connection'[t] = "none"
    OBVIOUS
  <2>. QED  BY <2>1, ClientFrame DEF taskVars, lockVars
<1>3. Unused(s)' /\ Locked(s)' /\ Settled(s)'
  BY DEF IInv, SiteOK, Unused, Locked, Settled, Right, taskVars, lockVars
<1>. QED  BY <1>1, <1>2, <1>3 DEF IInv, SiteOK

LEMMA BreakStep ==
  ASSUME IInv, NEW s \in SiteId, Break(s)
  PROVE  IInv'
<1>0. TypeOK /\ TypeOK' /\ SiteOK(s)
  BY AuthorityTypes DEF IInv
<1>1. /\ connection[s] = "up" /\ connection' = [connection EXCEPT ![s] = "broken"]
      /\ wire' = [wire EXCEPT ![s] = Quiet]
      /\ UNCHANGED <<taskVars, lockVars, in_force, policies, last>>
  BY DEF Break
<1>2. connection'[s] = "broken" /\ wire'[s] = Quiet
  BY <1>0, <1>1 DEF TypeOK
<1>3. \A t \in SiteId \ {s} : connection'[t] = connection[t] /\ wire'[t] = wire[t]
  BY <1>0, <1>1 DEF TypeOK
<1>4. WireOK(s)' /\ Agree(s)' /\ OnePolicy(s)'
  BY <1>0, <1>1, <1>2 DEF SiteOK, WireOK, Agree, OnePolicy, InForce, WantedBy, taskVars, lockVars
<1>. QED  BY <1>0, <1>1, <1>2, <1>3, <1>4, AuthorityFrame

LEMMA RefuseStep ==
  ASSUME IInv, NEW s \in SiteId, Refuse(s)
  PROVE  IInv'
<1>0. TypeOK /\ TypeOK' /\ SiteOK(s)
  BY AuthorityTypes DEF IInv
<1>1. /\ connection[s] = "up" /\ wire[s] \in Request
      /\ wire' = [wire EXCEPT ![s] = [kind |-> "unexpected"]]
      /\ UNCHANGED <<taskVars, lockVars, connection, in_force, policies, last>>
  BY DEF Refuse
<1>2. wire'[s].kind = "unexpected" /\ \A t \in SiteId \ {s} : wire'[t] = wire[t]
  BY <1>0, <1>1 DEF TypeOK
<1>3. wire[s].kind \in {"delete", "create"} /\ wire[s] # Quiet
  BY <1>1 DEF Request, Quiet
<1>4. WireOK(s)'
  BY <1>0, <1>1, <1>2, <1>3 DEF SiteOK, WireOK, Waiting, WantedBy, taskVars, lockVars
<1>5. Agree(s)'
  <2>1. \A x : Believed(s, x)' = Believed(s, x)
    BY <1>1, <1>2, <1>3, NoAnswer, NoAnswerNext
  <2>. QED  BY <1>0, <1>1, <2>1, StillAgree DEF SiteOK
<1>6. OnePolicy(s)'
  BY <1>0, <1>1 DEF SiteOK, OnePolicy, InForce
<1>. QED  BY <1>0, <1>1, <1>2, <1>4, <1>5, <1>6, AuthorityFrame

(* What an authority that is in agreement has in force.                    *)
LEMMA InForceFacts ==
  ASSUME TypeOK, NEW s \in SiteId, Agree(s), connection[s] = "up",
         wire[s].kind \notin {"ok", "result"}
  PROVE  /\ \A i \in InForce(s) :
              /\ i \in PolicyId /\ in_force[s][i].species \in Species
              /\ policies[s][in_force[s][i].species] = [id |-> i, action |-> in_force[s][i].action]
              /\ policies[s][in_force[s][i].species] # NoPolicy
         /\ \A sp \in Species : policies[s][sp] # NoPolicy =>
              policies[s][sp].id \in InForce(s) /\ in_force[s][policies[s][sp].id].species = sp
<1>1. \A sp : Believed(s, sp) = policies[s][sp]
  BY NoAnswer
<1>2. ASSUME NEW i \in InForce(s)
      PROVE  /\ i \in PolicyId /\ in_force[s][i].species \in Species
             /\ in_force[s][i].action \in Action
  BY DEF InForce, TypeOK, InForcePolicy
<1>3. \A i \in InForce(s) :
        policies[s][in_force[s][i].species] = [id |-> i, action |-> in_force[s][i].action]
  BY <1>1, <1>2 DEF Agree
<1>4. ASSUME NEW i \in InForce(s)
      PROVE  policies[s][in_force[s][i].species] # NoPolicy
  <2>1. [id |-> i, action |-> in_force[s][i].action] \in Policy
    BY <1>2 DEF Policy
  <2>. QED  BY <1>3, <2>1, NullAssumption
<1>5. \A sp \in Species : policies[s][sp] # NoPolicy =>
        policies[s][sp].id \in InForce(s) /\ in_force[s][policies[s][sp].id].species = sp
  BY <1>1 DEF Agree
<1>. QED  BY <1>2, <1>3, <1>4, <1>5

(* The policy the site remembers is the one, and the only one, that ends.  *)
LEMMA DeleteAnswered ==
  ASSUME IInv, NEW s \in SiteId, Answer(s), wire[s].kind = "delete"
  PROVE  IInv'
<1> DEFINE c == site_lock[s]
           sp == current[c]
           id == wire[s].id
<1>0. TypeOK /\ TypeOK' /\ SiteOK(s) /\ connection[s] = "up"
  BY AuthorityTypes DEF IInv, Answer
<1>1. /\ in_force' = [in_force EXCEPT ![s][id] = NoPolicy]
      /\ wire' = [wire EXCEPT ![s] = [kind |-> "ok"]]
      /\ UNCHANGED <<taskVars, lockVars, connection, policies, last>>
  BY DEF Answer
<1>2. /\ c \in Client /\ c # Nobody /\ pc[c] = "deleting"
      /\ policies[s][sp] # NoPolicy /\ id = policies[s][sp].id
  BY <1>0 DEF SiteOK, WireOK, Locked, Quiet
<1>3. sp \in Species /\ id \in PolicyId
  <2>1. ClientOK(c)
    BY <1>2 DEF IInv
  <2>. QED  BY <1>0, <1>2, <2>1, PolicyFacts DEF ClientOK, Waiting
<1>4. /\ wire'[s].kind = "ok" /\ in_force'[s][id] = NoPolicy
      /\ \A i \in PolicyId \ {id} : in_force'[s][i] = in_force[s][i]
      /\ \A t \in SiteId \ {s} : wire'[t] = wire[t] /\ in_force'[t] = in_force[t]
  BY <1>0, <1>1, <1>3 DEF TypeOK
<1>5. \A i : i \in InForce(s)' <=> i \in InForce(s) /\ i # id
  BY <1>3, <1>4 DEF InForce
<1>6. \A x : Believed(s, x)' = IF x = sp THEN NoPolicy ELSE policies[s][x]
  BY <1>1, <1>4 DEF Believed, taskVars, lockVars
<1>7. Agree(s)'
  <2>1. ASSUME NEW i \in InForce(s)', NEW x \in Species, in_force'[s][i].species = x
        PROVE  Believed(s, x)' = [id |-> i, action |-> in_force'[s][i].action]
    <3>1. i \in InForce(s) /\ i # id /\ i \in PolicyId
      BY <1>5 DEF InForce
    <3>2. in_force'[s][i] = in_force[s][i]
      BY <1>4, <3>1
    <3>3. policies[s][in_force[s][i].species] = [id |-> i, action |-> in_force[s][i].action]
      BY <1>0, <3>1, InForceFacts DEF SiteOK
    <3>4. in_force[s][i].species # sp
      BY <1>2, <3>1, <3>3
    <3>. QED  BY <1>6, <2>1, <3>2, <3>3, <3>4
  <2>2. ASSUME NEW x \in Species, Believed(s, x)' # NoPolicy
        PROVE  /\ policies[s][x].id \in InForce(s)' /\ Believed(s, x)' = policies[s][x]
               /\ in_force'[s][policies[s][x].id].species = x
    <3>1. x # sp /\ Believed(s, x)' = policies[s][x] /\ policies[s][x] # NoPolicy
      BY <1>6, <2>2
    <3>2. policies[s][x].id \in InForce(s) /\ in_force[s][policies[s][x].id].species = x
      BY <1>0, <3>1, InForceFacts DEF SiteOK
    <3>3. in_force[s][id].species = sp
      BY <1>0, <1>2, <1>3, InForceFacts DEF SiteOK
    <3>4. policies[s][x].id # id /\ policies[s][x].id \in PolicyId
      BY <3>1, <3>2, <3>3 DEF InForce
    <3>. QED  BY <1>4, <1>5, <3>1, <3>2, <3>4
  <2>. QED  BY <2>1, <2>2 DEF Agree
<1>8. OnePolicy(s)'
  BY <1>0, <1>4, <1>5 DEF SiteOK, OnePolicy, InForce
<1>9. WireOK(s)'
  BY <1>0, <1>1, <1>2, <1>4 DEF WireOK, taskVars, lockVars
<1>. QED  BY <1>0, <1>1, <1>4, <1>7, <1>8, <1>9, AuthorityFrame

(* The new policy is of a species that has none in force.                  *)
LEMMA CreateAnswered ==
  ASSUME IInv, NEW s \in SiteId, Answer(s), wire[s].kind = "create",
         NEW i \in PolicyId, in_force[s][i] = NoPolicy,
         in_force' = [in_force EXCEPT ![s][i] =
                        [species |-> wire[s].species, action |-> wire[s].action]],
         wire' = [wire EXCEPT ![s] = [kind |-> "result", id |-> i]]
  PROVE  IInv'
<1> DEFINE c == site_lock[s]
           sp == current[c]
           a == WantedBy(c, sp)
<1>0. TypeOK /\ TypeOK' /\ SiteOK(s) /\ connection[s] = "up"
  BY AuthorityTypes DEF IInv, Answer
<1>1. UNCHANGED <<taskVars, lockVars, connection, policies, last>>
  BY DEF Answer
<1>2. /\ c \in Client /\ c # Nobody /\ pc[c] = "creating" /\ policies[s][sp] = NoPolicy
      /\ a # "none" /\ wire[s].species = sp /\ wire[s].action = a
  BY <1>0 DEF SiteOK, WireOK, Locked, Quiet
<1>3. sp \in Species /\ a \in Action
  BY <1>0, <1>2, WireFacts DEF TypeOK
<1>4. /\ wire'[s].kind = "result" /\ wire'[s].id = i
      /\ in_force'[s][i] = [species |-> sp, action |-> a] /\ in_force'[s][i] # NoPolicy
      /\ \A j \in PolicyId \ {i} : in_force'[s][j] = in_force[s][j]
      /\ \A t \in SiteId \ {s} : wire'[t] = wire[t] /\ in_force'[t] = in_force[t]
  <2>1. [species |-> sp, action |-> a] # NoPolicy
    BY <1>3, NullAssumption DEF InForcePolicy
  <2>. QED  BY <1>0, <1>2, <2>1 DEF TypeOK
<1>5. \A j : j \in InForce(s)' <=> j \in InForce(s) \/ j = i
  BY <1>4 DEF InForce
<1>6. i \notin InForce(s)
  BY DEF InForce
<1>7. \A x : Believed(s, x)' = IF x = sp THEN [id |-> i, action |-> a] ELSE policies[s][x]
  BY <1>1, <1>4 DEF Believed, WantedBy, taskVars, lockVars
<1>8. \A j \in InForce(s) : in_force[s][j].species # sp /\ j # i /\ in_force'[s][j] = in_force[s][j]
  <2>1. \A j \in InForce(s) : j \in PolicyId /\ policies[s][in_force[s][j].species] # NoPolicy
    BY <1>0, InForceFacts DEF SiteOK
  <2>. QED  BY <1>2, <1>4, <1>6, <2>1
<1>9. Agree(s)'
  <2>1. ASSUME NEW j \in InForce(s)', NEW x \in Species, in_force'[s][j].species = x
        PROVE  Believed(s, x)' = [id |-> j, action |-> in_force'[s][j].action]
    <3>1. CASE j = i
      BY <1>4, <1>7, <2>1, <3>1
    <3>2. CASE j # i
      <4>1. j \in InForce(s)
        BY <1>5, <3>2
      <4>2. policies[s][in_force[s][j].species] = [id |-> j, action |-> in_force[s][j].action]
        BY <1>0, <4>1, InForceFacts DEF SiteOK
      <4>. QED  BY <1>7, <1>8, <2>1, <4>1, <4>2
    <3>. QED  BY <3>1, <3>2
  <2>2. ASSUME NEW x \in Species, Believed(s, x)' # NoPolicy
        PROVE  /\ Believed(s, x)'.id \in InForce(s)'
               /\ in_force'[s][Believed(s, x)'.id].species = x
    <3>1. CASE x = sp
      BY <1>4, <1>5, <1>7, <3>1
    <3>2. CASE x # sp
      <4>1. Believed(s, x)' = policies[s][x] /\ policies[s][x] # NoPolicy
        BY <1>7, <2>2, <3>2
      <4>2. policies[s][x].id \in InForce(s) /\ in_force[s][policies[s][x].id].species = x
        BY <1>0, <4>1, InForceFacts DEF SiteOK
      <4>. QED  BY <1>5, <1>8, <4>1, <4>2
    <3>. QED  BY <3>1, <3>2
  <2>. QED  BY <2>1, <2>2 DEF Agree
<1>10. OnePolicy(s)'
  BY <1>0, <1>4, <1>5, <1>8 DEF SiteOK, OnePolicy
<1>11. WireOK(s)'
  BY <1>0, <1>1, <1>2, <1>4 DEF WireOK, WantedBy, taskVars, lockVars
<1>. QED  BY <1>0, <1>1, <1>4, <1>9, <1>10, <1>11, AuthorityFrame

-----------------------------------------------------------------------------
(* All together.                                                           *)
LEMMA InitInv == Init => IInv
<1> SUFFICES ASSUME Init PROVE IInv
  OBVIOUS
<1>1. TypeOK
  BY DEF Init, TypeOK, Reading
<1>2. \A c \in Client : ClientOK(c)
  BY DEF Init, ClientOK, Working, Waiting
<1>3. ASSUME NEW s \in SiteId
      PROVE  SiteOK(s)
  <2>1. /\ site_lock[s] = Nobody /\ connection[s] = "none" /\ wire[s] = Quiet /\ last[s] = NoVisit
        /\ \A sp \in Species : policies[s][sp] = NoPolicy
        /\ \A i \in PolicyId : in_force[s][i] = NoPolicy
    BY DEF Init
  <2>2. Unused(s) /\ Locked(s) /\ WireOK(s) /\ OnePolicy(s) /\ Settled(s)
    BY <2>1 DEF Unused, Locked, WireOK, OnePolicy, InForce, Settled
  <2>3. Agree(s)
    BY <2>1 DEF Agree, Believed, InForce, Quiet
  <2>. QED  BY <2>2, <2>3 DEF SiteOK
<1>. QED  BY <1>1, <1>2, <1>3 DEF IInv

LEMMA NextInv == IInv /\ [Next]_vars => IInv'
<1> SUFFICES ASSUME IInv, [Next]_vars PROVE IInv'
  OBVIOUS
<1>1. CASE UNCHANGED vars
  <2>1. TypeOK' /\ UNCHANGED <<taskVars, lockVars, authorityVars, policies, last>>
    BY <1>1 DEF IInv, TypeOK, vars, taskVars, lockVars, authorityVars
  <2>2. \A s \in SiteId : SiteOK(s)'
    BY <2>1, SiteFrame DEF taskVars, lockVars, authorityVars
  <2>3. \A c \in Client : ClientOK(c)'
    BY <2>1, ClientFrame DEF taskVars, lockVars, authorityVars
  <2>. QED  BY <2>1, <2>2, <2>3 DEF IInv
<1>2. ASSUME NEW c \in Client,
             \/ Greet(c) \/ BadMessage(c) \/ LookUp(c) \/ DialFails(c)
             \/ \E v \in Visit : SiteVisit(c, v)
      PROVE  IInv'
  BY <1>2, OutsideStep
<1>3. ASSUME NEW c \in Client, Dialed(c) \/ Enter(c)
      PROVE  IInv'
  <2>1. visit[c].site \in SiteId
    BY <1>3, VisitFacts DEF IInv, ClientOK, Dialed, Enter
  <2>. QED  BY <1>3, <2>1, DialedStep, EnterStep
<1>4. ASSUME NEW c \in Client,
             \/ \E sp \in Species : Keep(c, sp) \/ Ask(c, sp)
             \/ Deleted(c) \/ Created(c) \/ Refused(c) \/ CutOff(c) \/ Done(c)
      PROVE  IInv'
  <2>1. visit[c].site \in SiteId
    BY <1>4, AtWork DEF Keep, Ask, Deleted, Created, Refused, CutOff, Done, Working, Waiting
  <2>. QED  BY <1>4, <2>1, KeepStep, AskStep, DeletedStep, CreatedStep, RefusedStep, DoneStep
<1>5. ASSUME NEW s \in SiteId, Answer(s) \/ Refuse(s) \/ Break(s)
      PROVE  IInv'
  BY <1>5, DeleteAnswered, CreateAnswered, RefuseStep, BreakStep DEF Answer
<1>. QED  BY <1>1, <1>2, <1>3, <1>4, <1>5 DEF Next

LEMMA Invariant == Spec => []IInv
BY InitInv, NextInv, PTL DEF Spec

(* Types, for all visitors, sites, species and targets.                    *)
THEOREM TypeCorrect == Spec => []TypeOK
BY Invariant, PTL DEF IInv

(* However visits, failures, refusals and broken connections interleave,   *)
(* no authority has two policies for a species.                            *)
THEOREM OnePolicyEver == Spec => []OnePolicyPerSpecies
<1>1. IInv => OnePolicyPerSpecies
  BY DEF IInv, SiteOK, OnePolicy, OnePolicyPerSpecies
<1>. QED  BY <1>1, Invariant, PTL

(* Between visits, a site remembers exactly what its authority enforces.   *)
THEOREM SitesAgree == Spec => []PoliciesAgree
<1>1. IInv => PoliciesAgree
  <2> SUFFICES ASSUME IInv, NEW s \in SiteId, site_lock[s] = Nobody, connection[s] = "up"
               PROVE  /\ \A i \in InForce(s) : policies[s][in_force[s][i].species]
                                                 = [id |-> i, action |-> in_force[s][i].action]
                      /\ \A sp \in Species : policies[s][sp] # NoPolicy =>
                           /\ policies[s][sp].id \in InForce(s)
                           /\ in_force[s][policies[s][sp].id].species = sp
    BY DEF PoliciesAgree
  <2>1. TypeOK /\ Agree(s) /\ wire[s].kind = "quiet"
    BY DEF IInv, SiteOK, WireOK, Quiet
  <2>. QED  BY <2>1, InForceFacts
<1>. QED  BY <1>1, Invariant, PTL

(* After a visit that ended well, what it counted is what is in force.     *)
THEOREM VisitsPrevail == Spec => []LastVisitPrevails
<1>1. ASSUME IInv, NEW s \in SiteId, site_lock[s] = Nobody, connection[s] = "up",
             last[s] # NoVisit, NEW sp \in Targeted(s)
      PROVE  {in_force[s][i].action : i \in {j \in InForce(s) : in_force[s][j].species = sp}}
               = {Wanted(s, last[s], sp)} \ {"none"}
  <2>1. TypeOK /\ Agree(s) /\ Settled(s) /\ wire[s].kind = "quiet" /\ sp \in Species
    BY <1>1 DEF IInv, SiteOK, WireOK, Quiet, Targeted
  <2>2. Right(s, last[s], sp)
    BY <1>1, <2>1 DEF Settled
  <2>3. CASE policies[s][sp] = NoPolicy
    <3>1. Wanted(s, last[s], sp) = "none"
      BY <2>2, <2>3 DEF Right
    <3>2. \A i \in InForce(s) : in_force[s][i].species # sp
      BY <1>1, <2>1, <2>3, InForceFacts
    <3>. QED  BY <3>1, <3>2
  <2>4. CASE policies[s][sp] # NoPolicy
    <3>1. policies[s][sp].action = Wanted(s, last[s], sp) /\ policies[s][sp].action # "none"
      BY <2>1, <2>2, <2>4, PolicyFacts DEF Right, Action
    <3>2. policies[s][sp].id \in InForce(s) /\ in_force[s][policies[s][sp].id].species = sp
      BY <1>1, <2>1, <2>4, InForceFacts
    <3>3. ASSUME NEW i \in InForce(s), in_force[s][i].species = sp
          PROVE  in_force[s][i].action = policies[s][sp].action
      <4>1. policies[s][sp] = [id |-> i, action |-> in_force[s][i].action]
        BY <1>1, <2>1, <3>3, InForceFacts
      <4>. QED  BY <4>1
    <3>. QED  BY <3>1, <3>2, <3>3
  <2>. QED  BY <2>3, <2>4
<1>2. IInv => LastVisitPrevails
  BY <1>1 DEF LastVisitPrevails
<1>. QED  BY <1>2, Invariant, PTL
=============================================================================
