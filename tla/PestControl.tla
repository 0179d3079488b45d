---------------------------- MODULE PestControl ----------------------------
(***************************************************************************)
(* Problem 11, pest control (src/src/p11_pest_control.rs): visits to sites *)
(* adjust the policies that each site's authority has in force.            *)
(*                                                                         *)
(* The first visit to a site dials its authority, with the lock of the     *)
(* map of sites held meanwhile.  A visit then works with its site locked:  *)
(* for every species the authority has a target for, in any order, it      *)
(* deletes a policy that is wrong, creates one that is missing, and waits  *)
(* for the answer to each request.  The connection to an authority is      *)
(* never opened again.                                                     *)
(***************************************************************************)
EXTENDS Integers, FiniteSets

CONSTANTS
  Client,    \* connections of visitors
  SiteId,
  Species,
  PolicyId,  \* bound: the ids the authorities give out
  Count,     \* bound: the counts that visitors report
  Target,    \* external: the authorities' targets, per site and species
  Answering, \* external: the sites whose authority answers dials and requests
  NoTarget, Nobody, NoPolicy, NoVisit, Conflict

ASSUME TargetAssumption ==
  Target \in [SiteId -> [Species -> [min : Nat, max : Nat] \union {NoTarget}]]
ASSUME CountAssumption == Count \subseteq Nat
ASSUME AnsweringAssumption == Answering \subseteq SiteId

VARIABLES
  pc,         \* per client, where its task is
  visit,      \* per client, the SiteVisit it handles
  todo,       \* per client, the species it has yet to look at
  current,    \* per client, the species it waits for an answer about
  map_lock,   \* who holds the lock of SiteManager.sites
  site_lock,  \* per site, who holds its lock
  connection, \* per site, its connection to the authority
  policies,   \* Site.policies
  wire,       \* the request or the answer that is on the connection
  in_force,   \* external: the policies of the authority, per site and id
  last        \* per site, the counts of the last visit, NoVisit if it failed

taskVars == <<pc, visit, todo, current>>
lockVars == <<map_lock, site_lock>>
authorityVars == <<connection, wire, in_force>>
vars == <<taskVars, lockVars, authorityVars, policies, last>>

Action == {"conserve", "cull"}
Counts == [Species -> Count]
Visit == [site : SiteId, counts : Counts \union {Conflict}]
Policy == [id : PolicyId, action : Action]
InForcePolicy == [species : Species, action : Action]

ASSUME NullAssumption ==
  /\ Nobody \notin Client \union Species
  /\ NoPolicy \notin Policy \union InForcePolicy
  /\ NoVisit \notin Visit \union Counts /\ Conflict \notin Counts

Quiet == [kind |-> "quiet"]
Request == [kind : {"delete"}, id : PolicyId]
             \union [kind : {"create"}, species : Species, action : Action]
Reply == [kind : {"ok", "unexpected"}] \union [kind : {"result"}, id : PolicyId]

Reading == {"greeting", "reading", "ended"}
Waiting == {"deleting", "creating"}
Working == {"working"} \union Waiting

TypeOK ==
  /\ pc \in [Client -> Reading \union {"wanting", "dialing", "queueing"} \union Working]
  /\ visit \in [Client -> Visit \union {NoVisit}]
  /\ todo \in [Client -> SUBSET Species]
  /\ current \in [Client -> Species \union {Nobody}]
  /\ map_lock \in Client \union {Nobody}
  /\ site_lock \in [SiteId -> Client \union {Nobody}]
  /\ connection \in [SiteId -> {"none", "up", "broken"}]
  /\ policies \in [SiteId -> [Species -> Policy \union {NoPolicy}]]
  /\ wire \in [SiteId -> Request \union Reply \union {Quiet}]
  /\ in_force \in [SiteId -> [PolicyId -> InForcePolicy \union {NoPolicy}]]
  /\ last \in [SiteId -> Counts \union {NoVisit}]

Init ==
  /\ pc = [c \in Client |-> "greeting"]
  /\ visit = [c \in Client |-> NoVisit]
  /\ todo = [c \in Client |-> {}]
  /\ current = [c \in Client |-> Nobody]
  /\ map_lock = Nobody
  /\ site_lock = [s \in SiteId |-> Nobody]
  /\ connection = [s \in SiteId |-> "none"]
  /\ policies = [s \in SiteId |-> [sp \in Species |-> NoPolicy]]
  /\ wire = [s \in SiteId |-> Quiet]
  /\ in_force = [s \in SiteId |-> [i \in PolicyId |-> NoPolicy]]
  /\ last = [s \in SiteId |-> NoVisit]

-----------------------------------------------------------------------------
Goto(c, place) == pc' = [pc EXCEPT ![c] = place]

(* The client is sent an error and its connection closed. *)
End(c) ==
  /\ Goto(c, "ended")
  /\ visit' = [visit EXCEPT ![c] = NoVisit]
  /\ todo' = [todo EXCEPT ![c] = {}]
  /\ current' = [current EXCEPT ![c] = Nobody]

Greet(c) ==
  /\ pc[c] = "greeting"
  /\ Goto(c, "reading")
  /\ UNCHANGED <<visit, todo, current, lockVars, authorityVars, policies, last>>

SiteVisit(c, v) ==
  /\ pc[c] = "reading"
  /\ Goto(c, "wanting")
  /\ visit' = [visit EXCEPT ![c] = v]
  /\ UNCHANGED <<todo, current, lockVars, authorityVars, policies, last>>

(* The client sends anything but a hello or a visit, or goes away. *)
BadMessage(c) ==
  /\ pc[c] \in {"greeting", "reading"}
  /\ End(c)
  /\ UNCHANGED <<lockVars, authorityVars, policies, last>>

(* SiteManager looks the site up, and dials for a new one. *)
LookUp(c) ==
  /\ pc[c] = "wanting" /\ map_lock = Nobody
  /\ IF connection[visit[c].site] = "none"
     THEN Goto(c, "dialing") /\ map_lock' = c
     ELSE Goto(c, "queueing") /\ UNCHANGED map_lock
  /\ UNCHANGED <<visit, todo, current, site_lock, authorityVars, policies, last>>

(* Mutant: the map stays locked during the whole visit. *)
DialedKeepsLock(c) ==
  /\ pc[c] = "dialing"
  /\ connection' = [connection EXCEPT ![visit[c].site] = "up"]
  /\ Goto(c, "queueing")
  /\ UNCHANGED <<visit, todo, current, lockVars, wire, in_force, policies, last>>

(* The authority greeted and sent its targets: the site is in the map. *)
Dialed(c) ==
  /\ pc[c] = "dialing"
  /\ connection' = [connection EXCEPT ![visit[c].site] = "up"]
  /\ map_lock' = Nobody
  /\ Goto(c, "queueing")
  /\ UNCHANGED <<visit, todo, current, site_lock, wire, in_force, policies, last>>

(* It did not, and the next visit will dial again. *)
DialFails(c) ==
  /\ pc[c] = "dialing"
  /\ map_lock' = Nobody
  /\ End(c)
  /\ UNCHANGED <<site_lock, authorityVars, policies, last>>

-----------------------------------------------------------------------------
Targeted(s) == {sp \in Species : Target[s][sp] # NoTarget}

(* What the counts ask for: "none", or the action of a policy. *)
Wanted(s, counts, sp) ==
  LET n == counts[sp] IN
  IF n < Target[s][sp].min THEN "conserve"
  ELSE IF n > Target[s][sp].max THEN "cull" ELSE "none"

WantedBy(c, sp) == Wanted(visit[c].site, visit[c].counts, sp)

(* Mutant: the site is not locked. *)
EnterUnlocked(c) ==
  /\ pc[c] = "queueing" /\ visit[c].counts # Conflict
  /\ Goto(c, "working")
  /\ todo' = [todo EXCEPT ![c] = Targeted(visit[c].site)]
  /\ UNCHANGED <<visit, current, lockVars, authorityVars, policies, last>>

(* The site is locked, unless the visit's observations conflict. *)
Enter(c) ==
  LET s == visit[c].site IN
  /\ pc[c] = "queueing" /\ site_lock[s] = Nobody
  /\ IF visit[c].counts = Conflict
     THEN End(c) /\ UNCHANGED site_lock
     ELSE /\ Goto(c, "working")
          /\ site_lock' = [site_lock EXCEPT ![s] = c]
          /\ todo' = [todo EXCEPT ![c] = Targeted(s)]
          /\ UNCHANGED <<visit, current>>
  /\ UNCHANGED <<map_lock, authorityVars, policies, last>>

Send(c, request) == wire' = [wire EXCEPT ![visit[c].site] = request]

(* The visit ends with an error, with what it has done so far left done. *)
Fail(c) ==
  /\ End(c)
  /\ site_lock' = [site_lock EXCEPT ![visit[c].site] = Nobody]
  /\ last' = [last EXCEPT ![visit[c].site] = NoVisit]

(* Mutant: a species that has a policy is left alone. *)
KeepsAny(c, sp) ==
  policies[visit[c].site][sp] # NoPolicy \/ WantedBy(c, sp) = "none"

(* The species has the policy that is wanted, or needs none. *)
Keeps(c, sp) ==
  LET old == policies[visit[c].site][sp] IN
  IF old = NoPolicy THEN WantedBy(c, sp) = "none" ELSE old.action = WantedBy(c, sp)

Keep(c, sp) ==
  /\ pc[c] = "working" /\ sp \in todo[c]
  /\ Keeps(c, sp)
  /\ todo' = [todo EXCEPT ![c] = @ \ {sp}]
  /\ UNCHANGED <<pc, visit, current, lockVars, authorityVars, policies, last>>

(* A policy that is wrong is deleted first. *)
Ask(c, sp) ==
  LET old == policies[visit[c].site][sp] IN
  /\ pc[c] = "working" /\ sp \in todo[c]
  /\ ~Keeps(c, sp)
  /\ connection[visit[c].site] = "up"
  /\ IF old # NoPolicy
     THEN Goto(c, "deleting") /\ Send(c, [kind |-> "delete", id |-> old.id])
     ELSE Goto(c, "creating") /\ Send(c, [kind |-> "create", species |-> sp, action |-> WantedBy(c, sp)])
  /\ current' = [current EXCEPT ![c] = sp]
  /\ todo' = [todo EXCEPT ![c] = @ \ {sp}]
  /\ UNCHANGED <<visit, lockVars, connection, in_force, policies, last>>

(* Mutant: the deleted policy is remembered. *)
DeletedRemembers(c) ==
  LET new == WantedBy(c, current[c]) IN
  /\ pc[c] = "deleting" /\ wire[visit[c].site].kind = "ok"
  /\ IF new = "none"
     THEN Goto(c, "working") /\ Send(c, Quiet) /\ current' = [current EXCEPT ![c] = Nobody]
     ELSE Goto(c, "creating") /\ UNCHANGED current
          /\ Send(c, [kind |-> "create", species |-> current[c], action |-> new])
  /\ UNCHANGED <<visit, todo, lockVars, connection, in_force, policies, last>>

(* The answer to a delete: the right policy is created, if one is wanted. *)
Deleted(c) ==
  LET s == visit[c].site
      sp == current[c]
      new == WantedBy(c, sp)
  IN
  /\ pc[c] = "deleting" /\ wire[s].kind = "ok"
  /\ policies' = [policies EXCEPT ![s][sp] = NoPolicy]
  /\ IF new = "none"
     THEN Goto(c, "working") /\ Send(c, Quiet) /\ current' = [current EXCEPT ![c] = Nobody]
     ELSE Goto(c, "creating") /\ Send(c, [kind |-> "create", species |-> sp, action |-> new])
          /\ UNCHANGED current
  /\ UNCHANGED <<visit, todo, lockVars, connection, in_force, last>>

Created(c) ==
  LET s == visit[c].site
      sp == current[c]
  IN
  /\ pc[c] = "creating" /\ wire[s].kind = "result"
  /\ policies' = [policies EXCEPT ![s][sp] = [id |-> wire[s].id, action |-> WantedBy(c, sp)]]
  /\ Goto(c, "working") /\ Send(c, Quiet)
  /\ current' = [current EXCEPT ![c] = Nobody]
  /\ UNCHANGED <<visit, todo, lockVars, connection, in_force, last>>

(* The answer is not the one expected. *)
Refused(c) ==
  /\ pc[c] \in Waiting
  /\ wire[visit[c].site].kind = "unexpected"
  /\ Send(c, Quiet)
  /\ Fail(c)
  /\ UNCHANGED <<map_lock, connection, in_force, policies>>

(* A request cannot be sent, or its answer cannot be read. *)
CutOff(c) ==
  /\ \/ pc[c] \in Waiting
     \/ pc[c] = "working" /\ \E sp \in todo[c] : ~Keeps(c, sp)
  /\ connection[visit[c].site] = "broken"
  /\ Fail(c)
  /\ UNCHANGED <<map_lock, authorityVars, policies>>

Done(c) ==
  LET s == visit[c].site IN
  /\ pc[c] = "working" /\ todo[c] = {}
  /\ Goto(c, "reading")
  /\ visit' = [visit EXCEPT ![c] = NoVisit]
  /\ site_lock' = [site_lock EXCEPT ![s] = Nobody]
  /\ last' = [last EXCEPT ![s] = visit[c].counts]
  /\ UNCHANGED <<todo, current, map_lock, authorityVars, policies>>

-----------------------------------------------------------------------------
(* External: the authority of site s. *)

Answer(s) ==
  /\ connection[s] = "up"
  /\ \/ /\ wire[s].kind = "delete"
        /\ in_force' = [in_force EXCEPT ![s][wire[s].id] = NoPolicy]
        /\ wire' = [wire EXCEPT ![s] = [kind |-> "ok"]]
     \/ /\ wire[s].kind = "create"
        /\ \E i \in PolicyId :
             /\ in_force[s][i] = NoPolicy
             /\ in_force' = [in_force EXCEPT ![s][i] =
                               [species |-> wire[s].species, action |-> wire[s].action]]
             /\ wire' = [wire EXCEPT ![s] = [kind |-> "result", id |-> i]]
  /\ UNCHANGED <<taskVars, lockVars, connection, policies, last>>

(* It answers with an error, and does nothing. *)
Refuse(s) ==
  /\ connection[s] = "up" /\ wire[s] \in Request
  /\ wire' = [wire EXCEPT ![s] = [kind |-> "unexpected"]]
  /\ UNCHANGED <<taskVars, lockVars, connection, in_force, policies, last>>

(* The connection breaks: a request or an answer on it is lost. *)
Break(s) ==
  /\ connection[s] = "up"
  /\ connection' = [connection EXCEPT ![s] = "broken"]
  /\ wire' = [wire EXCEPT ![s] = Quiet]
  /\ UNCHANGED <<taskVars, lockVars, in_force, policies, last>>

Next ==
  \/ \E c \in Client :
       \/ Greet(c) \/ BadMessage(c)
       \/ \E v \in Visit : SiteVisit(c, v)
       \/ LookUp(c) \/ Dialed(c) \/ DialFails(c) \/ Enter(c)
       \/ \E sp \in Species : Keep(c, sp) \/ Ask(c, sp)
       \/ Deleted(c) \/ Created(c) \/ Refused(c) \/ CutOff(c) \/ Done(c)
  \/ \E s \in SiteId : Answer(s) \/ Refuse(s) \/ Break(s)

Spec == Init /\ [][Next]_vars

(* The runtime polls the tasks, and tokio's locks serve those that wait in *)
(* their turn, hence the strong fairness.  No read from an authority has a *)
(* timeout: it is sure to end only for the Answering ones, which greet,    *)
(* send their targets, and answer every request, or break off.  Another    *)
(* one may accept the connection and stay silent for ever.                 *)
Fairness ==
  /\ \A c \in Client :
       /\ SF_vars(LookUp(c)) /\ SF_vars(Enter(c))
       /\ WF_vars((Dialed(c) \/ DialFails(c)) /\ visit[c].site \in Answering)
       /\ WF_vars(Deleted(c) \/ Created(c) \/ Refused(c) \/ CutOff(c) \/ Done(c))
       /\ WF_vars(\E sp \in Species : Keep(c, sp) \/ Ask(c, sp))
  /\ \A s \in Answering : WF_vars(Answer(s) \/ Refuse(s) \/ Break(s))

FairSpec == Spec /\ Fairness

-----------------------------------------------------------------------------
InForce(s) == {i \in PolicyId : in_force[s][i] # NoPolicy}

(* An authority never has two policies in force for one species, although  *)
(* visits come at the same time, requests fail halfway and answers get     *)
(* lost.                                                                   *)
OnePolicyPerSpecies ==
  \A s \in SiteId : \A i, j \in InForce(s) :
    in_force[s][i].species = in_force[s][j].species => i = j

(* While a site is not locked and its connection works, the policies it    *)
(* remembers are exactly those its authority has in force.                 *)
PoliciesAgree ==
  \A s \in SiteId :
    site_lock[s] = Nobody /\ connection[s] = "up" =>
      /\ \A i \in InForce(s) :
           policies[s][in_force[s][i].species] = [id |-> i, action |-> in_force[s][i].action]
      /\ \A sp \in Species : policies[s][sp] # NoPolicy =>
           policies[s][sp].id \in InForce(s) /\ in_force[s][policies[s][sp].id].species = sp

(* What the last visit counted is what is in force: when it has ended      *)
(* without an error, and the connection still works, every species has the *)
(* policy its count asks for and no other.                                 *)
LastVisitPrevails ==
  \A s \in SiteId :
    site_lock[s] = Nobody /\ connection[s] = "up" /\ last[s] # NoVisit =>
      \A sp \in Targeted(s) :
        LET actions == {in_force[s][i].action : i \in {j \in InForce(s) : in_force[s][j].species = sp}}
        IN actions = {Wanted(s, last[s], sp)} \ {"none"}

(* A dial that nobody is sure to answer, with the map of sites locked.     *)
DialSilent == \E c \in Client : pc[c] = "dialing" /\ visit[c].site \notin Answering

(* A visit to a site whose authority answers is handled, or refused with   *)
(* an error, whatever the authorities of other sites do to visits that are *)
(* going on there: if the site was found in the map, or is being dialled,  *)
(* without exception, and otherwise unless the dial of another site is     *)
(* never answered, which stops new visits to every site.                   *)
SitesIndependent ==
  \A c \in Client :
    LET Visiting == visit[c] # NoVisit /\ visit[c].site \in Answering
        Handled == pc[c] \in {"reading", "ended"}
    IN /\ Visiting /\ pc[c] # "wanting" ~> Handled
       /\ Visiting ~> (Handled \/ []DialSilent)
=============================================================================
