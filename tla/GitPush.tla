------------------------------ MODULE GitPush ------------------------------
(***************************************************************************)
(* A guest push to a configured Git remote: the receive gateway with its   *)
(* quarantine repository, the pre-receive hook, the hook broker, the push  *)
(* approval manager and the push executor (internal/gitgateway), with the  *)
(* broker that the approval commands reach (internal/cli/gateways.go,      *)
(* internal/cli/approval_control.go).                                      *)
(*                                                                         *)
(* The first attempt of a push leaves a request, which `approvals` lists   *)
(* and decides; a further attempt with the same binding uses the grant.    *)
(***************************************************************************)
EXTENDS Naturals, FiniteSets

CONSTANTS Refs,           \* refs of the remote
          Foreign,        \* commits other developers publish
          Wishes,         \* pushes of the guest: partial functions Refs -> new
          Ancestor,       \* pairs of commits <<old, new>> that fast-forward
          Pushers,        \* hook connections that may be open at a time
          Users,          \* `approvals` commands that may run at a time
          Lifetime,       \* lifetime of a request and of its grant
          MaxNonces,      \* bound on approval requests
          MaxSessions,    \* bound on Agent Sessions
          MaxTime,        \* bound on the clock
          MaxFaults       \* bound on failures
None == "none"

ASSUME GitAssumption ==
  /\ None \notin Foreign /\ Foreign # {} /\ 0 \notin Pushers
  /\ \A w \in Wishes : DOMAIN w \subseteq Refs /\ DOMAIN w # {}
  /\ Lifetime \in Nat \ {0} /\ MaxNonces \in Nat /\ MaxSessions \in Nat \ {0}
  /\ MaxTime \in Nat /\ MaxFaults \in Nat

VARIABLES
  now,
  upstream,    \* refs of the remote
  quarantine,  \* refs of the host's quarantine repository
  flock,       \* connection that holds the transaction lock, or 0
  item,        \* approval requests by nonce, see NewItem
  nonces,      \* nonces in use: 1 .. nonces
  hand,        \* hook connections
  transit,     \* pushes on their way to the upstream
  user,        \* `approvals` commands
  sid, open,   \* current session; whether its broker is open
  pushed,      \* values each ref of the upstream has had
  faults

vars == <<now, upstream, quarantine, flock, item, nonces, hand, transit, user, sid, open,
          pushed, faults>>

Nonces == 1 .. MaxNonces
Values == Foreign \cup {None} \cup UNION {{w[r] : r \in DOMAIN w} : w \in Wishes}

(* A branch that does not fast-forward is forced; the binding says so. *)
Update(r, old, new) ==
  [ref |-> r, old |-> old, new |-> new, delete |-> new = None,
   force |-> old # None /\ new # None /\ <<old, new>> \notin Ancestor]

(* Request and grant of a nonce.  mgr is the entry of the approval manager,   *)
(* listed the broker's pending and byDigest entries, usable its approved      *)
(* entry; confirmed says that the user has confirmed it and it is not spent.  *)
NewItem(b, s) == [binding |-> b, sid |-> s, exp |-> now + Lifetime, mgr |-> "pending",
               listed |-> TRUE, usable |-> FALSE, confirmed |-> FALSE]

Idle == [pc |-> "idle", wish |-> {}, seen |-> {}, nonce |-> 0, sid |-> 0, slot |-> FALSE]
UserIdle == [pc |-> "idle", nonce |-> 0]

TypeOK ==
  /\ now \in 0 .. MaxTime /\ faults \in 0 .. MaxFaults
  /\ upstream \in [Refs -> Values] /\ quarantine \in [Refs -> Values]
  /\ flock \in Pushers \cup {0}
  /\ nonces \in 0 .. MaxNonces /\ DOMAIN item = Nonces
  /\ \A n \in 1 .. nonces : item[n].mgr \in {"pending", "granted", "gone"}
                            /\ item[n].sid \in 1 .. MaxSessions
  /\ \A p \in Pushers :
       /\ hand[p].pc \in {"idle", "advertise", "hook", "lookup", "decide", "execute", "consume",
                          "started", "pushing", "record", "accept", "refuse"}
       /\ hand[p].pc \in {"execute", "consume", "started", "pushing", "record"} => hand[p].nonce # 0
  /\ \A n \in transit : item[n].confirmed
  /\ \A u \in Users : user[u].pc \in {"idle", "listed", "confirm", "approve"}
  /\ sid \in 1 .. MaxSessions /\ open \in BOOLEAN

Init ==
  /\ now = 0 /\ faults = 0
  /\ upstream \in {[r \in Refs |-> c] : c \in Foreign}
  /\ quarantine = upstream /\ flock = 0
  /\ item = [n \in Nonces |-> [binding |-> {}]] /\ nonces = 0
  /\ hand = [p \in Pushers |-> Idle] /\ transit = {}
  /\ user = [u \in Users |-> UserIdle]
  /\ sid = 1 /\ open = TRUE
  /\ pushed = [r \in Refs |-> {upstream[r]}]

Fault == faults < MaxFaults /\ faults' = faults + 1
NoFault == UNCHANGED faults
Steps(p, pc) == hand' = [hand EXCEPT ![p].pc = pc]
(* The context of a broker is cancelled when its session ends. *)
Cancelled(p) == hand[p].sid # sid \/ ~open
Unlocked == flock = 0

-----------------------------------------------------------------------------
(* The guest pushes.                                                          *)

(* The receive gateway serves one request at a time, unless the guest leaves  *)
(* a request whose hook goes on.                                              *)
Push(p, w) ==
  /\ hand[p].pc = "idle" /\ open
  /\ \A q \in Pushers : ~hand[q].slot
  /\ hand' = [hand EXCEPT ![p] = [Idle EXCEPT !.pc = "advertise", !.wish = w, !.sid = sid,
                                             !.slot = TRUE]]
  /\ UNCHANGED <<now, upstream, quarantine, flock, item, nonces, transit, user, sid, open, pushed,
                 faults>>

(* BeforeAdvertise: the quarantine becomes a copy of the upstream under the   *)
(* transaction lock; then the guest sees its refs and sends its push.  The    *)
(* fetch is atomic; when it is cut off or its record fails it may have been   *)
(* done all the same.                                                         *)
Sync(p) ==
  /\ hand[p].pc = "advertise" /\ Unlocked
  /\ \/ /\ ~Cancelled(p) /\ NoFault
        /\ quarantine' = upstream
        /\ hand' = [hand EXCEPT ![p].pc = "hook", ![p].seen = upstream, ![p].slot = FALSE]
     \/ /\ Fault \/ (Cancelled(p) /\ NoFault)
        /\ Steps(p, "refuse") /\ quarantine' \in {quarantine, upstream}
  /\ UNCHANGED <<now, upstream, flock, item, nonces, transit, user, sid, open, pushed>>

Updates(p) == {Update(r, hand[p].seen[r], hand[p].wish[r]) : r \in DOMAIN hand[p].wish}
Binding(p) == Updates(p)
(* Resolve: the refs of the quarantine are what the guest has seen. *)
Resolves(p) ==
  /\ ~Cancelled(p)
  /\ \A u \in Updates(p) : quarantine[u.ref] = u.old /\ ~(u.delete /\ u.old = None)

(* The pack arrives, the hook connects and the broker resolves the updates. *)
Hook(p) ==
  /\ hand[p].pc = "hook" /\ (Cancelled(p) \/ \A q \in Pushers : ~hand[q].slot)
  /\ \E pc \in {"lookup", "refuse"} :
       /\ IF pc = "lookup" THEN Resolves(p) /\ NoFault
                           ELSE Fault \/ (~Resolves(p) /\ NoFault)
       /\ hand' = [hand EXCEPT ![p].pc = pc, ![p].slot = ~Cancelled(p)]
  /\ UNCHANGED <<now, upstream, quarantine, flock, item, nonces, transit, user, sid, open, pushed>>

Mine(n, p) == n <= nonces /\ item[n].sid = hand[p].sid /\ item[n].binding = Binding(p)

(* A grant for this very binding is taken out of the broker. *)
LookUp(p) ==
  /\ hand[p].pc = "lookup"
  /\ LET found == {n \in Nonces : Mine(n, p) /\ item[n].usable} IN
     \/ /\ found = {} /\ Steps(p, "decide") /\ UNCHANGED item
     \/ \E n \in found :
          /\ hand' = [hand EXCEPT ![p].pc = "execute", ![p].nonce = n]
          /\ item' = [item EXCEPT ![n].usable = FALSE]
  /\ UNCHANGED <<now, upstream, quarantine, flock, nonces, transit, user, sid, open, pushed, faults>>

(* Mutant: every attempt leaves a request of its own. *)
DecideAlways(p) ==
  /\ hand[p].pc = "decide" /\ Steps(p, "refuse")
  /\ nonces < MaxNonces /\ NoFault
  /\ nonces' = nonces + 1
  /\ item' = [n \in Nonces |-> IF n = nonces + 1 THEN NewItem(Binding(p), hand[p].sid) ELSE item[n]]
  /\ UNCHANGED <<now, upstream, quarantine, flock, transit, user, sid, open, pushed>>

(* Otherwise a request for it is pending, or a new one replaces the expired.  *)
Decide(p) ==
  /\ hand[p].pc = "decide" /\ Steps(p, "refuse")
  /\ LET old == {n \in Nonces : Mine(n, p) /\ item[n].listed} IN
     \/ /\ \E n \in old : now < item[n].exp
        /\ NoFault /\ UNCHANGED <<item, nonces>>
     \/ /\ \A n \in old : now >= item[n].exp
        /\ \/ /\ nonces < MaxNonces /\ NoFault
              /\ nonces' = nonces + 1
              /\ item' = [n \in Nonces |-> IF n = nonces + 1 THEN NewItem(Binding(p), hand[p].sid)
                                           ELSE IF n \in old THEN [item[n] EXCEPT !.listed = FALSE]
                                           ELSE item[n]]
           \/ /\ Fault \/ (nonces = MaxNonces /\ NoFault)
              /\ UNCHANGED nonces
              /\ item' = [n \in Nonces |-> IF n \in old THEN [item[n] EXCEPT !.listed = FALSE]
                                           ELSE item[n]]
  /\ UNCHANGED <<now, upstream, quarantine, flock, transit, user, sid, open, pushed>>

-----------------------------------------------------------------------------
(* PushExecutor.Execute.                                                      *)

Unconfirm(n) == item' = [item EXCEPT ![n].confirmed = FALSE]

(* The lock is taken and the updates are resolved again. *)
Execute(p) ==
  /\ hand[p].pc = "execute" /\ Unlocked
  /\ \/ /\ Resolves(p) /\ NoFault
        /\ flock' = p /\ Steps(p, "consume") /\ UNCHANGED item
     \/ /\ Fault \/ (~Resolves(p) /\ NoFault)
        /\ Steps(p, "refuse") /\ Unconfirm(hand[p].nonce) /\ UNCHANGED flock
  /\ UNCHANGED <<now, upstream, quarantine, nonces, transit, user, sid, open, pushed>>

(* The grant is gone, whether it was still good or not. *)
Consume(p) ==
  /\ hand[p].pc = "consume"
  /\ LET n == hand[p].nonce
         good == item[n].mgr = "granted" /\ now < item[n].exp /\ item[n].binding = Binding(p)
     IN \/ /\ good /\ NoFault /\ Steps(p, "started")
           /\ item' = [item EXCEPT ![n].mgr = "gone"] /\ UNCHANGED flock
        \/ /\ Fault \/ (~good /\ NoFault)
           /\ Steps(p, "refuse") /\ flock' = 0
           /\ item' = [item EXCEPT ![n].mgr = "gone", ![n].confirmed = FALSE]
  /\ UNCHANGED <<now, upstream, quarantine, nonces, transit, user, sid, open, pushed>>

(* The audit record of the start, then git push, which a cancelled context    *)
(* does not start any more.                                                   *)
StartPush(p) ==
  /\ hand[p].pc = "started"
  /\ LET n == hand[p].nonce IN
     \/ /\ ~Cancelled(p) /\ NoFault
        /\ transit' = transit \cup {n} /\ Steps(p, "pushing") /\ UNCHANGED <<flock, item>>
     \/ /\ Fault \/ (Cancelled(p) /\ NoFault)
        /\ Steps(p, "refuse") /\ flock' = 0 /\ Unconfirm(n) /\ UNCHANGED transit
  /\ UNCHANGED <<now, upstream, quarantine, nonces, user, sid, open, pushed>>

(* Mutant: the push is forced without a lease. *)
ArrivesForced(n) ==
  /\ n \in transit /\ transit' = transit \ {n} /\ Unconfirm(n)
  /\ upstream' = [r \in Refs |-> IF \E u \in item[n].binding : u.ref = r
                                 THEN (CHOOSE u \in item[n].binding : u.ref = r).new
                                 ELSE upstream[r]]
  /\ pushed' = [r \in Refs |-> pushed[r] \cup {upstream'[r]}]
  /\ UNCHANGED <<now, quarantine, flock, nonces, hand, user, sid, open, faults>>

(* The upstream applies an atomic push whose leases hold, or refuses it.      *)
Arrives(n) ==
  /\ n \in transit /\ transit' = transit \ {n} /\ Unconfirm(n)
  /\ \/ /\ \A u \in item[n].binding : upstream[u.ref] = u.old
        /\ upstream' = [r \in Refs |-> IF \E u \in item[n].binding : u.ref = r
                                       THEN (CHOOSE u \in item[n].binding : u.ref = r).new
                                       ELSE upstream[r]]
     \/ UNCHANGED upstream
  /\ pushed' = [r \in Refs |-> pushed[r] \cup {upstream'[r]}]
  /\ UNCHANGED <<now, quarantine, flock, nonces, hand, user, sid, open, faults>>

Landed(n) == \A u \in item[n].binding : u.new \in pushed[u.ref]

(* Mutant: an error of git push is taken for the end of the push. *)
PushReturnsAnyway(p) ==
  /\ hand[p].pc = "pushing" /\ Steps(p, "record")
  /\ UNCHANGED <<now, upstream, quarantine, flock, item, nonces, transit, user, sid, open, pushed, faults>>

(* git push has its answer, or reports an error: the answer was lost, the     *)
(* upstream refused, or the context was cancelled while it ran.               *)
PushReturns(p) ==
  /\ hand[p].pc = "pushing"
  /\ \/ hand[p].nonce \notin transit /\ Landed(hand[p].nonce) /\ Steps(p, "record") /\ UNCHANGED flock
     \/ Steps(p, "refuse") /\ flock' = 0
  /\ UNCHANGED <<now, upstream, quarantine, item, nonces, transit, user, sid, open, pushed, faults>>

(* The audit record of the success; without it the guest is refused, although *)
(* the upstream has changed.                                                  *)
Record(p) ==
  /\ hand[p].pc = "record" /\ flock' = 0
  /\ (NoFault /\ Steps(p, "accept")) \/ (Fault /\ Steps(p, "refuse"))
  /\ UNCHANGED <<now, upstream, quarantine, item, nonces, transit, user, sid, open, pushed>>

(* The hook ends.  After an accepted push git receive-pack updates the refs   *)
(* of the quarantine, each by itself from the value it had, or fails to.      *)
Answer(p) ==
  /\ hand[p].pc \in {"accept", "refuse"} /\ hand' = [hand EXCEPT ![p] = Idle]
  /\ \/ /\ hand[p].pc = "accept"
        /\ \E done \in SUBSET {u \in Updates(p) : quarantine[u.ref] = u.old} :
             quarantine' = [r \in Refs |-> IF \E u \in done : u.ref = r THEN hand[p].wish[r]
                                           ELSE quarantine[r]]
     \/ UNCHANGED quarantine
  /\ UNCHANGED <<now, upstream, flock, item, nonces, transit, user, sid, open, pushed, faults>>

(* The guest gives up its request; the hook and the broker do not notice. *)
GuestLeaves(p) ==
  /\ hand[p].slot /\ hand' = [hand EXCEPT ![p].slot = FALSE]
  /\ hand[p].pc # "advertise"
  /\ UNCHANGED <<now, upstream, quarantine, flock, item, nonces, transit, user, sid, open, pushed, faults>>

-----------------------------------------------------------------------------
(* `approvals` commands, through the rotating broker of the session.          *)

Listed(n) == n <= nonces /\ item[n].listed /\ item[n].sid = sid /\ open
ListPending(u, n) ==
  /\ user[u].pc = "idle" /\ Listed(n)
  /\ user' = [user EXCEPT ![u] = [pc |-> "listed", nonce |-> n]]
  /\ UNCHANGED <<now, upstream, quarantine, flock, item, nonces, hand, transit, sid, open, pushed, faults>>

Ends(u) == user' = [user EXCEPT ![u] = UserIdle]

(* HookBroker.Confirm: the request leaves the broker, *)
Confirm(u) ==
  /\ user[u].pc = "listed"
  /\ LET n == user[u].nonce IN
     \/ Listed(n) /\ item' = [item EXCEPT ![n].listed = FALSE] /\ user' = [user EXCEPT ![u].pc = "confirm"]
     \/ ~Listed(n) /\ Ends(u) /\ UNCHANGED item
  /\ UNCHANGED <<now, upstream, quarantine, flock, nonces, hand, transit, sid, open, pushed, faults>>

(* the manager turns an unexpired request into a grant, *)
ManagerConfirm(u) ==
  /\ user[u].pc = "confirm"
  /\ LET n == user[u].nonce  good == item[n].mgr = "pending" /\ now < item[n].exp IN
     \/ /\ good /\ NoFault
        /\ item' = [item EXCEPT ![n].mgr = "granted", ![n].confirmed = TRUE]
        /\ user' = [user EXCEPT ![u].pc = "approve"]
     \/ /\ Fault \/ (~good /\ NoFault)
        /\ item' = [item EXCEPT ![n].mgr = "gone"] /\ Ends(u)
  /\ UNCHANGED <<now, upstream, quarantine, flock, nonces, hand, transit, sid, open, pushed>>

(* and the broker keeps it for the next attempt, in place of an earlier one.  *)
Approve(u) ==
  /\ user[u].pc = "approve" /\ Ends(u)
  /\ LET n == user[u].nonce
         same == {k \in 1 .. nonces : item[k].sid = item[n].sid /\ item[k].binding = item[n].binding
                                      /\ item[k].usable}
     IN item' = [k \in Nonces |-> IF k = n THEN [item[n] EXCEPT !.usable = TRUE]
                                  ELSE IF k \in same THEN [item[k] EXCEPT !.usable = FALSE, !.confirmed = FALSE]
                                  ELSE item[k]]
  /\ UNCHANGED <<now, upstream, quarantine, flock, nonces, hand, transit, sid, open, pushed, faults>>

Reject(u) ==
  /\ user[u].pc = "listed" /\ Ends(u)
  /\ LET n == user[u].nonce IN
     item' = IF Listed(n) THEN [item EXCEPT ![n].listed = FALSE, ![n].mgr = "gone"] ELSE item
  /\ UNCHANGED <<now, upstream, quarantine, flock, nonces, hand, transit, sid, open, pushed, faults>>

-----------------------------------------------------------------------------
(* A pause or the end of a session closes its broker; a resume opens the      *)
(* next, after a sync of its own.                                             *)
CloseSession ==
  /\ open /\ open' = FALSE
  /\ UNCHANGED <<now, upstream, quarantine, flock, item, nonces, hand, transit, user, sid, pushed, faults>>
OpenSession ==
  /\ ~open /\ sid < MaxSessions /\ Unlocked
  /\ sid' = sid + 1 /\ open' = TRUE /\ quarantine' = upstream
  /\ UNCHANGED <<now, upstream, flock, item, nonces, hand, transit, user, pushed, faults>>

ForeignPush(r, c) ==
  /\ upstream[r] # c /\ upstream' = [upstream EXCEPT ![r] = c]
  /\ pushed' = [pushed EXCEPT ![r] = @ \cup {c}]
  /\ UNCHANGED <<now, quarantine, flock, item, nonces, hand, transit, user, sid, open, faults>>

Tick == /\ now < MaxTime /\ now' = now + 1
        /\ UNCHANGED <<upstream, quarantine, flock, item, nonces, hand, transit, user, sid, open, pushed, faults>>

HandleStep(p) == \/ Sync(p) \/ Hook(p) \/ LookUp(p) \/ Decide(p) \/ Execute(p) \/ Consume(p)
                 \/ StartPush(p) \/ PushReturns(p) \/ Record(p) \/ Answer(p)
Next ==
  \/ \E p \in Pushers : HandleStep(p) \/ GuestLeaves(p) \/ \E w \in Wishes : Push(p, w)
  \/ \E n \in Nonces : Arrives(n)
  \/ \E u \in Users : \/ \E n \in Nonces : ListPending(u, n)
                      \/ Confirm(u) \/ ManagerConfirm(u) \/ Approve(u) \/ Reject(u)
  \/ CloseSession \/ OpenSession \/ Tick
  \/ \E r \in Refs, c \in Foreign : ForeignPush(r, c)

Spec == Init /\ [][Next]_vars

-----------------------------------------------------------------------------
(* Properties.                                                                *)

(* The broker never holds two requests or two grants for the same push; a     *)
(* request it lists still waits for a decision in the manager (which refuses  *)
(* it once it has expired, although it stays listed until the next attempt);  *)
(* and a grant was confirmed by the user and serves one attempt only.  The    *)
(* attempts of the guest, expiry and the commands of the user interleave over *)
(* the three maps of the broker and the two of the manager.                   *)
OneRequestPerPush ==
  /\ \A m, n \in 1 .. nonces :
       /\ item[n].listed => item[n].mgr = "pending"
       /\ item[n].usable => item[n].confirmed /\ ~item[n].listed
       /\ m # n /\ item[m].sid = item[n].sid /\ item[m].binding = item[n].binding =>
            ~(item[m].listed /\ item[n].listed) /\ ~(item[m].usable /\ item[n].usable)
  /\ \A p \in Pushers : hand[p].pc \in {"execute", "consume", "started"} =>
       /\ ~item[hand[p].nonce].listed /\ ~item[hand[p].nonce].usable
       /\ \A q \in Pushers \ {p} : hand[q].pc \in {"execute", "consume", "started"} =>
            hand[q].nonce # hand[p].nonce

(* What the guest is told or can fetch, the upstream has had: the quarantine  *)
(* never holds a value for a ref that the upstream never had, so that nothing *)
(* unapproved is built upon, and the guest is told of success only when each  *)
(* of its refs has had its value there.  The lock is held only by a push that *)
(* is under way.                                                              *)
GuestSeesUpstream ==
  /\ \A r \in Refs : quarantine[r] \in pushed[r]
  /\ \A p \in Pushers :
       /\ hand[p].pc \in {"record", "accept"} => \A u \in Updates(p) : u.new \in pushed[u.ref]
       /\ flock = p <=> hand[p].pc \in {"consume", "started", "pushing", "record"}

(* Only approved pushes reach the upstream, from the values the user was      *)
(* shown, whole, and once for an approval, whatever is lost or repeated.      *)
Promise == INSTANCE ApprovedPush WITH
  approved <- {[id |-> n, updates |-> item[n].binding] :
                 n \in {k \in 1 .. nonces : item[k].confirmed}}
Implements == Promise!Spec
=============================================================================
