--------------------------- MODULE GitPushProofs ---------------------------
(***************************************************************************)
(* Proofs about GitPush for any refs, wishes, connections, commands and    *)
(* bounds.                                                                 *)
(***************************************************************************)
EXTENDS GitPush, TLAPS

(* The records the actions update, field by field. *)
Fields == {"binding", "sid", "exp", "mgr", "listed", "usable", "confirmed"}
HandFields == {"pc", "wish", "seen", "nonce", "sid", "slot"}

ItemShape ==
  /\ nonces \in Nat /\ nonces <= MaxNonces
  /\ item = [n \in Nonces |-> item[n]]
  /\ \A n \in 1 .. nonces : DOMAIN item[n] = Fields
HandShape ==
  /\ hand = [p \in Pushers |-> hand[p]]
  /\ \A p \in Pushers : /\ DOMAIN hand[p] = HandFields
                        /\ hand[p].pc # "idle" => DOMAIN hand[p].wish \subseteq Refs
UserShape ==
  /\ user = [u \in Users |-> user[u]]
  /\ \A u \in Users : /\ DOMAIN user[u] = {"pc", "nonce"}
                      /\ user[u].pc # "idle" => user[u].nonce \in 1 .. nonces

RefShape == /\ upstream = [r \in Refs |-> upstream[r]]
            /\ pushed = [r \in Refs |-> pushed[r]]

(* A nonce is in one place at a time: with the broker as a request, with the *)
(* command that approves it, with the broker as a grant, with the connection *)
(* that executes it, or on its way to the upstream.                          *)
With(u, n) == user[u].pc \in {"confirm", "approve"} /\ user[u].nonce = n
Holds(p, n) == hand[p].pc \in {"execute", "consume", "started"} /\ hand[p].nonce = n

OnePlace ==
  /\ \A n \in 1 .. nonces :
       /\ item[n].listed => ~item[n].usable /\ n \notin transit
       /\ item[n].usable => n \notin transit
  /\ \A n \in 1 .. nonces, u \in Users : With(u, n) =>
       /\ ~item[n].listed /\ ~item[n].usable /\ n \notin transit
       /\ \A v \in Users : With(v, n) => v = u
  /\ \A n \in 1 .. nonces, p \in Pushers : Holds(p, n) =>
       /\ ~item[n].listed /\ ~item[n].usable /\ n \notin transit
       /\ \A q \in Pushers : Holds(q, n) => q = p
       /\ \A u \in Users : ~With(u, n)

(* From the answer of the user until it is spent, the grant stays approved. *)
Approved ==
  /\ transit \subseteq 1 .. nonces
  /\ \A n \in transit : item[n].confirmed
  /\ \A n \in 1 .. nonces : item[n].usable => item[n].confirmed
  /\ \A p \in Pushers, n \in 1 .. nonces : Holds(p, n) => item[n].confirmed
  /\ \A u \in Users : user[u].pc = "approve" => item[user[u].nonce].confirmed

(* A connection executes the grant of its own binding. *)
Executing == {"execute", "consume", "started", "pushing", "record"}
OwnGrant ==
  \A p \in Pushers : hand[p].pc \in Executing =>
    hand[p].nonce \in 1 .. nonces /\ item[hand[p].nonce].binding = Binding(p)

\* The broker holds one request and one grant for a push.
Single ==
  \A m, n \in 1 .. nonces :
    /\ item[n].listed => item[n].mgr = "pending"
    /\ m # n /\ item[m].sid = item[n].sid /\ item[m].binding = item[n].binding =>
         ~(item[m].listed /\ item[n].listed) /\ ~(item[m].usable /\ item[n].usable)

Reached == \A r \in Refs : upstream[r] \in pushed[r]

Brokered == ItemShape /\ HandShape /\ UserShape /\ OnePlace /\ Approved /\ OwnGrant
            /\ Single
IInv == Brokered /\ RefShape /\ Reached /\ GuestSeesUpstream

USE GitAssumption

-----------------------------------------------------------------------------
(* How the records move.                                                      *)

LEMMA PcMoves ==
  ASSUME HandShape, NEW p \in Pushers, NEW pc, hand[p].pc # "idle",
         hand' = [hand EXCEPT ![p].pc = pc]
  PROVE  /\ HandShape' /\ \A q \in Pushers : q # p => hand'[q] = hand[q]
         /\ hand'[p].pc = pc /\ hand'[p].nonce = hand[p].nonce
         /\ hand'[p].seen = hand[p].seen /\ hand'[p].wish = hand[p].wish
<1>1. DOMAIN hand[p] = HandFields /\ DOMAIN hand[p].wish \subseteq Refs
  BY DEF HandShape
<1>2. hand'[p] = [hand[p] EXCEPT !.pc = pc] /\ \A q \in Pushers : q # p => hand'[q] = hand[q]
  BY DEF HandShape
<1>3. /\ hand'[p].pc = pc /\ hand'[p].nonce = hand[p].nonce
      /\ hand'[p].seen = hand[p].seen /\ hand'[p].wish = hand[p].wish
      /\ DOMAIN hand'[p] = HandFields
  BY <1>1, <1>2 DEF HandFields
<1>4. hand' = [q \in Pushers |-> hand'[q]]
  BY DEF HandShape
<1> QED BY <1>1, <1>2, <1>3, <1>4 DEF HandShape

LEMMA SameBinding ==
  ASSUME NEW p \in Pushers, hand'[p].seen = hand[p].seen, hand'[p].wish = hand[p].wish
  PROVE  Binding(p)' = Binding(p) /\ Updates(p)' = Updates(p)
BY DEF Binding, Updates, Update

\* A connection moves to no step that holds a nonce it did not hold.
Held == {"execute", "consume", "started"}
HandsKeep ==
  /\ HandShape'
  /\ \A q \in Pushers :
       /\ hand'[q].pc \in Executing =>
            /\ hand[q].pc \in Executing /\ hand'[q].nonce = hand[q].nonce
            /\ hand'[q].seen = hand[q].seen /\ hand'[q].wish = hand[q].wish
       /\ hand'[q].pc \in Held => hand[q].pc \in Held

\* Nor does a command.
UsersKeep ==
  /\ UserShape'
  /\ \A u \in Users : user'[u].pc \in {"confirm", "approve"} =>
       /\ user[u].pc \in {"confirm", "approve"} /\ user'[u].nonce = user[u].nonce
       /\ user'[u].pc = "approve" => user[u].pc = "approve"

\* Requests and grants are only taken away.
Shrinks ==
  /\ nonces' = nonces
  /\ ItemShape'
  /\ \A n \in 1 .. nonces :
       /\ item'[n].binding = item[n].binding /\ item'[n].sid = item[n].sid
       /\ item'[n].listed => item[n].listed /\ item'[n].mgr = "pending"
       /\ item'[n].usable => item[n].usable

\* An approval ends only where nothing relies on it.
EndsUnused ==
  \A n \in 1 .. nonces : item[n].confirmed /\ ~item'[n].confirmed =>
    /\ n \notin transit' /\ ~item'[n].usable
    /\ \A p \in Pushers : ~Holds(p, n)'
    /\ \A u \in Users : ~With(u, n)'

LEMMA SameItems ==
  ASSUME Brokered, UNCHANGED <<item, nonces>>
  PROVE  Shrinks /\ EndsUnused
BY DEF Brokered, ItemShape, Single, Shrinks, EndsUnused

LEMMA SameHands == ASSUME HandShape, UNCHANGED hand PROVE HandsKeep
BY DEF HandShape, HandsKeep

LEMMA SameUsers == ASSUME UserShape, UNCHANGED <<user, nonces>> PROVE UsersKeep
BY DEF UserShape, UsersKeep

LEMMA KeptPlaces ==
  ASSUME HandsKeep, UsersKeep
  PROVE  /\ \A q \in Pushers : \A n : Holds(q, n)' => Holds(q, n)
         /\ \A u \in Users : \A n : With(u, n)' => With(u, n)
BY DEF HandsKeep, UsersKeep, Holds, With, Held, Executing

LEMMA KeptGrant ==
  ASSUME OwnGrant, Shrinks, HandsKeep
  PROVE  OwnGrant'
<1> SUFFICES ASSUME NEW q \in Pushers, hand'[q].pc \in Executing
             PROVE  hand'[q].nonce \in 1 .. nonces' /\ item'[hand'[q].nonce].binding = Binding(q)'
  BY DEF OwnGrant
<1>1. /\ hand[q].pc \in Executing /\ hand'[q].nonce = hand[q].nonce
      /\ hand'[q].seen = hand[q].seen /\ hand'[q].wish = hand[q].wish
  BY DEF HandsKeep
<1>2. Binding(q)' = Binding(q)
  BY <1>1, SameBinding
<1> QED BY <1>1, <1>2 DEF OwnGrant, Shrinks

LEMMA KeptApproved ==
  ASSUME Approved, UserShape, Shrinks, EndsUnused, HandsKeep, UsersKeep, transit' \subseteq transit
  PROVE  Approved'
<1>1. transit' \subseteq 1 .. nonces'
  BY DEF Approved, Shrinks
<1>2. \A n \in 1 .. nonces : n \in transit' \/ item'[n].usable => item'[n].confirmed
  BY DEF Approved, Shrinks, EndsUnused
<1>3. \A p \in Pushers, n \in 1 .. nonces : Holds(p, n)' => item'[n].confirmed
  BY KeptPlaces DEF Approved, EndsUnused
<1>4. \A u \in Users : user'[u].pc = "approve" => item'[user'[u].nonce].confirmed
  <2> SUFFICES ASSUME NEW u \in Users, user'[u].pc = "approve"
               PROVE  item'[user'[u].nonce].confirmed
    OBVIOUS
  <2>1. user[u].pc = "approve" /\ user'[u].nonce = user[u].nonce
    BY DEF UsersKeep
  <2>2. user[u].nonce \in 1 .. nonces /\ item[user[u].nonce].confirmed
    BY <2>1 DEF UserShape, Approved
  <2>3. With(u, user[u].nonce)'
    BY <2>1 DEF With
  <2> QED BY <2>1, <2>2, <2>3 DEF EndsUnused
<1> QED BY <1>1, <1>2, <1>3, <1>4 DEF Approved, Shrinks

\* A step that only takes away from the broker keeps it in order.
LEMMA KeptBroker ==
  ASSUME Brokered, Shrinks, EndsUnused, HandsKeep, UsersKeep, transit' \subseteq transit
  PROVE  Brokered'
<1>1. OnePlace'
  BY KeptPlaces DEF Brokered, OnePlace, Shrinks
<1>2. Single'
  BY DEF Brokered, Single, Shrinks
<1>3. Approved' /\ OwnGrant'
  BY KeptApproved, KeptGrant DEF Brokered
<1> QED BY <1>1, <1>2, <1>3 DEF Brokered, Shrinks, HandsKeep, UsersKeep

-----------------------------------------------------------------------------
(* What the guest is told.                                                    *)

Locking == {"consume", "started", "pushing", "record"}
Told(p) == /\ hand[p].pc \in {"record", "accept"} => \A u \in Updates(p) : u.new \in pushed[u.ref]
           /\ flock = p <=> hand[p].pc \in Locking

Grows == \A r \in Refs : pushed[r] \subseteq pushed'[r]

LEMMA UpdateRefs ==
  ASSUME HandShape, NEW p \in Pushers, hand[p].pc # "idle", NEW u \in Updates(p)
  PROVE  u.ref \in Refs
<1>1. PICK r \in DOMAIN hand[p].wish : u = Update(r, hand[p].seen[r], hand[p].wish[r])
  BY DEF Updates
<1>2. u.ref = r
  BY <1>1 DEF Update
<1> QED BY <1>2 DEF HandShape

LEMMA KeptTold ==
  ASSUME HandShape, NEW p \in Pushers, Told(p), Grows, hand'[p] = hand[p],
         flock' = p <=> flock = p
  PROVE  Told(p)'
<1>1. Updates(p)' = Updates(p)
  BY SameBinding
<1>2. ASSUME hand[p].pc \in {"record", "accept"}, NEW u \in Updates(p)
      PROVE  u.new \in pushed'[u.ref]
  BY <1>2, UpdateRefs DEF Told, Grows
<1> QED BY <1>1, <1>2 DEF Told

LEMMA KeptGuest ==
  ASSUME GuestSeesUpstream, HandShape, Grows, UNCHANGED <<hand, flock>>,
         \A r \in Refs : quarantine'[r] \in pushed'[r]
  PROVE  GuestSeesUpstream'
<1>1. \A p \in Pushers : Told(p)
  BY DEF GuestSeesUpstream, Told, Locking
<1>2. \A p \in Pushers : Told(p)'
  BY <1>1, KeptTold
<1> QED BY <1>2 DEF GuestSeesUpstream, Told, Locking

\* Connection p moves on; the lock is taken and given back by its holder.
LEMMA MovedGuest ==
  ASSUME GuestSeesUpstream, HandShape, NEW p \in Pushers, UNCHANGED pushed, Told(p)',
         \A q \in Pushers : q # p => hand'[q] = hand[q],
         flock' = flock \/ (flock = 0 /\ flock' = p) \/ (flock = p /\ flock' = 0),
         \A r \in Refs : quarantine'[r] \in pushed'[r]
  PROVE  GuestSeesUpstream'
<1>1. \A q \in Pushers : Told(q)
  BY DEF GuestSeesUpstream, Told, Locking
<1>2. \A q \in Pushers : Told(q)'
  BY <1>1, KeptTold DEF Grows
<1> QED BY <1>2 DEF GuestSeesUpstream, Told, Locking
-----------------------------------------------------------------------------
(* The steps that move a connection and nothing the broker keeps.             *)

LEMMA OneMoves ==
  ASSUME HandShape, NEW p \in Pushers, NEW h, hand' = [hand EXCEPT ![p] = h],
         DOMAIN h = HandFields, h.pc # "idle" => DOMAIN h.wish \subseteq Refs
  PROVE  HandShape' /\ hand'[p] = h /\ \A q \in Pushers : q # p => hand'[q] = hand[q]
<1>1. hand'[p] = h /\ \A q \in Pushers : q # p => hand'[q] = hand[q]
  BY DEF HandShape
<1>2. hand' = [q \in Pushers |-> hand'[q]]
  BY DEF HandShape
<1> QED BY <1>1, <1>2 DEF HandShape

LEMMA LeavesOff ==
  ASSUME HandShape', NEW p \in Pushers, \A q \in Pushers : q # p => hand'[q] = hand[q],
         hand'[p].pc \notin Executing
  PROVE  HandsKeep
BY DEF HandsKeep, Held, Executing

LEMMA PcKeeps ==
  ASSUME HandShape, NEW p \in Pushers, NEW pc, hand[p].pc # "idle",
         hand' = [hand EXCEPT ![p].pc = pc],
         pc \in Executing => hand[p].pc \in Executing, pc \in Held => hand[p].pc \in Held
  PROVE  HandsKeep
<1>1. HandShape' /\ \A q \in Pushers : q # p => hand'[q] = hand[q]
  BY PcMoves
<1>2. /\ hand'[p].pc = pc /\ hand'[p].nonce = hand[p].nonce
      /\ hand'[p].seen = hand[p].seen /\ hand'[p].wish = hand[p].wish
  BY PcMoves
<1> QED BY <1>1, <1>2 DEF HandsKeep, Held, Executing

LEMMA HandStep ==
  ASSUME IInv, HandsKeep, UNCHANGED <<item, nonces, transit, user, upstream, pushed>>
  PROVE  Brokered' /\ RefShape' /\ Reached' /\ Grows
<1>1. Shrinks /\ EndsUnused /\ UsersKeep
  BY SameItems, SameUsers DEF IInv, Brokered
<1>2. Brokered'
  BY <1>1, KeptBroker DEF IInv
<1> QED BY <1>2 DEF IInv, RefShape, Reached, Grows

LEMMA Pushing == ASSUME IInv, NEW p \in Pushers, NEW w \in Wishes, Push(p, w) PROVE IInv'
<1> DEFINE h == [Idle EXCEPT !.pc = "advertise", !.wish = w, !.sid = sid, !.slot = TRUE]
<1>1. DOMAIN h = HandFields /\ h.pc = "advertise" /\ DOMAIN h.wish \subseteq Refs
  BY DEF Idle, HandFields
<1>2. HandShape' /\ hand'[p] = h /\ \A q \in Pushers : q # p => hand'[q] = hand[q]
  <2> HIDE DEF h
  <2>1. hand' = [hand EXCEPT ![p] = h]
    BY DEF Push, h
  <2> QED BY <1>1, <2>1, OneMoves DEF IInv, Brokered
<1> HIDE DEF h
<1>3. HandsKeep
  BY <1>1, <1>2, LeavesOff DEF Executing
<1>4. Told(p)'
  BY <1>1, <1>2 DEF Told, Push, IInv, GuestSeesUpstream, Locking
<1>5. GuestSeesUpstream'
  BY <1>2, <1>4, MovedGuest DEF Push, IInv, Brokered, GuestSeesUpstream
<1> QED BY <1>3, <1>5, HandStep DEF Push, IInv

LEMMA Synced == ASSUME IInv, NEW p \in Pushers, Sync(p) PROVE IInv'
<1> DEFINE h == [hand[p] EXCEPT !.pc = "hook", !.seen = upstream, !.slot = FALSE]
<1>1. HandShape /\ hand[p].pc = "advertise" /\ DOMAIN hand[p] = HandFields
      /\ DOMAIN hand[p].wish \subseteq Refs
  BY DEF IInv, Brokered, HandShape, Sync
<1>2. /\ HandShape' /\ hand'[p].pc \in {"hook", "refuse"}
      /\ \A q \in Pushers : q # p => hand'[q] = hand[q]
  <2>1. CASE Steps(p, "refuse")
    BY <1>1, <2>1, PcMoves DEF Steps
  <2>2. CASE hand' = [hand EXCEPT ![p].pc = "hook", ![p].seen = upstream, ![p].slot = FALSE]
    <3>1. hand' = [hand EXCEPT ![p] = h]
      BY <1>1, <2>2 DEF HandShape
    <3>2. DOMAIN h = HandFields /\ h.pc = "hook" /\ DOMAIN h.wish \subseteq Refs
      BY <1>1 DEF HandFields
    <3> HIDE DEF h
    <3> QED BY <1>1, <3>1, <3>2, OneMoves
  <2> QED BY <2>1, <2>2 DEF Sync
<1>3. HandsKeep
  BY <1>2, LeavesOff DEF Executing
<1>4. Told(p)'
  BY <1>1, <1>2 DEF Told, Sync, IInv, GuestSeesUpstream, Locking
<1>5. \A r \in Refs : quarantine'[r] \in pushed'[r]
  BY DEF Sync, IInv, GuestSeesUpstream, Reached
<1>6. GuestSeesUpstream'
  BY <1>1, <1>2, <1>4, <1>5, MovedGuest DEF Sync, IInv
<1> QED BY <1>3, <1>6, HandStep DEF Sync, IInv

LEMMA Hooked == ASSUME IInv, NEW p \in Pushers, Hook(p) PROVE IInv'
<1>1. HandShape /\ hand[p].pc = "hook" /\ DOMAIN hand[p] = HandFields
      /\ DOMAIN hand[p].wish \subseteq Refs
  BY DEF IInv, Brokered, HandShape, Hook
<1>2. /\ HandShape' /\ hand'[p].pc \in {"lookup", "refuse"}
      /\ \A q \in Pushers : q # p => hand'[q] = hand[q]
  <2>1. PICK pc \in {"lookup", "refuse"} : hand' = [hand EXCEPT ![p].pc = pc, ![p].slot = ~Cancelled(p)]
    BY DEF Hook
  <2> DEFINE h == [hand[p] EXCEPT !.pc = pc, !.slot = ~Cancelled(p)]
  <2>2. hand' = [hand EXCEPT ![p] = h]
    BY <1>1, <2>1 DEF HandShape
  <2>3. DOMAIN h = HandFields /\ h.pc = pc /\ DOMAIN h.wish \subseteq Refs
    BY <1>1 DEF HandFields
  <2> HIDE DEF h
  <2> QED BY <1>1, <2>1, <2>2, <2>3, OneMoves
<1>3. HandsKeep
  BY <1>2, LeavesOff DEF Executing
<1>4. Told(p)'
  BY <1>1, <1>2 DEF Told, Hook, IInv, GuestSeesUpstream, Locking
<1>5. GuestSeesUpstream'
  BY <1>1, <1>2, <1>4, MovedGuest DEF Hook, IInv, GuestSeesUpstream
<1> QED BY <1>3, <1>5, HandStep DEF Hook, IInv

LEMMA GuestLeft == ASSUME IInv, NEW p \in Pushers, GuestLeaves(p) PROVE IInv'
<1> DEFINE h == [hand[p] EXCEPT !.slot = FALSE]
<1>1. HandShape /\ DOMAIN hand[p] = HandFields
      /\ (hand[p].pc # "idle" => DOMAIN hand[p].wish \subseteq Refs)
  BY DEF IInv, Brokered, HandShape
<1>2. /\ DOMAIN h = HandFields /\ h.pc = hand[p].pc /\ h.wish = hand[p].wish
      /\ h.seen = hand[p].seen /\ h.nonce = hand[p].nonce
  BY <1>1 DEF HandFields
<1>3. hand' = [hand EXCEPT ![p] = h]
  BY DEF GuestLeaves
<1> HIDE DEF h
<1>4. HandShape' /\ hand'[p] = h /\ \A q \in Pushers : q # p => hand'[q] = hand[q]
  BY <1>1, <1>2, <1>3, OneMoves, ZenonT(60)
<1>5. HandsKeep
  BY <1>2, <1>4 DEF HandsKeep
<1>6. Updates(p)' = Updates(p)
  BY <1>2, <1>4, SameBinding
<1>7. Told(p)'
  BY <1>2, <1>4, <1>6 DEF Told, GuestLeaves, IInv, GuestSeesUpstream, Locking
<1>8. GuestSeesUpstream'
  BY <1>1, <1>4, <1>7, MovedGuest DEF GuestLeaves, IInv, GuestSeesUpstream
<1> QED BY <1>5, <1>8, HandStep DEF GuestLeaves, IInv

LEMMA Returned == ASSUME IInv, NEW p \in Pushers, PushReturns(p) PROVE IInv'
<1>1. HandShape /\ hand[p].pc = "pushing" /\ flock = p
  BY DEF IInv, Brokered, PushReturns, GuestSeesUpstream
<1>2. PICK pc \in {"record", "refuse"} :
        /\ hand' = [hand EXCEPT ![p].pc = pc]
        /\ IF pc = "record" THEN Landed(hand[p].nonce) /\ flock' = flock ELSE flock' = 0
  BY DEF PushReturns, Steps
<1>3. /\ HandShape' /\ \A q \in Pushers : q # p => hand'[q] = hand[q]
      /\ hand'[p].pc = pc /\ Updates(p)' = Updates(p)
  BY <1>1, <1>2, PcMoves, SameBinding
<1>4. HandsKeep
  BY <1>1, <1>2, PcKeeps DEF Executing, Held
<1>5. Told(p)'
  <2>1. item[hand[p].nonce].binding = Updates(p)
    BY <1>1 DEF IInv, Brokered, OwnGrant, Executing, Binding
  <2>2. pc = "record" => \A u \in Updates(p) : u.new \in pushed[u.ref]
    BY <1>2, <2>1 DEF Landed
  <2> QED BY <1>1, <1>2, <1>3, <2>2 DEF Told, PushReturns, Locking
<1>6. GuestSeesUpstream'
  BY <1>1, <1>2, <1>3, <1>5, MovedGuest DEF PushReturns, IInv, GuestSeesUpstream
<1> QED BY <1>4, <1>6, HandStep DEF PushReturns, IInv

LEMMA Recorded == ASSUME IInv, NEW p \in Pushers, Record(p) PROVE IInv'
<1>1. HandShape /\ hand[p].pc = "record" /\ flock = p
  BY DEF IInv, Brokered, Record, GuestSeesUpstream
<1>2. PICK pc \in {"accept", "refuse"} : hand' = [hand EXCEPT ![p].pc = pc]
  BY DEF Record, Steps
<1>3. /\ HandShape' /\ \A q \in Pushers : q # p => hand'[q] = hand[q]
      /\ hand'[p].pc = pc /\ Updates(p)' = Updates(p)
  BY <1>1, <1>2, PcMoves, SameBinding
<1>4. HandsKeep
  BY <1>1, <1>2, PcKeeps DEF Executing, Held
<1>5. Told(p)'
  BY <1>1, <1>3 DEF Told, Record, Locking, IInv, GuestSeesUpstream
<1>6. GuestSeesUpstream'
  BY <1>1, <1>2, <1>3, <1>5, MovedGuest DEF Record, IInv, GuestSeesUpstream
<1> QED BY <1>4, <1>6, HandStep DEF Record, IInv

LEMMA Answered == ASSUME IInv, NEW p \in Pushers, Answer(p) PROVE IInv'
<1>1. HandShape /\ hand[p].pc \in {"accept", "refuse"} /\ DOMAIN hand[p].wish \subseteq Refs
  BY DEF IInv, Brokered, HandShape, Answer
<1>2. HandShape' /\ hand'[p] = Idle /\ \A q \in Pushers : q # p => hand'[q] = hand[q]
  <2>1. DOMAIN Idle = HandFields /\ Idle.pc = "idle"
    BY DEF Idle, HandFields
  <2> QED BY <1>1, <2>1, OneMoves DEF Answer
<1>3. HandsKeep
  BY <1>2, LeavesOff DEF Executing, Idle
<1>4. Told(p)'
  BY <1>1, <1>2 DEF Told, Answer, Idle, Locking, IInv, GuestSeesUpstream
<1>5. \A r \in Refs : quarantine'[r] \in pushed'[r]
  <2>1. CASE UNCHANGED quarantine
    BY <2>1 DEF Answer, IInv, GuestSeesUpstream
  <2>2. CASE hand[p].pc = "accept"
             /\ \E done \in SUBSET Updates(p) :
                  quarantine' = [r \in Refs |-> IF \E u \in done : u.ref = r THEN hand[p].wish[r]
                                                ELSE quarantine[r]]
    <3>1. ASSUME NEW u \in Updates(p) PROVE hand[p].wish[u.ref] \in pushed[u.ref]
      <4>1. PICK r \in DOMAIN hand[p].wish : u = Update(r, hand[p].seen[r], hand[p].wish[r])
        BY DEF Updates
      <4>2. u.ref = r /\ u.new = hand[p].wish[r]
        BY <4>1 DEF Update
      <4> QED BY <2>2, <4>2 DEF IInv, GuestSeesUpstream
    <3> QED BY <2>2, <3>1 DEF Answer, IInv, GuestSeesUpstream
  <2> QED BY <2>1, <2>2 DEF Answer
<1>6. GuestSeesUpstream'
  BY <1>1, <1>2, <1>4, <1>5, MovedGuest DEF Answer, IInv
<1> QED BY <1>3, <1>6, HandStep DEF Answer, IInv

(* The steps around the broker. *)
LEMMA Around ==
  ASSUME IInv, CloseSession \/ OpenSession \/ Tick \/ \E r \in Refs, c \in Foreign : ForeignPush(r, c)
  PROVE  IInv'
<1>1. Brokered'
  BY SameItems, SameHands, SameUsers, KeptBroker
     DEF CloseSession, OpenSession, Tick, ForeignPush, IInv, Brokered
<1>2. RefShape' /\ Reached' /\ Grows
  <2>1. CASE CloseSession \/ OpenSession \/ Tick
    BY <2>1 DEF CloseSession, OpenSession, Tick, IInv, RefShape, Reached, Grows
  <2>2. CASE \E r \in Refs, c \in Foreign : ForeignPush(r, c)
    <3>1. PICK r \in Refs, c \in Foreign : ForeignPush(r, c)
      BY <2>2
    <3>2. RefShape /\ Reached
      BY DEF IInv
    <3>3. RefShape'
      BY <3>1, <3>2 DEF ForeignPush, RefShape
    <3>4. \A s \in Refs : upstream'[s] = (IF s = r THEN c ELSE upstream[s])
      BY <3>1, <3>2 DEF ForeignPush, RefShape
    <3>5. \A s \in Refs : pushed'[s] = (IF s = r THEN pushed[s] \cup {c} ELSE pushed[s])
      BY <3>1, <3>2 DEF ForeignPush, RefShape
    <3> QED BY <3>2, <3>3, <3>4, <3>5 DEF Reached, Grows
  <2> QED BY <2>1, <2>2
<1>3. \A r \in Refs : quarantine'[r] \in pushed'[r]
  BY <1>2 DEF CloseSession, OpenSession, Tick, ForeignPush, IInv, Grows, Reached, GuestSeesUpstream
<1>4. GuestSeesUpstream'
  BY <1>2, <1>3, KeptGuest DEF CloseSession, OpenSession, Tick, ForeignPush, IInv, Brokered
<1> QED BY <1>1, <1>2, <1>4 DEF IInv
-----------------------------------------------------------------------------
(* The steps that spend a grant.                                              *)

LEMMA OneItem ==
  ASSUME ItemShape, UNCHANGED nonces, NEW n \in 1 .. nonces, NEW h,
         item' = [item EXCEPT ![n] = h], DOMAIN h = Fields
  PROVE  /\ ItemShape' /\ item'[n] = h
         /\ \A k \in 1 .. nonces : k # n => item'[k] = item[k]
<1>1. item'[n] = h /\ \A k \in 1 .. nonces : k # n => item'[k] = item[k]
  BY DEF ItemShape, Nonces
<1>2. item' = [k \in Nonces |-> item'[k]]
  BY DEF ItemShape
<1>3. \A k \in 1 .. nonces : DOMAIN item'[k] = Fields
  BY <1>1 DEF ItemShape
<1> QED BY <1>1, <1>2, <1>3 DEF ItemShape

LEMMA OneShrinks ==
  ASSUME IInv, UNCHANGED nonces, NEW n \in 1 .. nonces, NEW h,
         item' = [item EXCEPT ![n] = h], DOMAIN h = Fields,
         h.binding = item[n].binding, h.sid = item[n].sid,
         h.listed => item[n].listed /\ h.mgr = "pending", h.usable => item[n].usable
  PROVE  /\ Shrinks /\ item'[n] = h
         /\ \A k \in 1 .. nonces : k # n => item'[k] = item[k]
<1>1. /\ ItemShape' /\ item'[n] = h
      /\ \A k \in 1 .. nonces : k # n => item'[k] = item[k]
  BY OneItem DEF IInv, Brokered
<1>2. \A k \in 1 .. nonces : item[k].listed => item[k].mgr = "pending"
  BY DEF IInv, Brokered, Single
<1> QED BY <1>1, <1>2 DEF Shrinks

\* The grant that a connection gives up is nowhere else.
LEMMA Spent ==
  ASSUME IInv, NEW p \in Pushers, NEW n \in 1 .. nonces, Holds(p, n), hand'[p].pc \notin Held,
         Shrinks, HandsKeep, UsersKeep, UNCHANGED transit,
         \A k \in 1 .. nonces : k # n => item'[k] = item[k]
  PROVE  Brokered'
<1>1. /\ n \notin transit /\ ~item[n].usable /\ \A u \in Users : ~With(u, n)
      /\ \A q \in Pushers : Holds(q, n) => q = p
  BY DEF IInv, Brokered, OnePlace
<1>2. \A q \in Pushers : ~Holds(q, n)'
  BY <1>1, KeptPlaces DEF Holds, Held
<1>3. \A u \in Users : ~With(u, n)'
  BY <1>1, KeptPlaces
<1>4. EndsUnused
  BY <1>1, <1>2, <1>3 DEF EndsUnused, Shrinks
<1> QED BY <1>4, KeptBroker DEF IInv

LEMMA HeldNonce ==
  ASSUME IInv, NEW p \in Pushers, hand[p].pc \in Held
  PROVE  /\ HandShape /\ hand[p].pc # "idle"
         /\ hand[p].nonce \in 1 .. nonces /\ Holds(p, hand[p].nonce)
         /\ DOMAIN item[hand[p].nonce] = Fields /\ ~item[hand[p].nonce].listed
BY DEF IInv, Brokered, OwnGrant, Held, Executing, Holds, ItemShape, OnePlace

\* A connection gives up the grant it holds, and the lock with it.
LEMMA GivesUp ==
  ASSUME IInv, NEW p \in Pushers, hand[p].pc \in Held, Steps(p, "refuse"),
         flock' = IF flock = p THEN 0 ELSE flock, NEW h, DOMAIN h = Fields,
         item' = [item EXCEPT ![hand[p].nonce] = h],
         h.binding = item[hand[p].nonce].binding, h.sid = item[hand[p].nonce].sid,
         ~h.listed, h.usable => item[hand[p].nonce].usable,
         UNCHANGED <<nonces, transit, user, upstream, pushed, quarantine>>
  PROVE  IInv'
<1> DEFINE n == hand[p].nonce
<1>1. HandShape /\ hand[p].pc # "idle" /\ n \in 1 .. nonces /\ Holds(p, n)
  BY HeldNonce
<1>2. /\ HandShape' /\ hand'[p].pc = "refuse"
      /\ \A q \in Pushers : q # p => hand'[q] = hand[q]
  BY <1>1, PcMoves, ZenonT(60) DEF Steps
<1>3. HandsKeep /\ UsersKeep
  BY <1>2, LeavesOff, SameUsers DEF Executing, IInv, Brokered
<1>4. Shrinks /\ \A k \in 1 .. nonces : k # n => item'[k] = item[k]
  BY <1>1, OneShrinks
<1>5. Brokered'
  BY <1>1, <1>2, <1>3, <1>4, Spent DEF Held
<1>6. Told(p)'
  BY <1>2 DEF Told, Locking
<1>7. GuestSeesUpstream'
  BY <1>1, <1>2, <1>6, MovedGuest DEF IInv, GuestSeesUpstream
<1> QED BY <1>5, <1>7 DEF IInv, RefShape, Reached

\* A connection that goes on with its grant, the lock in its hands.
LEMMA GoesOn ==
  ASSUME IInv, NEW p \in Pushers, hand[p].pc \in Held, NEW pc \in Locking \ {"record"},
         Steps(p, pc), flock = p \/ flock = 0, flock' = p, UNCHANGED pushed,
         \A r \in Refs : quarantine'[r] \in pushed'[r]
  PROVE  HandsKeep /\ GuestSeesUpstream' /\ hand'[p].pc = pc
<1>1. HandShape /\ hand[p].pc # "idle"
  BY HeldNonce
<1>2. HandsKeep
  BY <1>1, PcKeeps DEF Steps, Held, Executing
<1>3. /\ \A q \in Pushers : q # p => hand'[q] = hand[q]
      /\ hand'[p].pc = pc /\ Updates(p)' = Updates(p)
  BY <1>1, PcMoves, SameBinding DEF Steps
<1>4. Told(p)'
  BY <1>3 DEF Told, Locking
<1> QED BY <1>1, <1>2, <1>3, <1>4, MovedGuest DEF IInv

LEMMA Executed == ASSUME IInv, NEW p \in Pushers, Execute(p) PROVE IInv'
<1> DEFINE n == hand[p].nonce
           h == [item[n] EXCEPT !.confirmed = FALSE]
<1>1. /\ hand[p].pc \in Held /\ flock = 0 /\ n \in 1 .. nonces
      /\ DOMAIN item[n] = Fields /\ ~item[n].listed
  BY HeldNonce DEF Execute, Unlocked, Held
<1>2. CASE Steps(p, "consume") /\ flock' = p /\ UNCHANGED item
  <2>1. HandsKeep /\ GuestSeesUpstream'
    BY <1>1, <1>2, GoesOn DEF Execute, Locking, IInv, GuestSeesUpstream
  <2> QED BY <1>2, <2>1, HandStep DEF Execute, IInv
<1>3. CASE Steps(p, "refuse") /\ Unconfirm(n) /\ UNCHANGED flock
  <2>1. /\ DOMAIN h = Fields /\ h.binding = item[n].binding /\ h.sid = item[n].sid
        /\ h.listed = item[n].listed /\ h.usable = item[n].usable
    BY <1>1 DEF Fields
  <2>2. item' = [item EXCEPT ![n] = h]
    BY <1>3 DEF Unconfirm
  <2> HIDE DEF h
  <2> QED BY <1>1, <1>3, <2>1, <2>2, GivesUp DEF Execute
<1> QED BY <1>2, <1>3 DEF Execute

LEMMA Consumed == ASSUME IInv, NEW p \in Pushers, Consume(p) PROVE IInv'
<1> DEFINE n == hand[p].nonce
           g == [item[n] EXCEPT !.mgr = "gone"]
           h == [item[n] EXCEPT !.mgr = "gone", !.confirmed = FALSE]
<1>1. /\ hand[p].pc \in Held /\ flock = p /\ n \in 1 .. nonces
      /\ DOMAIN item[n] = Fields /\ ~item[n].listed
  BY HeldNonce DEF Consume, Held, IInv, GuestSeesUpstream
<1>2. CASE Steps(p, "started") /\ UNCHANGED flock /\ item' = [item EXCEPT ![n].mgr = "gone"]
  <2>1. HandsKeep /\ GuestSeesUpstream'
    BY <1>1, <1>2, GoesOn DEF Consume, Locking, IInv, GuestSeesUpstream
  <2>2. /\ DOMAIN g = Fields /\ g.binding = item[n].binding /\ g.sid = item[n].sid
        /\ g.listed = item[n].listed /\ g.usable = item[n].usable
        /\ g.confirmed = item[n].confirmed
    BY <1>1 DEF Fields
  <2>3. item' = [item EXCEPT ![n] = g]
    BY <1>2
  <2> HIDE DEF g
  <2>4. Shrinks /\ item'[n] = g /\ \A k \in 1 .. nonces : k # n => item'[k] = item[k]
    BY <1>1, <2>2, <2>3, OneShrinks, ZenonT(60) DEF Consume
  <2>5. EndsUnused
    BY <2>2, <2>4 DEF EndsUnused
  <2>6. Brokered'
    BY <2>1, <2>4, <2>5, SameUsers, KeptBroker DEF Consume, IInv, Brokered
  <2> QED BY <2>1, <2>6 DEF IInv, Consume, RefShape, Reached
<1>3. CASE /\ Steps(p, "refuse") /\ flock' = 0
           /\ item' = [item EXCEPT ![n].mgr = "gone", ![n].confirmed = FALSE]
  <2>1. /\ DOMAIN h = Fields /\ h.binding = item[n].binding /\ h.sid = item[n].sid
        /\ h.listed = item[n].listed /\ h.usable = item[n].usable
    BY <1>1 DEF Fields
  <2>2. item' = [item EXCEPT ![n] = h]
    BY <1>1, <1>3 DEF IInv, Brokered, ItemShape, Nonces
  <2> HIDE DEF h
  <2> QED BY <1>1, <1>3, <2>1, <2>2, GivesUp DEF Consume
<1> QED BY <1>2, <1>3 DEF Consume

LEMMA Started == ASSUME IInv, NEW p \in Pushers, StartPush(p) PROVE IInv'
<1> DEFINE n == hand[p].nonce
           h == [item[n] EXCEPT !.confirmed = FALSE]
<1>1. /\ hand[p].pc \in Held /\ flock = p /\ n \in 1 .. nonces /\ Holds(p, n)
      /\ DOMAIN item[n] = Fields /\ ~item[n].listed
  BY HeldNonce DEF StartPush, Held, IInv, GuestSeesUpstream
<1>2. CASE transit' = transit \cup {n} /\ Steps(p, "pushing") /\ UNCHANGED <<flock, item>>
  <2>1. HandsKeep /\ GuestSeesUpstream' /\ hand'[p].pc = "pushing"
    BY <1>1, <1>2, GoesOn DEF StartPush, Locking, IInv, GuestSeesUpstream
  <2>2. Shrinks /\ EndsUnused /\ UsersKeep
    BY <1>2, SameItems, SameUsers DEF StartPush, IInv, Brokered
  <2>3. /\ \A q \in Pushers : \A k : Holds(q, k)' => Holds(q, k) /\ k # n
        /\ \A u \in Users : \A k : With(u, k)' => With(u, k) /\ k # n
    BY <1>1, <2>1, <2>2, KeptPlaces DEF Holds, IInv, Brokered, OnePlace
  <2>4. OnePlace'
    BY <1>1, <1>2, <2>2, <2>3 DEF IInv, Brokered, OnePlace, Shrinks, StartPush
  <2>5. Approved'
    <3>1. Approved /\ item' = item /\ nonces' = nonces /\ user' = user /\ item[n].confirmed
      BY <1>1, <1>2 DEF IInv, Brokered, StartPush, Approved
    <3> QED BY <1>1, <1>2, <2>3, <3>1 DEF Approved
  <2>6. OwnGrant' /\ Single'
    BY <1>2, <2>1, <2>2, KeptGrant DEF StartPush, IInv, Brokered, Single
  <2> QED BY <1>2, <2>1, <2>2, <2>4, <2>5, <2>6
          DEF IInv, Brokered, Shrinks, HandsKeep, UsersKeep, StartPush, RefShape, Reached
<1>3. CASE Steps(p, "refuse") /\ flock' = 0 /\ Unconfirm(n) /\ UNCHANGED transit
  <2>1. /\ DOMAIN h = Fields /\ h.binding = item[n].binding /\ h.sid = item[n].sid
        /\ h.listed = item[n].listed /\ h.usable = item[n].usable
    BY <1>1 DEF Fields
  <2>2. item' = [item EXCEPT ![n] = h]
    BY <1>3 DEF Unconfirm
  <2> HIDE DEF h
  <2> QED BY <1>1, <1>3, <2>1, <2>2, GivesUp DEF StartPush
<1> QED BY <1>2, <1>3 DEF StartPush

LEMMA Arrived == ASSUME IInv, NEW n \in Nonces, Arrives(n) PROVE IInv'
<1> DEFINE h == [item[n] EXCEPT !.confirmed = FALSE]
<1>1. n \in 1 .. nonces /\ n \in transit /\ DOMAIN item[n] = Fields
  BY DEF Arrives, IInv, Brokered, Approved, ItemShape
<1>2. /\ DOMAIN h = Fields /\ h.binding = item[n].binding /\ h.sid = item[n].sid
      /\ h.listed = item[n].listed /\ h.usable = item[n].usable /\ h.mgr = item[n].mgr
  BY <1>1 DEF Fields
<1>3. item' = [item EXCEPT ![n] = h]
  BY DEF Arrives, Unconfirm
<1> HIDE DEF h
<1>4. h.listed => item[n].listed /\ h.mgr = "pending"
  BY <1>1, <1>2 DEF IInv, Brokered, Single
<1>5. Shrinks /\ item'[n] = h /\ \A k \in 1 .. nonces : k # n => item'[k] = item[k]
  BY <1>1, <1>2, <1>3, <1>4, OneShrinks, ZenonT(60) DEF Arrives
<1>6. HandsKeep /\ UsersKeep
  BY SameHands, SameUsers DEF Arrives, IInv, Brokered
<1>7. EndsUnused
  <2>1. ~item[n].usable /\ (\A q \in Pushers : ~Holds(q, n)) /\ \A u \in Users : ~With(u, n)
    BY <1>1 DEF IInv, Brokered, OnePlace
  <2>2. (\A q \in Pushers : ~Holds(q, n)') /\ \A u \in Users : ~With(u, n)'
    BY <1>6, <2>1, KeptPlaces
  <2> QED BY <1>2, <1>5, <2>1, <2>2 DEF EndsUnused, Arrives
<1>8. Brokered'
  BY <1>5, <1>6, <1>7, KeptBroker DEF Arrives, IInv
<1>9. RefShape' /\ Reached' /\ Grows
  BY DEF Arrives, IInv, RefShape, Reached, Grows
<1>10. GuestSeesUpstream'
  BY <1>9, KeptGuest DEF Arrives, IInv, Brokered, GuestSeesUpstream, Grows
<1> QED BY <1>8, <1>9, <1>10 DEF IInv
-----------------------------------------------------------------------------
(* The steps that move a request or a grant from place to place.              *)

LEMMA LookedUp == ASSUME IInv, NEW p \in Pushers, LookUp(p) PROVE IInv'
<1>1. HandShape /\ hand[p].pc = "lookup" /\ DOMAIN hand[p] = HandFields
      /\ DOMAIN hand[p].wish \subseteq Refs
  BY DEF IInv, Brokered, HandShape, LookUp
<1>2. CASE Steps(p, "decide") /\ UNCHANGED item
  <2>1. /\ HandShape' /\ hand'[p].pc = "decide"
        /\ \A q \in Pushers : q # p => hand'[q] = hand[q]
    BY <1>1, <1>2, PcMoves DEF Steps
  <2>2. HandsKeep
    BY <2>1, LeavesOff DEF Executing
  <2>3. Told(p)'
    BY <1>1, <2>1 DEF Told, Locking, LookUp, IInv, GuestSeesUpstream
  <2>4. GuestSeesUpstream'
    BY <1>1, <2>1, <2>3, MovedGuest DEF LookUp, IInv, GuestSeesUpstream
  <2> QED BY <1>2, <2>2, <2>4, HandStep DEF LookUp, IInv
<1>3. ASSUME NEW n \in Nonces, Mine(n, p), item[n].usable,
             hand' = [hand EXCEPT ![p].pc = "execute", ![p].nonce = n],
             item' = [item EXCEPT ![n].usable = FALSE]
      PROVE  IInv'
  <2> DEFINE g == [hand[p] EXCEPT !.pc = "execute", !.nonce = n]
             h == [item[n] EXCEPT !.usable = FALSE]
  <2>1. n \in 1 .. nonces /\ DOMAIN item[n] = Fields /\ item[n].binding = Binding(p)
    <3>1. n \in 1 .. nonces /\ item[n].binding = Binding(p)
      BY <1>3 DEF Mine, Nonces, IInv, Brokered, ItemShape
    <3> QED BY <3>1 DEF IInv, Brokered, ItemShape
  <2>2. /\ DOMAIN g = HandFields /\ g.pc = "execute" /\ g.nonce = n
        /\ g.seen = hand[p].seen /\ g.wish = hand[p].wish
    BY <1>1 DEF HandFields
  <2>3. /\ DOMAIN h = Fields /\ h.binding = item[n].binding /\ h.sid = item[n].sid
        /\ h.listed = item[n].listed /\ h.mgr = item[n].mgr /\ ~h.usable
        /\ h.confirmed = item[n].confirmed
    BY <2>1 DEF Fields
  <2>4. hand' = [hand EXCEPT ![p] = g] /\ item' = [item EXCEPT ![n] = h]
    BY <1>1, <1>3 DEF HandShape
  <2> HIDE DEF g, h
  <2>5. HandShape' /\ hand'[p] = g /\ \A q \in Pushers : q # p => hand'[q] = hand[q]
    BY <1>1, <2>2, <2>4, OneMoves
  <2>6. ~item[n].listed /\ n \notin transit /\ item[n].confirmed
        /\ (\A u \in Users : ~With(u, n)) /\ \A q \in Pushers : ~Holds(q, n)
    BY <1>3, <2>1 DEF IInv, Brokered, OnePlace, Approved
  <2>7. Shrinks /\ item'[n] = h /\ \A k \in 1 .. nonces : k # n => item'[k] = item[k]
    <3>1. ~h.listed /\ nonces' = nonces
      BY <2>3, <2>6 DEF LookUp
    <3> QED BY <2>1, <2>3, <2>4, <3>1, OneShrinks
  <2>8. \A q \in Pushers : \A k : Holds(q, k)' => (Holds(q, k) /\ q # p) \/ (q = p /\ k = n)
    BY <2>2, <2>5 DEF Holds
  <2>9. OnePlace'
    <3>1. OnePlace /\ transit' = transit /\ user' = user
      BY DEF IInv, Brokered, LookUp
    <3> QED BY <2>3, <2>6, <2>7, <2>8, <3>1 DEF OnePlace, Shrinks, With
  <2>10. Approved'
    <3>1. Approved /\ UserShape /\ transit' = transit /\ user' = user
      BY DEF IInv, Brokered, LookUp
    <3>2. \A k \in 1 .. nonces : item'[k].confirmed = item[k].confirmed
      BY <2>3, <2>7
    <3> QED BY <2>6, <2>7, <2>8, <3>1, <3>2 DEF Approved, Shrinks, UserShape
  <2>11. OwnGrant'
    <3> SUFFICES ASSUME NEW q \in Pushers, hand'[q].pc \in Executing
                 PROVE  hand'[q].nonce \in 1 .. nonces'
                        /\ item'[hand'[q].nonce].binding = Binding(q)'
      BY DEF OwnGrant
    <3>1. Binding(q)' = Binding(q)
      BY <2>2, <2>5, SameBinding
    <3>2. OwnGrant
      BY DEF IInv, Brokered
    <3> QED BY <2>1, <2>2, <2>5, <2>7, <3>1, <3>2 DEF OwnGrant, Shrinks
  <2>12. Single' /\ UserShape'
    BY <2>7, SameUsers DEF IInv, Brokered, Single, Shrinks, LookUp, UsersKeep
  <2>13. Told(p)'
    BY <1>1, <2>2, <2>5 DEF Told, Locking, LookUp, IInv, GuestSeesUpstream
  <2>14. GuestSeesUpstream'
    BY <1>1, <2>5, <2>13, MovedGuest DEF LookUp, IInv, GuestSeesUpstream
  <2> QED BY <2>5, <2>7, <2>9, <2>10, <2>11, <2>12, <2>14
          DEF IInv, Brokered, Shrinks, LookUp, RefShape, Reached
<1> QED BY <1>2, <1>3 DEF LookUp

LEMMA Decided == ASSUME IInv, NEW p \in Pushers, Decide(p) PROVE IInv'
<1> DEFINE old == {n \in Nonces : Mine(n, p) /\ item[n].listed}
           less(n) == IF n \in old THEN [item[n] EXCEPT !.listed = FALSE] ELSE item[n]
           new == NewItem(Binding(p), hand[p].sid)
<1>1. HandShape /\ hand[p].pc = "decide"
  BY DEF IInv, Brokered, Decide
<1>2. /\ HandShape' /\ hand'[p].pc = "refuse"
      /\ \A q \in Pushers : q # p => hand'[q] = hand[q]
  BY <1>1, PcMoves DEF Steps, Decide
<1>3. HandsKeep
  BY <1>2, LeavesOff DEF Executing
<1>4. GuestSeesUpstream'
  <2>1. Told(p)'
    BY <1>1, <1>2 DEF Told, Locking, Decide, IInv, GuestSeesUpstream
  <2> QED BY <1>1, <1>2, <2>1, MovedGuest DEF Decide, IInv, GuestSeesUpstream
<1>5. ASSUME NEW n \in 1 .. nonces
      PROVE  /\ DOMAIN less(n) = Fields
             /\ less(n).binding = item[n].binding /\ less(n).sid = item[n].sid
             /\ less(n).listed => item[n].listed /\ n \notin old
             /\ less(n).mgr = item[n].mgr /\ less(n).usable = item[n].usable
             /\ less(n).confirmed = item[n].confirmed
  <2>1. DOMAIN item[n] = Fields
    BY DEF IInv, Brokered, ItemShape
  <2> QED BY <2>1 DEF Fields
<1>6. \A n \in 1 .. nonces : item[n].listed => item[n].mgr = "pending"
  BY DEF IInv, Brokered, Single
<1> HIDE DEF less
<1>7. CASE UNCHANGED <<item, nonces>>
  BY <1>3, <1>4, <1>7, HandStep DEF Decide, IInv
<1>8. CASE UNCHANGED nonces /\ item' = [n \in Nonces |-> less(n)]
  <2>1. ItemShape' /\ \A n \in 1 .. nonces : item'[n] = less(n)
    <3>1. ItemShape /\ nonces \in Nat /\ nonces <= MaxNonces
      BY DEF IInv, Brokered, ItemShape
    <3>2. \A n \in 1 .. nonces : n \in Nonces
      BY <3>1 DEF Nonces
    <3>3. \A n \in 1 .. nonces : item'[n] = less(n)
      BY <1>8, <3>2
    <3> QED BY <1>5, <1>8, <3>1, <3>3 DEF ItemShape
  <2>2. Shrinks /\ EndsUnused
    BY <1>5, <1>6, <1>8, <2>1 DEF Shrinks, EndsUnused
  <2>3. Brokered'
    <3>1. UNCHANGED <<user, transit>> /\ UserShape
      BY DEF Decide, IInv, Brokered
    <3> QED BY <1>3, <1>8, <2>2, <3>1, SameUsers, KeptBroker DEF IInv
  <2> QED BY <1>4, <2>3 DEF IInv, Decide, RefShape, Reached
<1>9. CASE /\ nonces < MaxNonces /\ nonces' = nonces + 1
           /\ item' = [n \in Nonces |-> IF n = nonces + 1 THEN new ELSE less(n)]
  <2>1. /\ DOMAIN new = Fields /\ new.binding = Binding(p) /\ new.sid = hand[p].sid
        /\ new.mgr = "pending" /\ new.listed /\ ~new.usable
    BY DEF NewItem, Fields
  <2> HIDE DEF new
  <2>0. PICK m : m = nonces + 1
    OBVIOUS
  <2>2. /\ nonces \in Nat /\ nonces' \in Nat /\ nonces' <= MaxNonces
        /\ \A n \in 1 .. nonces' : n \in Nonces /\ (n # m => n \in 1 .. nonces)
        /\ \A n \in 1 .. nonces : n \in 1 .. nonces' /\ n # m
        /\ m \in 1 .. nonces' /\ m \notin 1 .. nonces
    BY <1>9, <2>0 DEF IInv, Brokered, ItemShape, Nonces
  <2>3. item'[m] = new /\ \A n \in 1 .. nonces : item'[n] = less(n)
    BY <1>9, <2>0, <2>2
  <2>4. ItemShape'
    BY <1>5, <1>9, <2>0, <2>1, <2>2, <2>3 DEF ItemShape
  <2>5. UserShape' /\ \A u \in Users : ~With(u, m)'
    BY <2>2 DEF UserShape, With, IInv, Brokered, Decide
  <2>6. \A q \in Pushers : ~Holds(q, m)'
    <3>1. OwnGrant
      BY DEF IInv, Brokered
    <3> QED BY <1>3, <2>2, <3>1 DEF HandsKeep, Holds, OwnGrant, Executing, Held
  <2>7. /\ \A q \in Pushers : \A n : Holds(q, n)' => Holds(q, n)
        /\ \A u \in Users : \A n : With(u, n)' => With(u, n)
    BY <1>3 DEF HandsKeep, Holds, With, Decide, Held, Executing
  <2>8. OnePlace'
    <3>1. OnePlace /\ transit' = transit /\ m \notin transit
      BY <2>2 DEF IInv, Brokered, Approved, Decide
    <3>2. \A n \in 1 .. nonces : /\ item'[n].listed => item[n].listed
                                 /\ item'[n].usable = item[n].usable
      BY <1>5, <2>3
    <3>3. \A n \in 1 .. nonces' :
            /\ item'[n].listed => ~item'[n].usable /\ n \notin transit'
            /\ item'[n].usable => n \notin transit'
      BY <2>1, <2>2, <2>3, <3>1, <3>2 DEF OnePlace
    <3>4. \A n \in 1 .. nonces', u \in Users : With(u, n)' =>
            /\ ~item'[n].listed /\ ~item'[n].usable /\ n \notin transit'
            /\ \A v \in Users : With(v, n)' => v = u
      BY <2>2, <2>5, <2>7, <3>1, <3>2 DEF OnePlace
    <3>5. \A n \in 1 .. nonces', q \in Pushers : Holds(q, n)' =>
            /\ ~item'[n].listed /\ ~item'[n].usable /\ n \notin transit'
            /\ \A r \in Pushers : Holds(r, n)' => r = q
            /\ \A u \in Users : ~With(u, n)'
      BY <2>2, <2>6, <2>7, <3>1, <3>2 DEF OnePlace
    <3> QED BY <3>3, <3>4, <3>5 DEF OnePlace
  <2>9. Approved'
    <3>1. Approved /\ transit' = transit /\ user' = user /\ UserShape
      BY DEF IInv, Brokered, Decide
    <3>2. \A n \in 1 .. nonces : /\ item'[n].confirmed = item[n].confirmed
                                 /\ item'[n].usable = item[n].usable
      BY <1>5, <2>3
    <3>3. transit' \subseteq 1 .. nonces' /\ \A n \in transit' : item'[n].confirmed
      BY <2>2, <3>1, <3>2 DEF Approved
    <3>4. \A n \in 1 .. nonces' : item'[n].usable => item'[n].confirmed
      BY <2>1, <2>2, <2>3, <3>1, <3>2 DEF Approved
    <3>5. \A q \in Pushers, n \in 1 .. nonces' : Holds(q, n)' => item'[n].confirmed
      BY <2>2, <2>6, <2>7, <3>1, <3>2 DEF Approved
    <3>6. \A u \in Users : user'[u].pc = "approve" => item'[user'[u].nonce].confirmed
      BY <3>1, <3>2 DEF Approved, UserShape
    <3> QED BY <3>3, <3>4, <3>5, <3>6 DEF Approved
  <2>10. OwnGrant'
    <3> SUFFICES ASSUME NEW q \in Pushers, hand'[q].pc \in Executing
                 PROVE  hand'[q].nonce \in 1 .. nonces'
                        /\ item'[hand'[q].nonce].binding = Binding(q)'
      BY DEF OwnGrant
    <3>1. /\ hand[q].pc \in Executing /\ hand'[q].nonce = hand[q].nonce
          /\ hand'[q].seen = hand[q].seen /\ hand'[q].wish = hand[q].wish
      BY <1>3 DEF HandsKeep
    <3>2. Binding(q)' = Binding(q)
      BY <3>1, SameBinding
    <3>3. hand[q].nonce \in 1 .. nonces /\ item[hand[q].nonce].binding = Binding(q)
      BY <3>1 DEF IInv, Brokered, OwnGrant
    <3> QED BY <1>5, <2>2, <2>3, <3>1, <3>2, <3>3
  <2>11. Single'
    <3>1. Single
      BY DEF IInv, Brokered
    <3>2. \A n \in 1 .. nonces :
            /\ item'[n].binding = item[n].binding /\ item'[n].sid = item[n].sid
            /\ item'[n].mgr = item[n].mgr /\ item'[n].usable = item[n].usable
            /\ item'[n].listed => item[n].listed /\ n \notin old
      BY <1>5, <2>3
    <3>3. \A n \in 1 .. nonces' : item'[n].listed => item'[n].mgr = "pending"
      BY <1>6, <2>1, <2>2, <2>3, <3>2
    <3>4. \A k, n \in 1 .. nonces : k # n /\ item'[k].sid = item'[n].sid
             /\ item'[k].binding = item'[n].binding =>
               ~(item'[k].listed /\ item'[n].listed) /\ ~(item'[k].usable /\ item'[n].usable)
      BY <3>1, <3>2 DEF Single
    <3>5. \A n \in 1 .. nonces : item'[n].sid = new.sid /\ item'[n].binding = new.binding
             => ~item'[n].listed
      BY <2>1, <2>2, <3>2 DEF Mine
    <3> QED BY <2>1, <2>2, <2>3, <3>3, <3>4, <3>5 DEF Single
  <2> QED BY <1>2, <1>4, <2>4, <2>5, <2>8, <2>9, <2>10, <2>11
          DEF IInv, Brokered, Decide, RefShape, Reached
<1> QED BY <1>7, <1>8, <1>9 DEF Decide, less
-----------------------------------------------------------------------------
(* The `approvals` commands.                                                  *)

LEMMA OneUser ==
  ASSUME UserShape, UNCHANGED nonces, NEW u \in Users, NEW pc, NEW n,
         user' = [user EXCEPT ![u] = [pc |-> pc, nonce |-> n]], pc # "idle" => n \in 1 .. nonces
  PROVE  /\ UserShape' /\ user'[u].pc = pc /\ user'[u].nonce = n
         /\ \A v \in Users : v # u => user'[v] = user[v]
<1>1. /\ user'[u] = [pc |-> pc, nonce |-> n]
      /\ \A v \in Users : v # u => user'[v] = user[v]
  BY DEF UserShape
<1>2. user' = [v \in Users |-> user'[v]]
  BY DEF UserShape
<1> QED BY <1>1, <1>2 DEF UserShape

LEMMA UserEnds ==
  ASSUME IInv, NEW u \in Users, Ends(u), UNCHANGED nonces
  PROVE  /\ UsersKeep /\ user'[u].pc = "idle"
         /\ \A v \in Users : v # u => user'[v] = user[v]
<1>1. /\ UserShape' /\ user'[u].pc = "idle"
      /\ \A v \in Users : v # u => user'[v] = user[v]
  BY OneUser DEF Ends, UserIdle, IInv, Brokered
<1> QED BY <1>1 DEF UsersKeep

LEMMA UserMoves ==
  ASSUME IInv, NEW u \in Users, NEW pc, user[u].pc # "idle", user' = [user EXCEPT ![u].pc = pc],
         UNCHANGED nonces
  PROVE  /\ UserShape' /\ user'[u].pc = pc /\ user'[u].nonce = user[u].nonce
         /\ \A v \in Users : v # u => user'[v] = user[v]
<1>1. /\ UserShape /\ DOMAIN user[u] = {"pc", "nonce"} /\ user[u].nonce \in 1 .. nonces
  BY DEF IInv, Brokered, UserShape
<1>2. /\ user'[u] = [user[u] EXCEPT !.pc = pc] /\ user' = [v \in Users |-> user'[v]]
      /\ \A v \in Users : v # u => user'[v] = user[v]
  BY <1>1 DEF UserShape
<1>3. user'[u].pc = pc /\ user'[u].nonce = user[u].nonce /\ DOMAIN user'[u] = {"pc", "nonce"}
  BY <1>1, <1>2
<1> QED BY <1>1, <1>2, <1>3 DEF UserShape

\* The commands move no connection and no ref.
LEMMA UserStep ==
  ASSUME IInv, Brokered', UNCHANGED <<hand, flock, quarantine, upstream, pushed>>
  PROVE  IInv'
<1>1. GuestSeesUpstream'
  BY KeptGuest DEF IInv, Brokered, Grows, GuestSeesUpstream
<1> QED BY <1>1 DEF IInv, RefShape, Reached

\* A request that is listed is nowhere else.
LEMMA ListedAlone ==
  ASSUME IInv, NEW n, Listed(n), n \in Nat \ {0}
  PROVE  /\ n \in 1 .. nonces /\ DOMAIN item[n] = Fields /\ ~item[n].usable /\ n \notin transit
         /\ (\A v \in Users : ~With(v, n)) /\ \A q \in Pushers : ~Holds(q, n)
<1>1. n \in 1 .. nonces /\ item[n].listed
  BY DEF Listed, IInv, Brokered, ItemShape
<1> QED BY <1>1 DEF IInv, Brokered, OnePlace, ItemShape

\* A request that a command approves is nowhere else.
LEMMA WithAlone ==
  ASSUME IInv, NEW u \in Users, user[u].pc \in {"confirm", "approve"}, NEW n, n = user[u].nonce
  PROVE  /\ n \in 1 .. nonces /\ DOMAIN item[n] = Fields
         /\ ~item[n].listed /\ ~item[n].usable /\ n \notin transit
         /\ (\A v \in Users : With(v, n) => v = u) /\ \A q \in Pushers : ~Holds(q, n)
<1>1. n \in 1 .. nonces /\ With(u, n)
  BY DEF With, IInv, Brokered, UserShape
<1> QED BY <1>1 DEF IInv, Brokered, OnePlace, ItemShape

LEMMA ListedNonce ==
  ASSUME IInv, NEW u \in Users, user[u].pc = "listed"
  PROVE  user[u].nonce \in Nat \ {0} /\ user[u].nonce \in 1 .. nonces
BY DEF IInv, Brokered, UserShape, ItemShape

LEMMA ListedPending ==
  ASSUME IInv, NEW u \in Users, NEW n \in Nonces, ListPending(u, n)
  PROVE  IInv'
<1>1. n \in 1 .. nonces
  BY DEF ListPending, Listed, IInv, Brokered, ItemShape, Nonces
<1>2. /\ UserShape' /\ user'[u].pc = "listed"
      /\ \A v \in Users : v # u => user'[v] = user[v]
  BY <1>1, OneUser DEF ListPending, IInv, Brokered
<1>3. UsersKeep
  BY <1>2 DEF UsersKeep
<1>4. Brokered'
  BY <1>3, SameItems, SameHands, KeptBroker DEF ListPending, IInv, Brokered
<1> QED BY <1>4, UserStep DEF ListPending

LEMMA Confirmed == ASSUME IInv, NEW u \in Users, Confirm(u) PROVE IInv'
<1> DEFINE n == user[u].nonce
           h == [item[n] EXCEPT !.listed = FALSE]
<1>1. n \in Nat \ {0} /\ n \in 1 .. nonces /\ user[u].pc = "listed"
  BY ListedNonce DEF Confirm
<1>2. CASE ~Listed(n) /\ Ends(u) /\ UNCHANGED item
  <2>1. UsersKeep
    BY <1>2, UserEnds DEF Confirm
  <2>2. Brokered'
    BY <1>2, <2>1, SameItems, SameHands, KeptBroker DEF Confirm, IInv, Brokered
  <2> QED BY <2>2, UserStep DEF Confirm
<1>3. CASE /\ Listed(n) /\ item' = [item EXCEPT ![n].listed = FALSE]
           /\ user' = [user EXCEPT ![u].pc = "confirm"]
  <2>1. /\ DOMAIN item[n] = Fields /\ ~item[n].usable /\ n \notin transit
        /\ (\A v \in Users : ~With(v, n)) /\ \A q \in Pushers : ~Holds(q, n)
    BY <1>1, <1>3, ListedAlone
  <2>2. /\ DOMAIN h = Fields /\ h.binding = item[n].binding /\ h.sid = item[n].sid
        /\ ~h.listed /\ h.usable = item[n].usable /\ h.confirmed = item[n].confirmed
    BY <2>1 DEF Fields
  <2>3. item' = [item EXCEPT ![n] = h]
    BY <1>3
  <2> HIDE DEF h
  <2>4. Shrinks /\ item'[n] = h /\ \A k \in 1 .. nonces : k # n => item'[k] = item[k]
    BY <1>1, <2>2, <2>3, OneShrinks DEF Confirm
  <2>5. /\ UserShape' /\ user'[u].pc = "confirm" /\ user'[u].nonce = n
        /\ \A v \in Users : v # u => user'[v] = user[v]
    BY <1>1, <1>3, UserMoves DEF Confirm
  <2>6. HandsKeep
    BY SameHands DEF Confirm, IInv, Brokered
  <2>7. /\ \A q \in Pushers : \A k : Holds(q, k)' => Holds(q, k) /\ k # n
        /\ \A v \in Users : \A k : With(v, k)' => (With(v, k) /\ v # u /\ k # n) \/ (v = u /\ k = n)
    BY <2>1, <2>5 DEF Holds, With, Confirm
  <2>8. transit' = transit /\ nonces' = nonces
    BY DEF Confirm
  <2>9. OnePlace'
    <3>1. OnePlace
      BY DEF IInv, Brokered
    <3>2. \A k \in 1 .. nonces : /\ item'[k].listed => item[k].listed /\ k # n
                                 /\ item'[k].usable = item[k].usable
      BY <2>2, <2>4
    <3> QED BY <2>1, <2>7, <2>8, <3>1, <3>2 DEF OnePlace
  <2>10. Approved'
    <3>1. Approved /\ UserShape
      BY DEF IInv, Brokered
    <3>2. \A k \in 1 .. nonces : /\ item'[k].confirmed = item[k].confirmed
                                 /\ item'[k].usable = item[k].usable
      BY <2>2, <2>4
    <3> QED BY <2>5, <2>7, <2>8, <3>1, <3>2 DEF Approved, UserShape
  <2>11. Single' /\ OwnGrant'
    BY <2>4, <2>6, KeptGrant DEF IInv, Brokered, Single, Shrinks
  <2>12. Brokered'
    BY <2>4, <2>5, <2>6, <2>9, <2>10, <2>11 DEF Brokered, Shrinks, HandsKeep
  <2> QED BY <2>12, UserStep DEF Confirm
<1> QED BY <1>2, <1>3 DEF Confirm

LEMMA Rejected == ASSUME IInv, NEW u \in Users, Reject(u) PROVE IInv'
<1> DEFINE n == user[u].nonce
           h == [item[n] EXCEPT !.listed = FALSE, !.mgr = "gone"]
<1>1. n \in Nat \ {0} /\ n \in 1 .. nonces /\ user[u].pc = "listed"
  BY ListedNonce DEF Reject
<1>2. HandsKeep /\ UsersKeep
  BY SameHands, UserEnds DEF Reject, IInv, Brokered
<1>3. Shrinks /\ EndsUnused
  <2>1. CASE ~Listed(n)
    BY <2>1, SameItems DEF Reject, IInv
  <2>2. CASE Listed(n)
    <3>1. DOMAIN item[n] = Fields
      BY <1>1, <2>2, ListedAlone
    <3>2. /\ DOMAIN h = Fields /\ h.binding = item[n].binding /\ h.sid = item[n].sid
          /\ ~h.listed /\ h.usable = item[n].usable /\ h.confirmed = item[n].confirmed
      BY <3>1 DEF Fields
    <3>3. item' = [item EXCEPT ![n] = h]
      BY <1>1, <2>2 DEF Reject, IInv, Brokered, ItemShape, Nonces
    <3> HIDE DEF h
    <3>4. Shrinks /\ item'[n] = h /\ \A k \in 1 .. nonces : k # n => item'[k] = item[k]
      BY <1>1, <3>2, <3>3, OneShrinks DEF Reject
    <3> QED BY <3>2, <3>4 DEF EndsUnused
  <2> QED BY <2>1, <2>2
<1>4. Brokered'
  BY <1>2, <1>3, KeptBroker DEF Reject, IInv
<1> QED BY <1>4, UserStep DEF Reject

LEMMA ManagerConfirmed == ASSUME IInv, NEW u \in Users, ManagerConfirm(u) PROVE IInv'
<1> DEFINE n == user[u].nonce
           g == [item[n] EXCEPT !.mgr = "granted", !.confirmed = TRUE]
           h == [item[n] EXCEPT !.mgr = "gone"]
<1>1. /\ n \in 1 .. nonces /\ DOMAIN item[n] = Fields /\ ~item[n].listed
      /\ ~item[n].usable /\ n \notin transit /\ user[u].pc = "confirm"
  BY WithAlone DEF ManagerConfirm
<1>2. HandsKeep /\ nonces' = nonces /\ transit' = transit
  BY SameHands DEF ManagerConfirm, IInv, Brokered
<1>3. CASE /\ item' = [item EXCEPT ![n].mgr = "granted", ![n].confirmed = TRUE]
           /\ user' = [user EXCEPT ![u].pc = "approve"]
  <2>1. /\ DOMAIN g = Fields /\ g.binding = item[n].binding /\ g.sid = item[n].sid
        /\ g.listed = item[n].listed /\ g.usable = item[n].usable /\ g.confirmed
    BY <1>1 DEF Fields
  <2>2. item' = [item EXCEPT ![n] = g]
    BY <1>1, <1>3 DEF IInv, Brokered, ItemShape, Nonces
  <2> HIDE DEF g
  <2>3. Shrinks /\ item'[n] = g /\ \A k \in 1 .. nonces : k # n => item'[k] = item[k]
    BY <1>1, <1>2, <2>1, <2>2, OneShrinks, ZenonT(60)
  <2>4. /\ UserShape' /\ user'[u].pc = "approve" /\ user'[u].nonce = n
        /\ \A v \in Users : v # u => user'[v] = user[v]
    BY <1>1, <1>2, <1>3, UserMoves
  <2>5. /\ \A q \in Pushers : \A k : Holds(q, k)' => Holds(q, k)
        /\ \A v \in Users : \A k : With(v, k)' => With(v, k)
    BY <1>1, <2>4 DEF Holds, With, ManagerConfirm
  <2>6. OnePlace'
    BY <1>2, <2>3, <2>5 DEF IInv, Brokered, OnePlace, Shrinks
  <2>7. Approved'
    <3>1. Approved
      BY DEF IInv, Brokered
    <3>2. \A k \in 1 .. nonces : /\ item[k].confirmed => item'[k].confirmed
                                 /\ item'[k].usable => item[k].usable
      BY <2>1, <2>3
    <3>3. \A v \in Users : user'[v].pc = "approve" => item'[user'[v].nonce].confirmed
      BY <2>1, <2>3, <2>4, <3>1, <3>2 DEF Approved, IInv, Brokered, UserShape
    <3> QED BY <1>2, <2>5, <3>1, <3>2, <3>3 DEF Approved
  <2>8. Single' /\ OwnGrant'
    BY <1>2, <2>3, KeptGrant DEF IInv, Brokered, Single, Shrinks
  <2>9. Brokered'
    BY <1>2, <2>3, <2>4, <2>6, <2>7, <2>8 DEF Brokered, Shrinks, HandsKeep
  <2> QED BY <2>9, UserStep DEF ManagerConfirm
<1>4. CASE item' = [item EXCEPT ![n].mgr = "gone"] /\ Ends(u)
  <2>1. /\ DOMAIN h = Fields /\ h.binding = item[n].binding /\ h.sid = item[n].sid
        /\ ~h.listed /\ h.usable = item[n].usable /\ h.confirmed = item[n].confirmed
    BY <1>1 DEF Fields
  <2>2. item' = [item EXCEPT ![n] = h]
    BY <1>4
  <2> HIDE DEF h
  <2>3. Shrinks /\ item'[n] = h /\ \A k \in 1 .. nonces : k # n => item'[k] = item[k]
    BY <1>1, <1>2, <2>1, <2>2, OneShrinks
  <2>4. EndsUnused
    BY <2>1, <2>3 DEF EndsUnused
  <2>5. Brokered'
    BY <1>2, <1>4, <2>3, <2>4, UserEnds, KeptBroker DEF IInv
  <2> QED BY <2>5, UserStep DEF ManagerConfirm
<1> QED BY <1>3, <1>4 DEF ManagerConfirm

\* Of the grants for the same push, the broker keeps the last.
LEMMA ApprovedOne ==
  ASSUME IInv, NEW u \in Users, Approve(u), NEW n, n = user[u].nonce
  PROVE  /\ n \in 1 .. nonces /\ ItemShape' /\ nonces' = nonces
         /\ \A k \in 1 .. nonces :
              /\ item'[k].binding = item[k].binding /\ item'[k].sid = item[k].sid
              /\ item'[k].listed = item[k].listed /\ item'[k].mgr = item[k].mgr
              /\ k = n => item'[k].usable /\ item'[k].confirmed = item[k].confirmed
              /\ k # n /\ item[k].usable /\ item[k].sid = item[n].sid
                   /\ item[k].binding = item[n].binding =>
                     ~item'[k].usable /\ ~item'[k].confirmed
              /\ k # n /\ ~(item[k].usable /\ item[k].sid = item[n].sid
                            /\ item[k].binding = item[n].binding) => item'[k] = item[k]
<1>1. n \in 1 .. nonces /\ nonces' = nonces
  BY WithAlone DEF Approve
<1>2. \A k \in 1 .. nonces : DOMAIN item[k] = Fields /\ k \in Nonces
  <2>1. ItemShape
    BY DEF IInv, Brokered
  <2>2. \A k \in 1 .. nonces : k \in 1 .. MaxNonces
    BY <2>1 DEF ItemShape
  <2> QED BY <2>1, <2>2 DEF ItemShape, Nonces
<1> DEFINE same == {k \in 1 .. nonces : item[k].sid = item[n].sid
                                        /\ item[k].binding = item[n].binding /\ item[k].usable}
<1>3. item' = [k \in Nonces |-> IF k = n THEN [item[n] EXCEPT !.usable = TRUE]
                                ELSE IF k \in same
                                     THEN [item[k] EXCEPT !.usable = FALSE, !.confirmed = FALSE]
                                ELSE item[k]]
  BY DEF Approve
<1>4. \A k \in 1 .. nonces :
        item'[k] = IF k = n THEN [item[n] EXCEPT !.usable = TRUE]
                   ELSE IF k \in same THEN [item[k] EXCEPT !.usable = FALSE, !.confirmed = FALSE]
                   ELSE item[k]
  BY <1>2, <1>3
<1>5. ASSUME NEW k \in 1 .. nonces, k = n
      PROVE  /\ DOMAIN item'[k] = Fields
             /\ item'[k].binding = item[k].binding /\ item'[k].sid = item[k].sid
             /\ item'[k].listed = item[k].listed /\ item'[k].mgr = item[k].mgr
             /\ item'[k].usable /\ item'[k].confirmed = item[k].confirmed
  BY <1>2, <1>4, <1>5 DEF Fields
<1>6. ASSUME NEW k \in 1 .. nonces, k # n, k \in same
      PROVE  /\ DOMAIN item'[k] = Fields
             /\ item'[k].binding = item[k].binding /\ item'[k].sid = item[k].sid
             /\ item'[k].listed = item[k].listed /\ item'[k].mgr = item[k].mgr
             /\ ~item'[k].usable /\ ~item'[k].confirmed
  <2>1. item'[k] = [item[k] EXCEPT !.usable = FALSE, !.confirmed = FALSE]
    BY <1>4, <1>6
  <2> QED BY <1>2, <2>1 DEF Fields
<1>7. ASSUME NEW k \in 1 .. nonces, k # n, k \notin same
      PROVE  DOMAIN item'[k] = Fields /\ item'[k] = item[k]
  BY <1>2, <1>4, <1>7
<1>8. item' = [k \in Nonces |-> item'[k]]
  BY <1>3
<1>9. ItemShape'
  BY <1>1, <1>5, <1>6, <1>7, <1>8 DEF ItemShape, IInv, Brokered
<1> QED BY <1>1, <1>5, <1>6, <1>7, <1>9

LEMMA ApprovedGrant == ASSUME IInv, NEW u \in Users, Approve(u) PROVE IInv'
<1> DEFINE n == user[u].nonce
<1>1. /\ ~item[n].listed /\ ~item[n].usable /\ n \notin transit
      /\ (\A v \in Users : With(v, n) => v = u) /\ \A q \in Pushers : ~Holds(q, n)
  BY WithAlone DEF Approve
<1>2. /\ n \in 1 .. nonces /\ ItemShape' /\ nonces' = nonces
      /\ \A k \in 1 .. nonces :
           /\ item'[k].binding = item[k].binding /\ item'[k].sid = item[k].sid
           /\ item'[k].listed = item[k].listed /\ item'[k].mgr = item[k].mgr
           /\ k = n => item'[k].usable /\ item'[k].confirmed = item[k].confirmed
           /\ k # n /\ item[k].usable /\ item[k].sid = item[n].sid
                /\ item[k].binding = item[n].binding =>
                  ~item'[k].usable /\ ~item'[k].confirmed
           /\ k # n /\ ~(item[k].usable /\ item[k].sid = item[n].sid
                         /\ item[k].binding = item[n].binding) => item'[k] = item[k]
  BY ApprovedOne
<1>3. HandsKeep /\ UsersKeep /\ transit' = transit /\ hand' = hand
      /\ \A v \in Users : v # u => user'[v] = user[v]
  BY <1>2, SameHands, UserEnds DEF Approve, IInv, Brokered
<1>4. /\ \A q \in Pushers : \A k : Holds(q, k)' => Holds(q, k) /\ k # n
      /\ \A v \in Users : \A k : With(v, k)' => With(v, k) /\ k # n
  <2>1. user'[u].pc = "idle"
    BY <1>2, UserEnds DEF Approve
  <2> QED BY <1>1, <1>3, <2>1, KeptPlaces DEF With
<1>5. OnePlace /\ Approved /\ Single /\ UserShape
  BY DEF IInv, Brokered
<1>6. \A k \in 1 .. nonces : item'[k].usable => item[k].usable \/ k = n
  BY <1>2
<1>7. OnePlace'
  BY <1>1, <1>2, <1>3, <1>4, <1>5, <1>6 DEF OnePlace
<1>8. Approved'
  <2>1. item[n].confirmed
    BY <1>5 DEF Approved, Approve
  <2>2. \A k \in 1 .. nonces : item[k].confirmed /\ ~item'[k].confirmed =>
          item[k].usable /\ ~item'[k].usable
    BY <1>2
  <2>3. \A k \in 1 .. nonces : item'[k].usable => item'[k].confirmed
    BY <1>2, <1>5, <1>6, <2>1, <2>2 DEF Approved
  <2>4. \A k \in transit : item'[k].confirmed
    BY <1>5, <2>2 DEF OnePlace, Approved
  <2>5. \A q \in Pushers, k \in 1 .. nonces : Holds(q, k)' => item'[k].confirmed
    BY <1>4, <1>5, <2>2 DEF OnePlace, Approved
  <2>6. \A v \in Users : user'[v].pc = "approve" => item'[user'[v].nonce].confirmed
    <3> SUFFICES ASSUME NEW v \in Users, user'[v].pc = "approve"
                 PROVE  item'[user'[v].nonce].confirmed
      OBVIOUS
    <3>1. user[v].pc = "approve" /\ user'[v].nonce = user[v].nonce
      BY <1>3 DEF UsersKeep
    <3>2. user[v].nonce \in 1 .. nonces /\ With(v, user[v].nonce)
      BY <1>5, <3>1 DEF UserShape, With
    <3> QED BY <1>5, <2>2, <3>1, <3>2 DEF OnePlace, Approved
  <2> QED BY <1>2, <1>3, <1>5, <2>3, <2>4, <2>5, <2>6 DEF Approved
<1>9. Single'
  BY <1>2, <1>5, <1>6 DEF Single
<1>10. OwnGrant'
  <2>1. \A q \in Pushers : Binding(q)' = Binding(q)
    BY <1>3, SameBinding
  <2> QED BY <1>2, <1>3, <2>1 DEF IInv, Brokered, OwnGrant
<1>11. Brokered'
  BY <1>2, <1>3, <1>7, <1>8, <1>9, <1>10 DEF Brokered, HandsKeep, UsersKeep
<1> QED BY <1>11, UserStep DEF Approve
-----------------------------------------------------------------------------
(* The inductive invariant.                                                   *)

LEMMA InitIInv == Init => IInv
<1> SUFFICES ASSUME Init PROVE IInv
  OBVIOUS
<1>1. /\ nonces = 0 /\ transit = {} /\ flock = 0 /\ quarantine = upstream
      /\ item = [n \in Nonces |-> [binding |-> {}]]
      /\ hand = [p \in Pushers |-> Idle] /\ user = [u \in Users |-> UserIdle]
      /\ pushed = [r \in Refs |-> {upstream[r]}]
  BY DEF Init
<1>2. 1 .. nonces = {}
  BY <1>1
<1>3. ItemShape
  BY <1>1, <1>2 DEF ItemShape
<1>4. HandShape /\ \A p \in Pushers : hand[p].pc = "idle"
  BY <1>1 DEF HandShape, Idle, HandFields
<1>5. UserShape /\ \A u \in Users : user[u].pc = "idle"
  BY <1>1 DEF UserShape, UserIdle
<1>6. OnePlace /\ Single
  BY <1>2 DEF OnePlace, Single
<1>7. Approved
  BY <1>1, <1>2, <1>5 DEF Approved
<1>8. OwnGrant
  BY <1>4 DEF OwnGrant, Executing
<1>9. RefShape /\ Reached /\ \A r \in Refs : quarantine[r] \in pushed[r]
  BY <1>1 DEF Init, RefShape, Reached
<1>10. GuestSeesUpstream
  BY <1>1, <1>4, <1>9 DEF GuestSeesUpstream
<1> QED BY <1>3, <1>4, <1>5, <1>6, <1>7, <1>8, <1>9, <1>10 DEF IInv, Brokered

LEMMA Stutters == ASSUME IInv, UNCHANGED vars PROVE IInv'
<1>1. Brokered'
  BY SameItems, SameHands, SameUsers, KeptBroker DEF vars, IInv, Brokered
<1> QED BY <1>1, UserStep DEF vars

LEMMA StepIInv == IInv /\ [Next]_vars => IInv'
<1> SUFFICES ASSUME IInv, [Next]_vars PROVE IInv'
  OBVIOUS
<1>1. ASSUME NEW p \in Pushers, HandleStep(p) \/ GuestLeaves(p) \/ \E w \in Wishes : Push(p, w)
      PROVE  IInv'
  BY <1>1, Pushing, Synced, Hooked, LookedUp, Decided, Executed, Consumed, Started, Returned,
     Recorded, Answered, GuestLeft DEF HandleStep
<1>2. ASSUME NEW u \in Users,
             \/ \E n \in Nonces : ListPending(u, n)
             \/ Confirm(u) \/ ManagerConfirm(u) \/ Approve(u) \/ Reject(u)
      PROVE  IInv'
  BY <1>2, ListedPending, Confirmed, ManagerConfirmed, ApprovedGrant, Rejected
<1> QED BY <1>1, <1>2, Arrived, Around, Stutters DEF Next

LEMMA Invariance == Spec => []IInv
BY InitIInv, StepIInv, PTL DEF Spec

(* The broker never holds two requests or two grants for the same push of a   *)
(* session; what it lists the manager has pending, which does not say that it *)
(* can still be decided (the manager refuses an expired one); a grant was     *)
(* confirmed, and one attempt at a time holds it: for any refs, wishes and    *)
(* number of connections and commands (HookBroker.pending, byDigest and       *)
(* approved against PushApprovalManager).                                     *)
THEOREM OneRequest == Spec => []OneRequestPerPush
<1>1. IInv => OneRequestPerPush
  <2> SUFFICES ASSUME IInv PROVE OneRequestPerPush
    OBVIOUS
  <2>1. \A n \in 1 .. nonces : item[n].usable => item[n].confirmed /\ ~item[n].listed
    BY DEF IInv, Brokered, OnePlace, Approved
  <2>2. ASSUME NEW p \in Pushers, hand[p].pc \in Held
        PROVE  /\ ~item[hand[p].nonce].listed /\ ~item[hand[p].nonce].usable
               /\ \A q \in Pushers \ {p} : hand[q].pc \in Held => hand[q].nonce # hand[p].nonce
    <3>1. hand[p].nonce \in 1 .. nonces /\ Holds(p, hand[p].nonce)
      BY <2>2 DEF IInv, Brokered, OwnGrant, Executing, Held, Holds
    <3>2. \A q \in Pushers : hand[q].pc \in Held /\ hand[q].nonce = hand[p].nonce =>
            Holds(q, hand[p].nonce)
      BY DEF Held, Holds
    <3> QED BY <3>1, <3>2 DEF IInv, Brokered, OnePlace
  <2> QED BY <2>1, <2>2 DEF OneRequestPerPush, IInv, Brokered, Single, Held
<1> QED BY <1>1, Invariance, PTL

(* What the guest fetches, and what it is told has been pushed, the upstream  *)
(* has had, and the transaction lock is held by exactly the connection that   *)
(* executes a push (ReceiveGateway, PushExecutor.Execute).                    *)
THEOREM GuestSees == Spec => []GuestSeesUpstream
<1>1. IInv => GuestSeesUpstream
  BY DEF IInv
<1> QED BY <1>1, Invariance, PTL
-----------------------------------------------------------------------------
(* The promise.                                                               *)

Grant(n) == [id |-> n, updates |-> item[n].binding]
Granted == {Grant(n) : n \in {k \in 1 .. nonces : item[k].confirmed}}

(* A step of the promise, or none. *)
Kept == [Promise!Next]_(Promise!vars)

LEMMA GrantOf ==
  ASSUME NEW m, NEW n
  PROVE  /\ Grant(n).updates = item[n].binding
         /\ Grant(m) = Grant(n) => m = n
BY DEF Grant

LEMMA Stays == ASSUME UNCHANGED upstream, Granted' = Granted PROVE Kept
BY DEF Kept, Promise!vars, Granted, Grant

LEMMA Withdraws ==
  ASSUME UNCHANGED upstream, NEW n, Granted' = Granted \ {Grant(n)}
  PROVE  Kept
<1>1. CASE Grant(n) \in Granted
  BY <1>1 DEF Kept, Promise!Next, Promise!Withdraw, Granted, Grant
<1>2. CASE Grant(n) \notin Granted
  BY <1>2, Stays
<1> QED BY <1>1, <1>2

LEMMA Approves ==
  ASSUME UNCHANGED upstream, NEW n, Granted' = Granted \cup {Grant(n)}
  PROVE  Kept
<1>1. CASE Grant(n) \notin Granted
  BY <1>1 DEF Kept, Promise!Next, Promise!Approve, Granted, Grant
<1>2. CASE Grant(n) \in Granted
  BY <1>2, Stays
<1> QED BY <1>1, <1>2

LEMMA SameGranted ==
  ASSUME UNCHANGED nonces,
         \A k \in 1 .. nonces : /\ item'[k].binding = item[k].binding
                                /\ item'[k].confirmed <=> item[k].confirmed
  PROVE  Granted' = Granted
BY DEF Granted, Grant

LEMMA OneGranted ==
  ASSUME UNCHANGED nonces, NEW n \in 1 .. nonces,
         \A k \in 1 .. nonces : item'[k].binding = item[k].binding,
         \A k \in 1 .. nonces : k # n => (item'[k].confirmed <=> item[k].confirmed)
  PROVE  /\ item'[n].confirmed => Granted' = Granted \cup {Grant(n)}
         /\ ~item'[n].confirmed => Granted' = Granted \ {Grant(n)}
<1>1. \A k \in 1 .. nonces : Grant(k)' = Grant(k)
  BY DEF Grant
<1>2. \A g : g \in Granted <=> \E k \in 1 .. nonces : item[k].confirmed /\ g = Grant(k)
  BY DEF Granted
<1>3. \A g : g \in Granted' <=> \E k \in 1 .. nonces : item'[k].confirmed /\ g = Grant(k)
  BY <1>1 DEF Granted
<1>4. \A k \in 1 .. nonces : Grant(k) = Grant(n) => k = n
  BY GrantOf
<1> HIDE DEF Granted, Grant
<1> QED BY <1>2, <1>3, <1>4

\* The record of one nonce changes; which grants are good changes with it.
LEMMA ItemGranted ==
  ASSUME IInv, UNCHANGED nonces, NEW n \in 1 .. nonces, NEW h,
         item' = [item EXCEPT ![n] = h], h.binding = item[n].binding
  PROVE  /\ (h.confirmed <=> item[n].confirmed) => Granted' = Granted
         /\ h.confirmed => Granted' = Granted \cup {Grant(n)}
         /\ ~h.confirmed => Granted' = Granted \ {Grant(n)}
<1>1. item'[n] = h /\ \A k \in 1 .. nonces : k # n => item'[k] = item[k]
  BY DEF IInv, Brokered, ItemShape, Nonces
<1> QED BY <1>1, SameGranted, OneGranted

LEMMA ItemKeeps ==
  ASSUME IInv, UNCHANGED <<item, nonces, upstream>>
  PROVE  Kept
BY SameGranted, Stays

LEMMA HandlerKeeps ==
  ASSUME IInv, NEW p \in Pushers, HandleStep(p) \/ GuestLeaves(p) \/ \E w \in Wishes : Push(p, w)
  PROVE  Kept
<1> DEFINE n == hand[p].nonce
<1>1. CASE UNCHANGED <<item, nonces, upstream>>
  BY <1>1, ItemKeeps
<1>2. CASE LookUp(p)
  <2>1. CASE UNCHANGED item
    BY <1>2, <2>1, ItemKeeps DEF LookUp
  <2>2. ASSUME NEW k \in Nonces, Mine(k, p), item' = [item EXCEPT ![k].usable = FALSE]
        PROVE  Kept
    <3> DEFINE h == [item[k] EXCEPT !.usable = FALSE]
    <3>1. k \in 1 .. nonces
      BY <2>2 DEF Mine, Nonces, IInv, Brokered, ItemShape
    <3>2. DOMAIN item[k] = Fields
      BY <3>1 DEF IInv, Brokered, ItemShape
    <3>3. h.binding = item[k].binding /\ h.confirmed = item[k].confirmed
      BY <3>2 DEF Fields
    <3>4. item' = [item EXCEPT ![k] = h]
      BY <2>2
    <3> HIDE DEF h
    <3> QED BY <1>2, <3>1, <3>3, <3>4, ItemGranted, Stays DEF LookUp
  <2> QED BY <1>2, <2>1, <2>2 DEF LookUp
<1>3. CASE Decide(p)
  <2> DEFINE old == {k \in Nonces : Mine(k, p) /\ item[k].listed}
             less(k) == IF k \in old THEN [item[k] EXCEPT !.listed = FALSE] ELSE item[k]
             new == NewItem(Binding(p), hand[p].sid)
  <2>1. ItemShape /\ nonces \in Nat /\ nonces <= MaxNonces
    BY DEF IInv, Brokered, ItemShape
  <2>2. \A k \in 1 .. nonces : k \in Nonces /\ k # nonces + 1
    BY <2>1 DEF Nonces
  <2>3. ASSUME NEW k \in 1 .. nonces
        PROVE  less(k).binding = item[k].binding /\ less(k).confirmed = item[k].confirmed
    <3>1. DOMAIN item[k] = Fields
      BY <2>1 DEF ItemShape
    <3> QED BY <3>1 DEF Fields
  <2>4. new.confirmed = FALSE
    BY DEF NewItem
  <2> HIDE DEF less, new
  <2>5. CASE UNCHANGED <<item, nonces>>
    BY <1>3, <2>5, ItemKeeps DEF Decide
  <2>6. CASE UNCHANGED nonces /\ item' = [k \in Nonces |-> less(k)]
    <3>1. Granted' = Granted
      BY <2>2, <2>3, <2>6, SameGranted
    <3> QED BY <1>3, <3>1, Stays DEF Decide
  <2>7. CASE /\ nonces < MaxNonces /\ nonces' = nonces + 1
             /\ item' = [k \in Nonces |-> IF k = nonces + 1 THEN new ELSE less(k)]
    <3>1. \A k \in 1 .. nonces' : k \in 1 .. nonces \/ k = nonces + 1
      BY <2>1, <2>7
    <3>2. \A k \in 1 .. nonces : k \in 1 .. nonces'
      BY <2>1, <2>7
    <3>3. \A k \in 1 .. nonces : item'[k] = less(k)
      BY <2>2, <2>7
    <3>4. \A k \in 1 .. nonces' : k = nonces + 1 => ~item'[k].confirmed
      BY <2>1, <2>4, <2>7 DEF Nonces
    <3>5. {k \in 1 .. nonces' : item'[k].confirmed} = {k \in 1 .. nonces : item[k].confirmed}
      BY <2>3, <3>1, <3>2, <3>3, <3>4
    <3>6. \A k \in 1 .. nonces : Grant(k)' = Grant(k)
      BY <2>3, <3>3 DEF Grant
    <3>7. Granted' = Granted
      BY <3>5, <3>6 DEF Granted
    <3> QED BY <1>3, <3>7, Stays DEF Decide
  <2> QED BY <1>3, <2>5, <2>6, <2>7 DEF Decide, less, new
<1>4. CASE Execute(p) \/ Consume(p) \/ StartPush(p)
  <2>1. n \in 1 .. nonces /\ DOMAIN item[n] = Fields /\ n \in Nonces
    <3>1. n \in 1 .. nonces /\ DOMAIN item[n] = Fields
      BY <1>4, HeldNonce DEF Execute, Consume, StartPush, Held
    <3> QED BY <3>1 DEF IInv, Brokered, ItemShape, Nonces
  <2>2. UNCHANGED <<nonces, upstream>>
    BY <1>4 DEF Execute, Consume, StartPush
  <2>3. CASE item' = [item EXCEPT ![n].confirmed = FALSE]
    <3> DEFINE h == [item[n] EXCEPT !.confirmed = FALSE]
    <3>1. h.binding = item[n].binding /\ ~h.confirmed
      BY <2>1 DEF Fields
    <3>2. item' = [item EXCEPT ![n] = h]
      BY <2>3
    <3> HIDE DEF h
    <3> QED BY <2>1, <2>2, <3>1, <3>2, ItemGranted, Withdraws
  <2>4. CASE item' = [item EXCEPT ![n].mgr = "gone", ![n].confirmed = FALSE]
    <3> DEFINE h == [item[n] EXCEPT !.mgr = "gone", !.confirmed = FALSE]
    <3>1. h.binding = item[n].binding /\ ~h.confirmed
      BY <2>1 DEF Fields
    <3>2. item' = [item EXCEPT ![n] = h]
      BY <2>1, <2>4 DEF IInv, Brokered, ItemShape
    <3> HIDE DEF h
    <3> QED BY <2>1, <2>2, <3>1, <3>2, ItemGranted, Withdraws
  <2>5. CASE item' = [item EXCEPT ![n].mgr = "gone"]
    <3> DEFINE h == [item[n] EXCEPT !.mgr = "gone"]
    <3>1. h.binding = item[n].binding /\ h.confirmed = item[n].confirmed
      BY <2>1 DEF Fields
    <3>2. item' = [item EXCEPT ![n] = h]
      BY <2>5
    <3> HIDE DEF h
    <3> QED BY <2>1, <2>2, <3>1, <3>2, ItemGranted, Stays
  <2> QED BY <1>1, <1>4, <2>2, <2>3, <2>4, <2>5 DEF Execute, Consume, StartPush, Unconfirm
<1> QED BY <1>1, <1>2, <1>3, <1>4
        DEF HandleStep, Sync, Hook, PushReturns, Record, Answer, GuestLeaves, Push

\* The upstream takes a push whole, from the values the user was shown.
LEMMA ArrivalKeeps == ASSUME IInv, NEW n \in Nonces, Arrives(n) PROVE Kept
<1>1. n \in 1 .. nonces /\ item[n].confirmed
  BY DEF Arrives, IInv, Brokered, Approved
<1>2. Granted' = Granted \ {Grant(n)}
  <2> DEFINE h == [item[n] EXCEPT !.confirmed = FALSE]
  <2>1. DOMAIN item[n] = Fields
    BY <1>1 DEF IInv, Brokered, ItemShape
  <2>2. h.binding = item[n].binding /\ ~h.confirmed
    BY <2>1 DEF Fields
  <2>3. item' = [item EXCEPT ![n] = h] /\ UNCHANGED nonces
    BY DEF Arrives, Unconfirm
  <2> HIDE DEF h
  <2> QED BY <1>1, <2>2, <2>3, ItemGranted
<1>3. CASE UNCHANGED upstream
  BY <1>2, <1>3, Withdraws
<1>4. CASE /\ \A u \in item[n].binding : upstream[u.ref] = u.old
           /\ upstream' = [r \in Refs |-> IF \E u \in item[n].binding : u.ref = r
                                          THEN (CHOOSE u \in item[n].binding : u.ref = r).new
                                          ELSE upstream[r]]
  <2>1. PICK a \in Granted : a = Grant(n) /\ a.updates = item[n].binding
    BY <1>1, GrantOf DEF Granted
  <2>2. Promise!Push(a)
    BY <1>2, <1>4, <2>1 DEF Promise!Push, Promise!Target, Granted, Grant
  <2>3. Promise!Next
    BY <2>2 DEF Promise!Next, Granted, Grant
  <2> QED BY <2>3 DEF Kept
<1> QED BY <1>3, <1>4 DEF Arrives

LEMMA CommandKeeps ==
  ASSUME IInv, NEW u \in Users,
         \/ \E n \in Nonces : ListPending(u, n)
         \/ Confirm(u) \/ ManagerConfirm(u) \/ Approve(u) \/ Reject(u)
  PROVE  Kept
<1> DEFINE n == user[u].nonce
<1>1. CASE UNCHANGED <<item, nonces, upstream>>
  BY <1>1, ItemKeeps
<1>2. CASE Confirm(u) \/ Reject(u) \/ ManagerConfirm(u)
  <2>1. user[u].pc # "idle"
    BY <1>2 DEF Confirm, Reject, ManagerConfirm
  <2>2. n \in 1 .. nonces /\ n \in Nonces /\ DOMAIN item[n] = Fields
    <3>1. n \in 1 .. nonces
      BY <2>1 DEF IInv, Brokered, UserShape
    <3>2. ItemShape
      BY DEF IInv, Brokered
    <3>3. n \in 1 .. MaxNonces
      BY <3>1, <3>2 DEF ItemShape
    <3> QED BY <3>1, <3>2, <3>3 DEF ItemShape, Nonces
  <2>3. UNCHANGED <<nonces, upstream>>
    BY <1>2 DEF Confirm, Reject, ManagerConfirm
  <2>4. CASE item' = [item EXCEPT ![n].listed = FALSE]
    <3> DEFINE h == [item[n] EXCEPT !.listed = FALSE]
    <3>1. h.binding = item[n].binding /\ h.confirmed = item[n].confirmed
      BY <2>2 DEF Fields
    <3>2. item' = [item EXCEPT ![n] = h]
      BY <2>4
    <3> HIDE DEF h
    <3> QED BY <2>2, <2>3, <3>1, <3>2, ItemGranted, Stays
  <2>5. CASE item' = [item EXCEPT ![n].listed = FALSE, ![n].mgr = "gone"]
    <3> DEFINE h == [item[n] EXCEPT !.listed = FALSE, !.mgr = "gone"]
    <3>1. h.binding = item[n].binding /\ h.confirmed = item[n].confirmed
      BY <2>2 DEF Fields
    <3>2. item' = [item EXCEPT ![n] = h]
      BY <2>2, <2>5 DEF IInv, Brokered, ItemShape
    <3> HIDE DEF h
    <3> QED BY <2>2, <2>3, <3>1, <3>2, ItemGranted, Stays
  <2>6. CASE item' = [item EXCEPT ![n].mgr = "gone"]
    <3> DEFINE h == [item[n] EXCEPT !.mgr = "gone"]
    <3>1. h.binding = item[n].binding /\ h.confirmed = item[n].confirmed
      BY <2>2 DEF Fields
    <3>2. item' = [item EXCEPT ![n] = h]
      BY <2>6
    <3> HIDE DEF h
    <3> QED BY <2>2, <2>3, <3>1, <3>2, ItemGranted, Stays
  <2>7. CASE item' = [item EXCEPT ![n].mgr = "granted", ![n].confirmed = TRUE]
    <3> DEFINE h == [item[n] EXCEPT !.mgr = "granted", !.confirmed = TRUE]
    <3>1. h.binding = item[n].binding /\ h.confirmed
      BY <2>2 DEF Fields
    <3>2. item' = [item EXCEPT ![n] = h]
      BY <2>2, <2>7 DEF IInv, Brokered, ItemShape
    <3> HIDE DEF h
    <3> QED BY <2>2, <2>3, <3>1, <3>2, ItemGranted, Approves
  <2> QED BY <1>1, <1>2, <2>3, <2>4, <2>5, <2>6, <2>7 DEF Confirm, Reject, ManagerConfirm
<1>3. CASE Approve(u)
  <2> DEFINE same == {k \in 1 .. nonces : k # n /\ item[k].usable /\ item[k].sid = item[n].sid
                                          /\ item[k].binding = item[n].binding}
  <2>1. /\ UNCHANGED <<nonces, upstream>> /\ n \in 1 .. nonces
        /\ \A k \in 1 .. nonces :
             /\ item'[k].binding = item[k].binding
             /\ k \notin same => (item'[k].confirmed <=> item[k].confirmed)
             /\ k \in same => ~item'[k].confirmed
    <3>1. UNCHANGED <<nonces, upstream>>
      BY <1>3 DEF Approve
    <3>2. /\ n \in 1 .. nonces
          /\ \A k \in 1 .. nonces :
               /\ item'[k].binding = item[k].binding
               /\ k = n => item'[k].confirmed = item[k].confirmed
               /\ k # n /\ item[k].usable /\ item[k].sid = item[n].sid
                    /\ item[k].binding = item[n].binding => ~item'[k].confirmed
               /\ k # n /\ ~(item[k].usable /\ item[k].sid = item[n].sid
                             /\ item[k].binding = item[n].binding) => item'[k] = item[k]
      BY <1>3, ApprovedOne
    <3> QED BY <3>1, <3>2
  <2>2. CASE same = {}
    BY <2>1, <2>2, SameGranted, Stays
  <2>3. ASSUME NEW m \in same PROVE Kept
    <3>1. \A k \in same : k = m
      BY DEF IInv, Brokered, Single
    <3>2. Granted' = Granted \ {Grant(m)}
      BY <2>1, <3>1, OneGranted
    <3> QED BY <2>1, <3>2, Withdraws
  <2> QED BY <2>2, <2>3
<1> QED BY <1>1, <1>2, <1>3 DEF ListPending

LEMMA ForeignKeeps == ASSUME IInv, NEW r \in Refs, NEW c \in Foreign, ForeignPush(r, c) PROVE Kept
<1>1. Granted' = Granted
  BY SameGranted DEF ForeignPush
<1> QED BY <1>1 DEF Kept, Promise!Next, Promise!ForeignPush, ForeignPush, Granted, Grant

LEMMA InitKeeps == Init => Promise!Init
<1> SUFFICES ASSUME Init PROVE Promise!Init
  OBVIOUS
<1>1. upstream \in [Refs -> Foreign]
  BY DEF Init
<1>2. Granted = {}
  BY DEF Init, Granted
<1> QED BY <1>1, <1>2 DEF Promise!Init, Granted, Grant

LEMMA StepKeeps == IInv /\ [Next]_vars => Kept
<1> SUFFICES ASSUME IInv, [Next]_vars PROVE Kept
  OBVIOUS
<1>1. CASE CloseSession \/ OpenSession \/ Tick \/ UNCHANGED vars
  BY <1>1, ItemKeeps DEF CloseSession, OpenSession, Tick, vars
<1> QED BY <1>1, HandlerKeeps, ArrivalKeeps, CommandKeeps, ForeignKeeps DEF Next

(* Only approved pushes reach the upstream, from the values the user was      *)
(* shown, whole, and once for an approval, for any refs, wishes, connections  *)
(* and commands: the gateway, the broker and the executor implement           *)
(* ApprovedPush.                                                              *)
THEOREM Refinement == Spec => Implements
BY Invariance, InitKeeps, StepKeeps, PTL DEF Spec, Implements, Promise!Spec, Kept
=============================================================================
