------------------------ MODULE SessionControlProofs ------------------------
(***************************************************************************)
(* Proofs about SessionControl for any gateways, guest requests, lifetimes *)
(* and bounds.                                                             *)
(***************************************************************************)
EXTENDS SessionControl, FiniteSetTheorems, TLAPS

-----------------------------------------------------------------------------
(* The inductive invariant.                                                   *)

OpKinds == {"start", "resume", "fail", "pause", "quiesce", "export", "retain", "destroy",
            "abandon", "exec"}

Gate == [live : BOOLEAN, exp : Nat, used : Nat, slots : Nat, admitted : Nat,
         auditFailed : BOOLEAN]
LoopFields == {"pc", "expiry", "idle", "fresh", "at"}
ClockShape ==
  /\ now \in Nat
  /\ ctl \in [state : States, expiresAt : Nat, lastActivity : Nat]
  /\ DOMAIN loop = LoopFields /\ loop.at \in Nat /\ loop.at <= now
OpShape ==
  /\ op \in [kind : OpKinds \cup {"none"}, k : Nat, left : SUBSET Gws, err : BOOLEAN,
             loop : BOOLEAN]
  /\ op.kind \in OpKinds => op.k \in DOMAIN Order[op.kind] /\ op.left # {}
SessShape ==
  sess \in [sid : 0 .. MaxSessions, active : BOOLEAN, serving : SUBSET Gws,
            relay : 0 .. MaxSessions, vm : {"none", "running", "stopped", "removed"},
            leased : BOOLEAN]
LeaseShape ==
  lease \in [Sessions -> [state : {"none", "paused", "active", "revoked"}, exp : Nat]]
GateShape == gate \in [Sessions -> [Gws -> Gate]]
\* A request belongs to a session that has been activated.
ReqShape ==
  /\ req \in [Requests -> [pc : {"none", "entered", "admitted", "audit", "revoke"},
                           gw : Gws \cup {""}, sid : 0 .. MaxSessions]]
  /\ \A r \in Requests : req[r].pc # "none" =>
       req[r].sid \in Sessions /\ req[r].sid <= sess.sid /\ req[r].gw \in Gws

Shape == ClockShape /\ OpShape /\ SessShape /\ LeaseShape /\ GateShape /\ ReqShape

\* Quotas and slots of a gate.
Admitted(s, g) == {r \in Requests : req[r].pc = "admitted" /\ req[r].sid = s /\ req[r].gw = g}
Limits ==
  \A s \in Sessions, g \in Gws :
    /\ gate[s][g].slots = Cardinality(Admitted(s, g))
    /\ gate[s][g].admitted <= gate[s][g].used /\ gate[s][g].used <= MaxRequests

\* The session is at work, or has been left so by the export of a dev session,
Runs == (Free \/ op.kind = "quiesce") /\ Live
\* and then all of it is there.
Serves == sess.active /\ sess.vm = "running" /\ sess.serving = Gws /\ sess.leased
Acquiring == op.kind \in {"start", "resume"}
\* Where the operation is: `attach` done, at `channels`, `channels` done.
AttachDone == \/ (op.kind \in {"pause", "export", "destroy", "abandon"} /\ op.k > 1)
              \/ (op.kind = "fail" /\ op.k > 2)
ChannelsAt == [fail |-> 3, pause |-> 2, export |-> 4, retain |-> 1, destroy |-> 2, abandon |-> 2]
Ending == {"fail", "pause", "export", "retain", "destroy", "abandon"}
AtChannels == op.kind \in Ending /\ op.k = ChannelsAt[op.kind]
ChannelsDone == op.kind \in Ending /\ op.k > ChannelsAt[op.kind]

\* No capability ever issued admits a request.
Closed == \A s \in Sessions, g \in Gws : ~gate[s][g].live
Capabilities ==
  /\ \A s \in Sessions, g \in Gws : gate[s][g].live => s = sess.sid
  /\ \/ ((Free \/ op.kind = "quiesce") /\ ~Live)
     \/ (Acquiring /\ op.k = 1)
     \/ ChannelsDone
     => Closed
  /\ AtChannels => \A s \in Sessions, g \in Gws \ op.left : ~gate[s][g].live

\* Requests enter only while the session runs or starts to end,
Entrance ==
  /\ Acquiring /\ op.k > 1 => sess.sid # 0
  /\ op.kind = "quiesce" => Dev
  /\ sess.active => /\ sess.sid # 0
                    /\ \/ Runs
                       \/ op.kind = "exec"
                       \/ (op.kind \in {"pause", "export", "destroy"} /\ op.k = 1)
\* and what has entered finds the VM running or its gate closed.
Machine ==
  /\ Runs => Serves
  /\ op.kind = "exec" => ctl.state = "running" /\ Serves
  /\ op.kind \in {"pause", "export", "retain", "destroy"} => Closed \/ sess.vm = "running"
  /\ op.kind \in {"start", "resume", "fail", "abandon"} =>
       \A r \in Requests : req[r].pc = "entered" => ~GateOf(r).live
  /\ Acquiring /\ op.k > 2 => sess.leased
  /\ Acquiring /\ op.k > 3 => sess.serving = Gws
  /\ Acquiring /\ op.k > 4 => sess.vm = "running"

\* What an ending operation has taken away stays away.
Released ==
  /\ AttachDone => sess.relay = 0
  /\ AtChannels => sess.serving \subseteq op.left
  /\ ChannelsDone => sess.serving = {}

Spent(s) == lease[s].state \in {"none", "revoked"}
\* Of the sessions before the current one no lease is left,
Leases ==
  /\ \A s \in Sessions : s # sess.sid => Spent(s)
  /\ Acquiring /\ op.k = 1 => \A s \in Sessions : Spent(s)
\* and a pause that goes well leaves nothing of the current one.
Nobody(gws) == \A r \in Requests : req[r].gw \in gws => req[r].pc = "none"
Pausing ==
  /\ op.kind = "pause" =>
       /\ op.k = 1 /\ ~op.err => sess.serving = Gws
       /\ op.k = 2 /\ ~op.err => op.left \subseteq sess.serving
       /\ op.k = 2 /\ ~op.err => Nobody(Gws \ op.left)
       /\ op.k > 2 /\ ~op.err => Nobody(Gws)
       /\ op.k > 3 => \A s \in Sessions : Spent(s)
  /\ (Free /\ ctl.state = "paused") \/ (op.kind = "resume" /\ op.k = 1) =>
       ctl.state = "paused" /\ Nobody(Gws) /\ \A s \in Sessions : Spent(s)

\* However a session ends, nothing of it is left running.
Ended ==
  (Free /\ ctl.state \in {"paused", "exported", "destroyed"}) \/ (op.kind = "resume" /\ op.k = 1) =>
    sess.serving = {} /\ sess.relay = 0 /\ sess.vm # "running"

IInv == Shape /\ Limits /\ Capabilities /\ Entrance /\ Machine /\ Released /\ Leases
        /\ Pausing /\ Ended

Rest == Capabilities /\ Entrance /\ Machine /\ Released /\ Leases /\ Pausing /\ Ended
USE SessionAssumption

-----------------------------------------------------------------------------
(* Where the steps of an operation are in its order.                          *)

LEMMA Orders ==
  /\ Kinds = OpKinds
  /\ \A kind \in OpKinds :
       DOMAIN Order[kind] = CASE kind \in {"start", "resume", "export"} -> 1 .. 6
                              [] kind \in {"fail", "pause", "destroy", "abandon"} -> 1 .. 4
                              [] kind = "retain" -> 1 .. 3
                              [] kind \in {"quiesce", "exec"} -> 1 .. 1
<1>1. Kinds = OpKinds
  BY DEF Order, Kinds, OpKinds
<1> SUFFICES ASSUME NEW kind \in OpKinds
             PROVE  DOMAIN Order[kind] =
                      CASE kind \in {"start", "resume", "export"} -> 1 .. 6
                        [] kind \in {"fail", "pause", "destroy", "abandon"} -> 1 .. 4
                        [] kind = "retain" -> 1 .. 3
                        [] kind \in {"quiesce", "exec"} -> 1 .. 1
  BY <1>1
<1>2. CASE kind \in {"start", "resume"}
  <2>1. Order[kind] = <<"activate", "register", "listen", "boot", "relay", "enable">>
    BY <1>2 DEF Order
  <2> QED BY <1>2, <2>1
<1>3. CASE kind = "export"
  BY <1>3 DEF Order
<1>4. CASE kind \in {"fail", "pause", "destroy", "abandon"}
  BY <1>4 DEF Order
<1>5. CASE kind = "retain"
  BY <1>5 DEF Order
<1>6. CASE kind \in {"quiesce", "exec"}
  BY <1>6 DEF Order
<1> QED BY <1>2, <1>3, <1>4, <1>5, <1>6 DEF OpKinds

Where ==
  /\ Step = "activate" => op.kind \in {"start", "resume"} /\ op.k = 1
  /\ Step = "register" => op.kind \in {"start", "resume"} /\ op.k = 2
  /\ Step = "listen" => op.kind \in {"start", "resume"} /\ op.k = 3
  /\ Step = "boot" => op.kind \in {"start", "resume"} /\ op.k = 4
  /\ Step = "relay" => op.kind \in {"start", "resume"} /\ op.k = 5
  /\ Step = "enable" => op.kind \in {"start", "resume"} /\ op.k = 6
  /\ Step = "attach" => \/ (op.kind = "fail" /\ op.k = 2)
                        \/ (op.kind \in {"pause", "export", "destroy", "abandon"} /\ op.k = 1)
  /\ Step = "channels" => \/ (op.kind = "retain" /\ op.k = 1)
                          \/ (op.kind = "fail" /\ op.k = 3)
                          \/ (op.kind = "export" /\ op.k = 4)
                          \/ (op.kind \in {"pause", "destroy", "abandon"} /\ op.k = 2)
  /\ Step = "lease" => \/ (op.kind = "fail" /\ op.k = 1)
                       \/ (op.kind \in {"retain", "export"} /\ op.k = 2)
                       \/ (op.kind \in {"pause", "destroy", "abandon"} /\ op.k = 3)
  /\ Step = "thaw" => op.kind = "export" /\ op.k = 3
  /\ Step = "stop" => \/ (op.kind \in {"fail", "pause"} /\ op.k = 4)
                      \/ (op.kind = "export" /\ op.k = 5)
                      \/ (op.kind = "retain" /\ op.k = 3)
  /\ Step = "remove" => \/ (op.kind \in {"destroy", "abandon"} /\ op.k = 4)
                        \/ (op.kind = "export" /\ op.k = 6)
  /\ Step = "egress" => op.kind = "quiesce"
  /\ Step = "guest" => op.kind = "exec"

LEMMA StepWhere == ASSUME OpShape PROVE Where
<1>1. CASE op.kind = "none"
  BY <1>1 DEF Step, Free, Where
<1>2. ASSUME op.kind \in OpKinds PROVE op.kind # "none" /\ op.k \in DOMAIN Order[op.kind]
  BY <1>2 DEF OpShape, OpKinds
<1>3. CASE op.kind \in {"start", "resume"}
  <2>1. Order[op.kind] = <<"activate", "register", "listen", "boot", "relay", "enable">>
    BY <1>3 DEF Order
  <2>2. op.k \in 1 .. 6 /\ Step = Order[op.kind][op.k]
    BY <1>2, <1>3, Orders DEF Step, Free, OpKinds
  <2> QED BY <1>3, <2>1, <2>2 DEF Where
<1>4. CASE op.kind = "export"
  <2>1. Order[op.kind] = <<"attach", "lease", "thaw", "channels", "stop", "remove">>
    BY <1>4 DEF Order
  <2>2. op.k \in 1 .. 6 /\ Step = Order[op.kind][op.k]
    BY <1>2, <1>4, Orders DEF Step, Free, OpKinds
  <2> QED BY <1>4, <2>1, <2>2 DEF Where
<1>5. CASE op.kind = "fail"
  <2>1. Order[op.kind] = <<"lease", "attach", "channels", "stop">>
    BY <1>5 DEF Order
  <2>2. op.k \in 1 .. 4 /\ Step = Order[op.kind][op.k]
    BY <1>2, <1>5, Orders DEF Step, Free, OpKinds
  <2> QED BY <1>5, <2>1, <2>2 DEF Where
<1>6. CASE op.kind = "pause"
  <2>1. Order[op.kind] = <<"attach", "channels", "lease", "stop">>
    BY <1>6 DEF Order
  <2>2. op.k \in 1 .. 4 /\ Step = Order[op.kind][op.k]
    BY <1>2, <1>6, Orders DEF Step, Free, OpKinds
  <2> QED BY <1>6, <2>1, <2>2 DEF Where
<1>7. CASE op.kind \in {"destroy", "abandon"}
  <2>1. Order[op.kind] = <<"attach", "channels", "lease", "remove">>
    BY <1>7 DEF Order
  <2>2. op.k \in 1 .. 4 /\ Step = Order[op.kind][op.k]
    BY <1>2, <1>7, Orders DEF Step, Free, OpKinds
  <2> QED BY <1>7, <2>1, <2>2 DEF Where
<1>8. CASE op.kind = "retain"
  <2>1. Order[op.kind] = <<"channels", "lease", "stop">>
    BY <1>8 DEF Order
  <2>2. op.k \in 1 .. 3 /\ Step = Order[op.kind][op.k]
    BY <1>2, <1>8, Orders DEF Step, Free, OpKinds
  <2> QED BY <1>8, <2>1, <2>2 DEF Where
<1>9. CASE op.kind = "exec"
  <2>1. Order[op.kind] = <<"guest">>
    BY <1>9 DEF Order
  <2>2. op.k \in 1 .. 1 /\ Step = Order[op.kind][op.k]
    BY <1>2, <1>9, Orders DEF Step, Free, OpKinds
  <2> QED BY <1>9, <2>1, <2>2 DEF Where
<1>10. CASE op.kind = "quiesce"
  <2>1. Order[op.kind] = <<"egress">>
    BY <1>10 DEF Order
  <2>2. op.k \in 1 .. 1 /\ Step = Order[op.kind][op.k]
    BY <1>2, <1>10, Orders DEF Step, Free, OpKinds
  <2> QED BY <1>10, <2>1, <2>2 DEF Where
<1> QED BY <1>1, <1>3, <1>4, <1>5, <1>6, <1>7, <1>8, <1>9, <1>10 DEF OpShape, OpKinds

LEMMA Opened == Gws # {} /\ \A left \in SUBSET Gws : left # {} => NextOf(left) \in left
BY DEF NextOf

(* The operation goes on, does something else instead, begins or is over.     *)
OpRecord == [kind : OpKinds \cup {"none"}, k : Nat, left : SUBSET Gws, err : BOOLEAN,
             loop : BOOLEAN]

LEMMA Continues ==
  ASSUME OpShape, op.kind \in OpKinds, op.k + 1 \in DOMAIN Order[op.kind], Continue
  PROVE  /\ OpShape' /\ op'.kind = op.kind /\ op'.k = op.k + 1 /\ op'.left = Gws
         /\ op'.err = op.err
<1>1. op \in OpRecord
  BY DEF OpShape, OpRecord
<1>2. /\ op'.kind = op.kind /\ op'.k = op.k + 1 /\ op'.left = Gws
      /\ op'.err = op.err /\ op'.loop = op.loop
      /\ op' = [kind |-> op'.kind, k |-> op'.k, left |-> op'.left, err |-> op'.err,
                loop |-> op'.loop]
  BY <1>1 DEF Continue, OpRecord
<1>3. op' \in OpRecord
  BY <1>1, <1>2 DEF OpRecord
<1> QED BY <1>2, <1>3, Opened DEF OpShape, OpRecord

LEMMA ContinuesWith ==
  ASSUME OpShape, op.kind \in OpKinds, op.k + 1 \in DOMAIN Order[op.kind], NEW e \in BOOLEAN,
         ContinueWith(e)
  PROVE  /\ OpShape' /\ op'.kind = op.kind /\ op'.k = op.k + 1 /\ op'.left = Gws
         /\ ~op'.err => ~op.err /\ ~e
<1>1. op \in OpRecord
  BY DEF OpShape, OpRecord
<1> DEFINE b == op.err \/ e
<1>2. b \in BOOLEAN /\ (~b => ~op.err /\ ~e)
  OBVIOUS
<1>3. op' = [op EXCEPT !.k = op.k + 1, !.left = Gws, !.err = b]
  BY DEF ContinueWith
<1> HIDE DEF b
<1>4. /\ op'.kind = op.kind /\ op'.k = op.k + 1 /\ op'.left = Gws
      /\ op'.err = b /\ op'.loop = op.loop
      /\ op' = [kind |-> op'.kind, k |-> op'.k, left |-> op'.left, err |-> op'.err,
                loop |-> op'.loop]
  BY <1>1, <1>3 DEF OpRecord
<1>5. op' \in OpRecord
  BY <1>1, <1>2, <1>4 DEF OpRecord
<1> QED BY <1>2, <1>4, <1>5, Opened DEF OpShape, OpRecord

Instead == [start |-> "abandon", resume |-> "fail", export |-> "retain"]
LEMMA Fails ==
  ASSUME OpShape, op.kind \in {"start", "resume", "export"}, Fail
  PROVE  OpShape' /\ op'.k = 1 /\ op'.left = Gws /\ op'.kind = Instead[op.kind]
<1>1. op \in OpRecord
  BY DEF OpShape, OpRecord
<1>2. op' = [op EXCEPT !.kind = Instead[op.kind], !.k = 1, !.left = Gws, !.err = TRUE]
  <2>1. CASE op.kind = "start"
    BY <2>1 DEF Fail, Instead
  <2>2. CASE op.kind = "resume"
    BY <2>2 DEF Fail, Instead
  <2>3. CASE op.kind = "export"
    BY <2>3 DEF Fail, Instead
  <2> QED BY <2>1, <2>2, <2>3
<1>3. Instead[op.kind] \in OpKinds
  BY DEF Instead, OpKinds
<1>4. op' \in OpRecord /\ op'.k = 1 /\ op'.left = Gws /\ op'.kind = Instead[op.kind]
  BY <1>1, <1>2, <1>3 DEF OpRecord
<1>5. 1 \in DOMAIN Order[Instead[op.kind]]
  BY <1>3, Orders DEF OpKinds
<1> QED BY <1>4, <1>5, Opened DEF OpShape, OpRecord

LEMMA Begins ==
  ASSUME NEW kind \in OpKinds, NEW b \in BOOLEAN, op' = Begin(kind, b)
  PROVE  /\ OpShape' /\ op'.kind = kind /\ op'.k = 1 /\ op'.left = Gws /\ ~op'.err
         /\ op'.loop = b
<1>1. 1 \in DOMAIN Order[kind]
  BY Orders DEF OpKinds
<1> QED BY <1>1, Opened DEF Begin, OpShape, OpKinds

LEMMA Over == ASSUME op' = NoOp PROVE OpShape' /\ op'.kind = "none"
BY DEF NoOp, OpShape, OpKinds

LEMMA Finishes ==
  ASSUME ClockShape, NEW state \in States, Finish(state), UNCHANGED now
  PROVE  ClockShape' /\ OpShape' /\ op'.kind = "none" /\ ctl'.state = state
<1>1. OpShape' /\ op'.kind = "none"
  BY Over DEF Finish
<1>2. ctl' \in [state : States, expiresAt : Nat, lastActivity : Nat] /\ ctl'.state = state
  BY DEF Finish, ClockShape
<1>3. DOMAIN loop' = LoopFields /\ loop'.at = loop.at
  BY DEF Finish, ClockShape, LoopFields
<1> QED BY <1>1, <1>2, <1>3 DEF ClockShape
-----------------------------------------------------------------------------
(* Steps of the guest's requests.                                             *)

\* A request that goes on belongs to the session and gateway it came through.
ReqsGoOn ==
  /\ ReqShape'
  /\ \A r \in Requests :
       /\ req'[r].pc # "none" => req[r].pc # "none" /\ req'[r].sid = req[r].sid
                                 /\ req'[r].gw = req[r].gw
       /\ req'[r].pc = "entered" => req[r].pc = "entered"
       /\ req[r].pc = "none" => req'[r] = req[r]
       /\ req'[r].gw \in Gws => req'[r].gw = req[r].gw
Shuts == GateShape' /\ \A s \in Sessions, g \in Gws : gate'[s][g].live => gate[s][g].live

LEMMA ReqKeepsRest ==
  ASSUME Shape, Rest, Shuts, ReqsGoOn, UNCHANGED <<ctl, op, sess, lease>>
  PROVE  Rest'
<1>1. Closed => Closed'
  BY DEF Closed, Shuts
<1>2. Capabilities'
  BY <1>1 DEF Rest, Capabilities, Shuts, Free, Acquiring, ChannelsDone, AtChannels, Live,
              Unaudited
<1>3. Entrance' /\ Released' /\ Leases' /\ Ended'
  BY DEF Rest, Entrance, Released, Leases, Ended, Runs, Free, AttachDone, AtChannels,
         ChannelsDone, Spent, Acquiring, Live, Unaudited
<1>4. Machine'
  <2>1. \A r \in Requests : req'[r].pc = "entered" /\ GateOf(r)'.live =>
          req[r].pc = "entered" /\ GateOf(r).live
    BY DEF ReqsGoOn, Shuts, GateOf, Shape, ReqShape
  <2> QED BY <1>1, <2>1 DEF Rest, Machine, Runs, Free, Acquiring, Serves, Live, Unaudited
<1>5. Pausing'
  <2>1. \A gws \in SUBSET Gws : Nobody(gws) => Nobody(gws)'
    BY DEF Nobody, ReqsGoOn
  <2>2. Gws \in SUBSET Gws /\ Gws \ op.left \in SUBSET Gws
    OBVIOUS
  <2> QED BY <2>1, <2>2 DEF Rest, Pausing, Free, Spent
<1> QED BY <1>2, <1>3, <1>4, <1>5 DEF Rest

LEMMA SetsGate ==
  ASSUME Shape, NEW r \in Requests, req[r].pc # "none", NEW G \in Gate, SetGate(r, G)
  PROVE  /\ GateShape' /\ gate'[req[r].sid][req[r].gw] = G
         /\ \A s \in Sessions, g \in Gws :
              s # req[r].sid \/ g # req[r].gw => gate'[s][g] = gate[s][g]
<1>1. req[r].sid \in Sessions /\ req[r].gw \in Gws /\ gate \in [Sessions -> [Gws -> Gate]]
  BY DEF Shape, ReqShape, GateShape
<1> QED BY <1>1 DEF SetGate, GateShape

LEMMA GateIs ==
  ASSUME Shape, NEW r \in Requests, req[r].pc # "none"
  PROVE  /\ req[r].sid \in Sessions /\ req[r].gw \in Gws /\ GateOf(r) \in Gate
         /\ GateOf(r) = gate[req[r].sid][req[r].gw]
<1>1. req[r].sid \in Sessions /\ req[r].gw \in Gws
  BY DEF Shape, ReqShape
<1>2. gate[req[r].sid][req[r].gw] \in Gate
  BY <1>1 DEF Shape, GateShape
<1> QED BY <1>1, <1>2 DEF GateOf

LEMMA ReqMoves ==
  ASSUME ReqShape, NEW r \in Requests, req[r].pc # "none",
         NEW pc \in {"admitted", "audit", "revoke"}, req' = [req EXCEPT ![r].pc = pc],
         UNCHANGED sess
  PROVE  /\ ReqsGoOn /\ req'[r].pc = pc /\ req'[r].sid = req[r].sid /\ req'[r].gw = req[r].gw
         /\ \A q \in Requests : q # r => req'[q] = req[q]
<1>1. req \in [Requests -> [pc : {"none", "entered", "admitted", "audit", "revoke"},
                            gw : Gws \cup {""}, sid : 0 .. MaxSessions]]
  BY DEF ReqShape
<1>2. /\ req'[r].pc = pc /\ req'[r].sid = req[r].sid /\ req'[r].gw = req[r].gw
      /\ \A q \in Requests : q # r => req'[q] = req[q]
  BY <1>1
<1>3. req' \in [Requests -> [pc : {"none", "entered", "admitted", "audit", "revoke"},
                             gw : Gws \cup {""}, sid : 0 .. MaxSessions]]
  BY <1>1
<1> QED BY <1>2, <1>3 DEF ReqsGoOn, ReqShape

LEMMA ReqEnds ==
  ASSUME ReqShape, NEW r \in Requests, req[r].pc # "none",
         req' = [req EXCEPT ![r] = NoRequest], UNCHANGED sess
  PROVE  /\ ReqsGoOn /\ req'[r].pc = "none"
         /\ \A q \in Requests : q # r => req'[q] = req[q]
<1>1. req \in [Requests -> [pc : {"none", "entered", "admitted", "audit", "revoke"},
                            gw : Gws \cup {""}, sid : 0 .. MaxSessions]]
  BY DEF ReqShape
<1>2. req'[r] = NoRequest /\ \A q \in Requests : q # r => req'[q] = req[q]
  BY <1>1
<1>3. /\ NoRequest \in [pc : {"none", "entered", "admitted", "audit", "revoke"},
                         gw : Gws \cup {""}, sid : 0 .. MaxSessions]
      /\ NoRequest.pc = "none" /\ NoRequest.gw \notin Gws
  <2>1. 0 \in 0 .. MaxSessions
    OBVIOUS
  <2>2. "" \notin Gws
    OBVIOUS
  <2> QED BY <2>1, <2>2 DEF NoRequest
<1> HIDE DEF NoRequest
<1>4. req' \in [Requests -> [pc : {"none", "entered", "admitted", "audit", "revoke"},
                             gw : Gws \cup {""}, sid : 0 .. MaxSessions]]
  BY <1>1, <1>3
<1>5. ReqShape'
  BY <1>2, <1>3, <1>4 DEF ReqShape
<1> QED BY <1>2, <1>3, <1>5 DEF ReqsGoOn

LEMMA FiniteAdmitted ==
  ASSUME NEW s, NEW g
  PROVE  IsFiniteSet(Admitted(s, g)) /\ Cardinality(Admitted(s, g)) \in Nat
BY FS_Subset, FS_CardinalityType DEF Admitted

\* The slots of the other gates stay those of their requests.
LEMMA OtherLimits ==
  ASSUME Shape, Limits, NEW r \in Requests, req[r].pc # "none",
         \A q \in Requests : q # r => req'[q] = req[q],
         req'[r].pc = "admitted" => req'[r].sid = req[r].sid /\ req'[r].gw = req[r].gw,
         NEW s \in Sessions, NEW g \in Gws, s # req[r].sid \/ g # req[r].gw,
         gate'[s][g] = gate[s][g]
  PROVE  /\ gate'[s][g].slots = Cardinality(Admitted(s, g)')
         /\ gate'[s][g].admitted <= gate'[s][g].used /\ gate'[s][g].used <= MaxRequests
<1>1. Admitted(s, g)' = Admitted(s, g)
  BY DEF Admitted
<1> QED BY <1>1 DEF Limits

LEMMA ReqLimits ==
  ASSUME Shape, Limits, NEW r \in Requests, req[r].pc # "none",
         \A q \in Requests : q # r => req'[q] = req[q],
         req'[r].pc = "admitted" => req'[r].sid = req[r].sid /\ req'[r].gw = req[r].gw,
         \A s \in Sessions, g \in Gws :
           s # req[r].sid \/ g # req[r].gw => gate'[s][g] = gate[s][g],
         NEW G, gate'[req[r].sid][req[r].gw] = G,
         G.admitted <= G.used, G.used <= MaxRequests,
         \/ /\ req[r].pc # "admitted" /\ req'[r].pc # "admitted" /\ G.slots = GateOf(r).slots
         \/ /\ req[r].pc # "admitted" /\ req'[r].pc = "admitted"
            /\ G.slots = GateOf(r).slots + 1
         \/ /\ req[r].pc = "admitted" /\ req'[r].pc # "admitted"
            /\ G.slots = GateOf(r).slots - 1
  PROVE  Limits'
<1> DEFINE t == req[r].sid
           h == req[r].gw
           A == Admitted(t, h)
<1>1. t \in Sessions /\ h \in Gws /\ GateOf(r) = gate[t][h] /\ GateOf(r).slots = Cardinality(A)
  <2>1. t \in Sessions /\ h \in Gws /\ GateOf(r) = gate[t][h]
    BY GateIs
  <2>2. gate[t][h].slots = Cardinality(Admitted(t, h))
    BY <2>1 DEF Limits
  <2> QED BY <2>1, <2>2
<1>2. IsFiniteSet(A) /\ Cardinality(A) \in Nat
  BY FiniteAdmitted
<1>3. PICK B : B = {q \in Requests : req'[q].pc = "admitted" /\ req'[q].sid = t
                                      /\ req'[q].gw = h}
  OBVIOUS
<1>4. G.slots = Cardinality(B)
  <2>1. CASE req[r].pc # "admitted" /\ req'[r].pc # "admitted"
    <3>1. B = A
      BY <1>3, <2>1 DEF Admitted
    <3> QED BY <1>1, <2>1, <3>1
  <2>2. CASE req[r].pc # "admitted" /\ req'[r].pc = "admitted"
    <3>1. B = A \cup {r} /\ r \notin A
      BY <1>3, <2>2 DEF Admitted
    <3>2. Cardinality(B) = Cardinality(A) + 1
      BY <1>2, <3>1, FS_AddElement
    <3> QED BY <1>1, <2>2, <3>2
  <2>3. CASE req[r].pc = "admitted" /\ req'[r].pc # "admitted"
    <3>1. B = A \ {r} /\ r \in A
      BY <1>3, <2>3 DEF Admitted
    <3>2. Cardinality(B) = Cardinality(A) - 1
      BY <1>2, <3>1, FS_RemoveElement
    <3> QED BY <1>1, <2>3, <3>2
  <2> QED BY <2>1, <2>2, <2>3
<1>5. ASSUME NEW s \in Sessions, NEW g \in Gws
      PROVE  /\ gate'[s][g].slots = Cardinality(Admitted(s, g)')
             /\ gate'[s][g].admitted <= gate'[s][g].used /\ gate'[s][g].used <= MaxRequests
  <2>1. CASE s = t /\ g = h
    <3>1. Admitted(s, g)' = B
      BY <1>3, <2>1 DEF Admitted
    <3> QED BY <1>4, <2>1, <3>1
  <2>2. CASE s # t \/ g # h
    BY <2>2, OtherLimits
  <2> QED BY <2>1, <2>2
<1> QED BY <1>5 DEF Limits

LEMMA ReqStep ==
  ASSUME IInv, Shuts, ReqsGoOn, Limits', UNCHANGED <<now, ctl, loop, op, sess, lease>>
  PROVE  IInv'
<1>1. Rest'
  BY ReqKeepsRest DEF IInv, Rest
<1>2. Shape'
  BY DEF IInv, Shape, ClockShape, OpShape, SessShape, LeaseShape, Shuts, ReqsGoOn
<1> QED BY <1>1, <1>2 DEF IInv, Rest

\* A gate that changes does not open again.
LEMMA GateStep ==
  ASSUME IInv, NEW r \in Requests, req[r].pc # "none", NEW G \in Gate, SetGate(r, G),
         G.live => GateOf(r).live, ReqsGoOn,
         \A q \in Requests : q # r => req'[q] = req[q],
         G.admitted <= G.used, G.used <= MaxRequests,
         \/ /\ req[r].pc # "admitted" /\ req'[r].pc # "admitted" /\ G.slots = GateOf(r).slots
         \/ /\ req[r].pc # "admitted" /\ req'[r].pc = "admitted"
            /\ G.slots = GateOf(r).slots + 1
         \/ /\ req[r].pc = "admitted" /\ req'[r].pc # "admitted"
            /\ G.slots = GateOf(r).slots - 1,
         UNCHANGED <<now, ctl, loop, op, sess, lease>>
  PROVE  IInv'
<1>1. /\ GateShape' /\ gate'[req[r].sid][req[r].gw] = G
      /\ \A s \in Sessions, g \in Gws :
           s # req[r].sid \/ g # req[r].gw => gate'[s][g] = gate[s][g]
  BY SetsGate DEF IInv
<1>2. Shuts
  BY <1>1, GateIs DEF Shuts, IInv
<1>3. req'[r].pc = "admitted" => req'[r].sid = req[r].sid /\ req'[r].gw = req[r].gw
  BY DEF ReqsGoOn
<1>4. Limits'
  BY <1>1, <1>3, ReqLimits DEF IInv
<1> QED BY <1>2, <1>4, ReqStep

LEMMA GateLimits ==
  ASSUME IInv, NEW r \in Requests, req[r].pc # "none"
  PROVE  /\ GateOf(r) \in Gate /\ GateOf(r).admitted <= GateOf(r).used
         /\ GateOf(r).used <= MaxRequests
         /\ req[r].pc = "admitted" => GateOf(r).slots - 1 \in Nat
<1>1. /\ req[r].sid \in Sessions /\ req[r].gw \in Gws /\ GateOf(r) \in Gate
      /\ GateOf(r) = gate[req[r].sid][req[r].gw]
  BY GateIs DEF IInv
<1>2. /\ GateOf(r).admitted <= GateOf(r).used /\ GateOf(r).used <= MaxRequests
      /\ GateOf(r).slots = Cardinality(Admitted(req[r].sid, req[r].gw))
  BY <1>1 DEF IInv, Limits
<1>3. req[r].pc = "admitted" => Cardinality(Admitted(req[r].sid, req[r].gw)) # 0
  <2>1. req[r].pc = "admitted" => r \in Admitted(req[r].sid, req[r].gw)
    BY DEF Admitted
  <2> QED BY <2>1, FiniteAdmitted, FS_EmptySet
<1> QED BY <1>1, <1>2, <1>3, FiniteAdmitted DEF Gate

LEMMA Takes ==
  ASSUME NEW G \in Gate, G.used < MaxRequests, G.admitted <= G.used, NEW K,
         K = [G EXCEPT !.used = G.used + 1, !.slots = G.slots + 1, !.admitted = G.admitted + 1]
  PROVE  /\ K \in Gate /\ K.live = G.live /\ K.slots = G.slots + 1
         /\ K.admitted <= K.used /\ K.used <= MaxRequests
<1>1. /\ G.live \in BOOLEAN /\ G.auditFailed \in BOOLEAN /\ G.exp \in Nat
      /\ G.used \in Nat /\ G.slots \in Nat /\ G.admitted \in Nat
  BY DEF Gate
<1>2. K = [live |-> G.live, exp |-> G.exp, used |-> G.used + 1, slots |-> G.slots + 1,
           admitted |-> G.admitted + 1, auditFailed |-> G.auditFailed]
  BY DEF Gate
<1>3. G.used + 1 \in Nat /\ G.slots + 1 \in Nat /\ G.admitted + 1 \in Nat
  BY <1>1
<1>4. K \in Gate
  BY <1>1, <1>2, <1>3 DEF Gate
<1>5. G.admitted + 1 <= G.used + 1 /\ G.used + 1 <= MaxRequests
  BY <1>1
<1>6. /\ K.live = G.live /\ K.slots = G.slots + 1 /\ K.admitted = G.admitted + 1
      /\ K.used = G.used + 1
  BY <1>2
<1> QED BY <1>4, <1>5, <1>6

LEMMA AdmitStep == ASSUME IInv, NEW r \in Requests, Admit(r) PROVE IInv'
<1> DEFINE G == GateOf(r)
           H == [G EXCEPT !.used = IF G.used < MaxRequests THEN G.used + 1 ELSE G.used]
           K == [G EXCEPT !.used = G.used + 1, !.slots = G.slots + 1, !.admitted = G.admitted + 1]
<1>1. /\ req[r].pc = "entered" /\ ReqShape /\ G \in Gate
      /\ G.admitted <= G.used /\ G.used <= MaxRequests
      /\ UNCHANGED <<now, ctl, loop, op, sess, lease>>
  BY GateLimits DEF Admit, IInv, Shape
<1>2. CASE UNCHANGED gate /\ req' = [req EXCEPT ![r].pc = "audit"]
  <2>1. /\ ReqsGoOn /\ req'[r].pc = "audit" /\ \A q \in Requests : q # r => req'[q] = req[q]
    BY <1>1, <1>2, ReqMoves
  <2>2. Shuts
    BY <1>2 DEF Shuts, IInv, Shape, GateShape
  <2>3. \A s, g : Admitted(s, g)' = Admitted(s, g)
    BY <1>1, <2>1 DEF Admitted
  <2>4. Limits'
    BY <1>2, <2>3 DEF Limits, IInv
  <2> QED BY <1>1, <2>1, <2>2, <2>4, ReqStep
<1>3. CASE SetGate(r, H) /\ req' = [req EXCEPT ![r].pc = "audit"]
  <2>1. /\ ReqsGoOn /\ req'[r].pc = "audit" /\ \A q \in Requests : q # r => req'[q] = req[q]
    BY <1>1, <1>3, ReqMoves
  <2>2. /\ H \in Gate /\ H.live = G.live /\ H.slots = G.slots
        /\ H.admitted <= H.used /\ H.used <= MaxRequests
    BY <1>1 DEF Gate
  <2> HIDE DEF H
  <2> QED BY <1>1, <1>3, <2>1, <2>2, GateStep
<1>4. CASE /\ G.used < MaxRequests /\ SetGate(r, K)
           /\ req' = [req EXCEPT ![r].pc = "admitted"]
  <2>1. /\ ReqsGoOn /\ req'[r].pc = "admitted" /\ \A q \in Requests : q # r => req'[q] = req[q]
    BY <1>1, <1>4, ReqMoves
  <2>2. /\ K \in Gate /\ K.live = G.live /\ K.slots = G.slots + 1
        /\ K.admitted <= K.used /\ K.used <= MaxRequests
    BY <1>1, <1>4, Takes
  <2> HIDE DEF K
  <2> QED BY <1>1, <1>4, <2>1, <2>2, GateStep
<1>5. ~(G.used >= MaxRequests) => G.used < MaxRequests
  BY <1>1 DEF Gate
<1> QED BY <1>2, <1>3, <1>4, <1>5 DEF Admit

LEMMA RespondStep == ASSUME IInv, NEW r \in Requests, Respond(r) PROVE IInv'
<1> DEFINE G == GateOf(r)
           H == [G EXCEPT !.slots = G.slots - 1]
<1>1. /\ req[r].pc = "admitted" /\ ReqShape /\ G \in Gate /\ G.slots - 1 \in Nat
      /\ G.admitted <= G.used /\ G.used <= MaxRequests
      /\ UNCHANGED <<now, ctl, loop, op, sess, lease>>
      /\ SetGate(r, H) /\ req' = [req EXCEPT ![r].pc = "audit"]
  BY GateLimits DEF Respond, IInv, Shape
<1>2. /\ ReqsGoOn /\ req'[r].pc = "audit" /\ \A q \in Requests : q # r => req'[q] = req[q]
  BY <1>1, ReqMoves
<1>3. /\ H \in Gate /\ H.live = G.live /\ H.slots = G.slots - 1
      /\ H.admitted <= H.used /\ H.used <= MaxRequests
  BY <1>1 DEF Gate
<1> HIDE DEF H
<1> QED BY <1>1, <1>2, <1>3, GateStep

LEMMA AuditStep ==
  ASSUME IInv, NEW r \in Requests, Audit(r) \/ RevokeOnAuditFailure(r) PROVE IInv'
<1> DEFINE G == GateOf(r)
           H == [G EXCEPT !.auditFailed = TRUE]
           K == [G EXCEPT !.live = FALSE]
<1>1. /\ req[r].pc \in {"audit", "revoke"} /\ ReqShape /\ G \in Gate
      /\ G.admitted <= G.used /\ G.used <= MaxRequests
      /\ UNCHANGED <<now, ctl, loop, op, sess, lease>>
  BY GateLimits DEF Audit, RevokeOnAuditFailure, IInv, Shape
<1>2. CASE UNCHANGED gate /\ req' = [req EXCEPT ![r] = NoRequest]
  <2>1. /\ ReqsGoOn /\ req'[r].pc = "none" /\ \A q \in Requests : q # r => req'[q] = req[q]
    BY <1>1, <1>2, ReqEnds
  <2>2. Shuts
    BY <1>2 DEF Shuts, IInv, Shape, GateShape
  <2>3. \A s, g : Admitted(s, g)' = Admitted(s, g)
    BY <1>1, <2>1 DEF Admitted
  <2>4. Limits'
    BY <1>2, <2>3 DEF Limits, IInv
  <2> QED BY <1>1, <2>1, <2>2, <2>4, ReqStep
<1>3. CASE SetGate(r, H) /\ req' = [req EXCEPT ![r].pc = "revoke"]
  <2>1. /\ ReqsGoOn /\ req'[r].pc = "revoke" /\ \A q \in Requests : q # r => req'[q] = req[q]
    BY <1>1, <1>3, ReqMoves
  <2>2. /\ H \in Gate /\ H.live = G.live /\ H.slots = G.slots
        /\ H.admitted <= H.used /\ H.used <= MaxRequests
    BY <1>1 DEF Gate
  <2> HIDE DEF H
  <2> QED BY <1>1, <1>3, <2>1, <2>2, GateStep
<1>4. CASE SetGate(r, K) /\ req' = [req EXCEPT ![r] = NoRequest]
  <2>1. /\ ReqsGoOn /\ req'[r].pc = "none" /\ \A q \in Requests : q # r => req'[q] = req[q]
    BY <1>1, <1>4, ReqEnds
  <2>2. /\ K \in Gate /\ ~K.live /\ K.slots = G.slots
        /\ K.admitted <= K.used /\ K.used <= MaxRequests
    BY <1>1 DEF Gate
  <2> HIDE DEF K
  <2> QED BY <1>1, <1>4, <2>1, <2>2, GateStep
<1> QED BY <1>2, <1>3, <1>4 DEF Audit, RevokeOnAuditFailure

LEMMA ArriveStep == ASSUME IInv, NEW r \in Requests, NEW g \in Gws, Arrive(r, g) PROVE IInv'
<1>1. /\ req[r].pc = "none" /\ sess.active /\ lease[sess.sid].state = "active"
      /\ sess.vm = "running"
      /\ UNCHANGED <<now, ctl, loop, op, sess, lease, gate>>
  BY DEF Arrive, OpenGateway
<1>2. /\ sess.sid \in Sessions
      /\ Runs \/ op.kind = "exec" \/ (op.kind \in {"pause", "export", "destroy"} /\ op.k = 1)
  BY <1>1 DEF IInv, Shape, SessShape, Entrance, Sessions
<1>3. /\ ReqShape' /\ req'[r].pc = "entered" /\ \A q \in Requests : q # r => req'[q] = req[q]
  <2>1. req \in [Requests -> [pc : {"none", "entered", "admitted", "audit", "revoke"},
                              gw : Gws \cup {""}, sid : 0 .. MaxSessions]]
    BY DEF IInv, Shape, ReqShape
  <2>2. sess.sid \in 0 .. MaxSessions /\ sess.sid <= sess.sid
    BY DEF IInv, Shape, SessShape
  <2>3. req' = [req EXCEPT ![r] = [pc |-> "entered", gw |-> g, sid |-> sess.sid]]
    BY DEF Arrive
  <2>4. /\ req'[r] = [pc |-> "entered", gw |-> g, sid |-> sess.sid]
        /\ \A q \in Requests : q # r => req'[q] = req[q]
    BY <2>1, <2>3
  <2>5. req' \in [Requests -> [pc : {"none", "entered", "admitted", "audit", "revoke"},
                               gw : Gws \cup {""}, sid : 0 .. MaxSessions]]
    BY <2>1, <2>2, <2>3
  <2>6. /\ req'[r].pc = "entered" /\ req'[r].gw = g /\ req'[r].sid = sess.sid
    BY <2>4
  <2>7. \A q \in Requests : req'[q].pc # "none" =>
          req'[q].sid \in Sessions /\ req'[q].sid <= sess.sid /\ req'[q].gw \in Gws
    <3>1. \A q \in Requests : req[q].pc # "none" =>
            req[q].sid \in Sessions /\ req[q].sid <= sess.sid /\ req[q].gw \in Gws
      BY DEF IInv, Shape, ReqShape
    <3> QED BY <1>2, <2>2, <2>4, <2>6, <3>1
  <2>8. sess' = sess
    BY <1>1
  <2> QED BY <2>4, <2>5, <2>6, <2>7, <2>8 DEF ReqShape
<1>4. Limits'
  <2>1. \A s, h : Admitted(s, h)' = Admitted(s, h)
    BY <1>1, <1>3 DEF Admitted
  <2> QED BY <1>1, <2>1 DEF IInv, Limits
<1>5. Shape'
  BY <1>1, <1>3 DEF IInv, Shape, ClockShape, OpShape, SessShape, LeaseShape, GateShape
<1>6. Capabilities' /\ Entrance' /\ Released' /\ Leases' /\ Ended'
  BY <1>1 DEF IInv, Capabilities, Closed, Entrance, Released, Leases, Ended, Runs, Free,
              AttachDone, AtChannels, ChannelsDone, Spent, Acquiring, Live, Unaudited
<1>7. Machine'
  BY <1>1, <1>2 DEF IInv, Machine, Runs, Free, Acquiring, Closed, Serves, Live, Unaudited
<1>8. Pausing'
  <2>1. \A gws \in SUBSET Gws :
          ~(op.kind = "pause" /\ op.k # 1) /\ ~((Free /\ ctl.state = "paused") \/ op.kind = "resume")
    BY <1>2 DEF Runs, Free, Live, Unaudited
  <2> QED BY <1>1, <2>1 DEF IInv, Shape, OpShape, Pausing, Free, Spent
<1> QED BY <1>4, <1>5, <1>6, <1>7, <1>8 DEF IInv

-----------------------------------------------------------------------------
(* The clock, the main loop, and how an operation begins.                     *)

LEMMA SameLimits ==
  ASSUME Limits, UNCHANGED req,
         \A s \in Sessions, g \in Gws : /\ gate'[s][g].slots = gate[s][g].slots
                                        /\ gate'[s][g].admitted = gate[s][g].admitted
                                        /\ gate'[s][g].used = gate[s][g].used
  PROVE  Limits'
<1>1. \A s, g : Admitted(s, g)' = Admitted(s, g)
  BY DEF Admitted
<1>2. ASSUME NEW s \in Sessions, NEW g \in Gws
      PROVE  /\ gate'[s][g].slots = Cardinality(Admitted(s, g)')
             /\ gate'[s][g].admitted <= gate'[s][g].used /\ gate'[s][g].used <= MaxRequests
  <2>1. /\ gate[s][g].slots = Cardinality(Admitted(s, g))
        /\ gate[s][g].admitted <= gate[s][g].used /\ gate[s][g].used <= MaxRequests
    BY DEF Limits
  <2> QED BY <1>1, <2>1
<1> QED BY <1>2 DEF Limits

LEMMA WhereChannels ==
  /\ ChannelsAt["fail"] = 3 /\ ChannelsAt["pause"] = 2 /\ ChannelsAt["export"] = 4
  /\ ChannelsAt["retain"] = 1 /\ ChannelsAt["destroy"] = 2 /\ ChannelsAt["abandon"] = 2
BY DEF ChannelsAt

LEMMA LoopMoves ==
  ASSUME IInv, ClockShape', ctl'.state = ctl.state, UNCHANGED <<op, sess, lease, gate, req>>
  PROVE  IInv'
<1>1. Limits'
  BY SameLimits DEF IInv
<1>2. Shape'
  BY DEF IInv, Shape, OpShape, SessShape, LeaseShape, GateShape, ReqShape
<1>3. Capabilities' /\ Entrance' /\ Machine'
  BY DEF IInv, Capabilities, Closed, Entrance, Machine, Runs, Free, Acquiring, AtChannels,
         ChannelsDone, GateOf, Serves, Live, Unaudited
<1>4. Released' /\ Leases' /\ Pausing' /\ Ended'
  BY DEF IInv, Released, Leases, Pausing, Ended, Runs, Free, Acquiring, AttachDone,
         AtChannels, ChannelsDone, Spent, Nobody
<1> QED BY <1>1, <1>2, <1>3, <1>4 DEF IInv

LEMMA OpBegins ==
  ASSUME NEW kind \in {"pause", "resume", "quiesce", "export", "destroy", "exec"},
         IInv, Free \/ (op.kind = "quiesce" /\ kind = "export"),
         NEW b \in BOOLEAN, op' = Begin(kind, b),
         kind \in {"pause", "exec"} => ctl.state = "running",
         kind = "resume" => ctl.state = "paused", kind = "quiesce" => Dev,
         ClockShape', ctl'.state = ctl.state, UNCHANGED <<sess, lease, gate, req>>
  PROVE  IInv'
<1>1. /\ OpShape' /\ op'.kind = kind /\ op'.k = 1 /\ op'.left = Gws
  BY Begins DEF OpKinds
<1>2. Free \/ op.kind = "quiesce"
  OBVIOUS
<1>3. Limits'
  BY SameLimits DEF IInv
<1>4. Shape'
  BY <1>1 DEF IInv, Shape, SessShape, LeaseShape, GateShape, ReqShape
<1>5. ~AtChannels' /\ ~ChannelsDone' /\ ~AttachDone' /\ ~Free'
  BY <1>1, WhereChannels DEF AtChannels, ChannelsDone, AttachDone, Free, Ending
<1>6. Closed' = Closed
  BY DEF Closed
<1>7. Live' = Live /\ Runs = Live /\ (~Live => Closed) /\ (Live => Serves)
  BY <1>2 DEF Live, Unaudited, Runs, IInv, Capabilities, Machine
<1>8. Capabilities'
  <2>1. kind = "resume" => Closed
    BY <1>7 DEF Live, Unaudited
  <2> QED BY <1>1, <1>5, <1>6, <1>7, <2>1 DEF IInv, Capabilities, Acquiring
<1>9. Entrance'
  <2>1. sess.active => sess.sid # 0 /\ Live
    BY <1>2, <1>7 DEF IInv, Entrance, Free
  <2>2. Live /\ kind = "resume" => FALSE
    BY DEF Live, Unaudited
  <2> QED BY <1>1, <1>7, <2>1, <2>2 DEF Entrance, Runs, Acquiring
<1>10. Machine'
  <2>1. Closed \/ sess.vm = "running"
    BY <1>7 DEF Serves
  <2>2. kind \in {"pause", "exec", "resume"} => Free
    OBVIOUS
  <2>3. kind = "exec" => ctl.state = "running" /\ Serves
    BY <1>7 DEF Live
  <2>4. kind = "resume" => Closed
    BY <1>7 DEF Live, Unaudited
  <2>5. Closed => \A r \in Requests : req[r].pc = "entered" => ~GateOf(r).live
    BY DEF IInv, Shape, ReqShape, Closed, GateOf
  <2>6. Serves' = Serves
    BY DEF Serves
  <2> QED BY <1>1, <1>5, <1>6, <1>7, <2>1, <2>3, <2>4, <2>5, <2>6
          DEF Machine, Runs, Acquiring, GateOf
<1>11. Released'
  BY <1>5 DEF Released
<1>12. Leases'
  <2>1. kind = "resume" => \A s \in Sessions : Spent(s)
    BY DEF IInv, Pausing
  <2> QED BY <1>1, <2>1 DEF IInv, Leases, Spent, Acquiring
<1>13. Pausing'
  <2>1. kind = "pause" => sess.serving = Gws
    BY <1>7 DEF Live, Serves
  <2>2. kind = "resume" => ctl.state = "paused" /\ Nobody(Gws) /\ \A s \in Sessions : Spent(s)
    BY DEF IInv, Pausing
  <2> QED BY <1>1, <1>5, <2>1, <2>2 DEF Pausing, Nobody, Spent
<1>14. Ended'
  BY <1>1, <1>5 DEF IInv, Ended
<1> QED BY <1>3, <1>4, <1>8, <1>9, <1>10, <1>11, <1>12, <1>13, <1>14 DEF IInv

Requested == PauseRequest \/ ResumeRequest \/ ExportRequest \/ DestroyRequest
LEMMA RequestedStep == ASSUME IInv, Requested PROVE IInv'
<1>1. /\ Free /\ UNCHANGED <<now, ctl, loop, sess, lease, gate, req>>
      /\ \E kind \in {"pause", "resume", "quiesce", "export", "destroy"} :
           /\ op' = Begin(kind, FALSE)
           /\ kind = "quiesce" => Dev
           /\ kind = "pause" => ctl.state = "running"
           /\ kind = "resume" => ctl.state = "paused"
  BY DEF Requested, PauseRequest, ResumeRequest, ExportRequest, DestroyRequest, Take, Serving
<1>2. ClockShape'
  BY <1>1 DEF IInv, Shape, ClockShape
<1> QED BY <1>1, <1>2, OpBegins

LEMMA TouchStep == ASSUME IInv, Heartbeat \/ Exec PROVE IInv'
<1>1. /\ Free /\ ctl.state = "running" /\ UNCHANGED <<now, sess, lease, gate, req>>
      /\ ctl' = [ctl EXCEPT !.lastActivity = now] /\ loop' = [loop EXCEPT !.fresh = FALSE]
      /\ UNCHANGED op \/ op' = Begin("exec", FALSE)
  BY DEF Heartbeat, Exec, Active, Serving, Touch, Notify
<1>2. now \in Nat /\ ctl \in [state : States, expiresAt : Nat, lastActivity : Nat]
      /\ DOMAIN loop = LoopFields /\ loop.at \in Nat /\ loop.at <= now
  BY DEF IInv, Shape, ClockShape
<1>3. DOMAIN loop' = LoopFields /\ loop'.at = loop.at
  BY <1>1, <1>2 DEF LoopFields
<1>4. ClockShape' /\ ctl'.state = ctl.state
  BY <1>1, <1>2, <1>3 DEF ClockShape
<1> QED BY <1>1, <1>4, LoopMoves, OpBegins

LEMMA LoopStepKeeps == ASSUME IInv, LoopStep PROVE IInv'
<1>1. now \in Nat /\ ctl \in [state : States, expiresAt : Nat, lastActivity : Nat]
      /\ DOMAIN loop = LoopFields /\ loop.at \in Nat /\ loop.at <= now
  BY DEF IInv, Shape, ClockShape
<1>2. CASE Arm
  <2>1. DOMAIN loop' = LoopFields /\ loop'.at = 0 /\ UNCHANGED <<now, ctl>>
    BY <1>2 DEF Arm, LoopFields
  <2>2. ClockShape'
    BY <1>1, <2>1 DEF ClockShape
  <2> QED BY <1>2, <2>2, LoopMoves DEF Arm
<1>3. CASE DeadlineChanged
  <2>1. DOMAIN loop' = LoopFields /\ loop'.at = loop.at /\ UNCHANGED <<now, ctl>>
    BY <1>1, <1>3 DEF DeadlineChanged, LoopFields
  <2>2. ClockShape'
    BY <1>1, <2>1 DEF ClockShape
  <2> QED BY <1>3, <2>2, LoopMoves DEF DeadlineChanged
<1>4. ASSUME NEW timer \in {"expiry", "idle"}, Fire(timer) PROVE IInv'
  <2>1. DOMAIN loop' = LoopFields /\ loop'.at = now /\ UNCHANGED <<now, ctl>>
    BY <1>1, <1>4 DEF Fire, LoopFields
  <2>2. ClockShape'
    BY <1>1, <2>1 DEF ClockShape
  <2> QED BY <1>4, <2>2, LoopMoves DEF Fire
<1>5. CASE PauseIfDue
  <2>1. DOMAIN loop' = LoopFields /\ loop'.at = loop.at /\ UNCHANGED <<now, ctl>>
    BY <1>1, <1>5 DEF PauseIfDue, LoopFields
  <2>2. ClockShape'
    BY <1>1, <2>1 DEF ClockShape
  <2>3. /\ UNCHANGED op \/ (ctl.state = "running" /\ op' = Begin("pause", TRUE))
        /\ Free /\ UNCHANGED <<sess, lease, gate, req>>
    BY <1>5 DEF PauseIfDue, Due
  <2> QED BY <2>1, <2>2, <2>3, LoopMoves, OpBegins
<1>6. CASE Shutdown
  <2>1. DOMAIN loop' = LoopFields /\ loop'.at = loop.at /\ UNCHANGED <<now, ctl>>
    BY <1>1, <1>6 DEF Shutdown, LoopFields
  <2>2. ClockShape'
    BY <1>1, <2>1 DEF ClockShape
  <2>3. /\ UNCHANGED op \/ op' = Begin("destroy", TRUE)
        /\ Free /\ UNCHANGED <<sess, lease, gate, req>>
    BY <1>6 DEF Shutdown
  <2> QED BY <2>1, <2>2, <2>3, LoopMoves, OpBegins
<1> QED BY <1>2, <1>3, <1>4, <1>5, <1>6 DEF LoopStep, ExpiryFires, IdleFires

LEMMA TickStep == ASSUME IInv, Tick PROVE IInv'
<1>1. ClockShape'
  BY DEF IInv, Shape, ClockShape, Tick
<1> QED BY <1>1, LoopMoves DEF Tick

-----------------------------------------------------------------------------
(* The steps of an operation.                                                 *)

\* An ending operation goes on,
LEMMA Proceeds ==
  ASSUME IInv, Shape', Limits', op.kind \in Ending, ~AtChannels,
         op'.kind = op.kind, op'.k = op.k + 1, op'.left = Gws, ~op'.err => ~op.err,
         ~sess'.active, sess'.sid = sess.sid, UNCHANGED <<gate, req>>,
         sess'.serving = sess.serving \/ (op.kind = "export" /\ op.k = 3),
         sess'.relay = 0 \/ (AttachDone /\ sess'.relay = sess.relay)
                         \/ (op.kind \in {"fail", "retain"} /\ op.k = 1)
                         \/ op.kind = "retain",
         Closed \/ sess'.vm = "running" \/ op.kind \in {"fail", "abandon"},
         \A s \in Sessions : Spent(s) => Spent(s)',
         op.kind = "pause" /\ op.k > 2 => \A s \in Sessions : Spent(s)'
  PROVE  IInv'
<1>1. Closed' = Closed
  BY DEF Closed
<1>2. /\ op.k \in Nat /\ op'.kind # "none" /\ ~Free' /\ ~Runs' /\ ~Acquiring'
      /\ op'.kind \notin {"exec", "quiesce"}
  BY DEF IInv, Shape, OpShape, Free, Runs, Acquiring, Ending
<1>3. ChannelsDone' => ChannelsDone
  BY <1>2, WhereChannels DEF ChannelsDone, AtChannels, Ending
<1>4. sess'.serving \subseteq Gws
  BY DEF Shape, SessShape
<1>5. Capabilities'
  BY <1>1, <1>2, <1>3 DEF IInv, Capabilities, Closed
<1>6. Entrance'
  BY <1>2 DEF Entrance
<1>7. Machine'
  BY <1>1, <1>2 DEF IInv, Machine, GateOf, Ending
<1>8. Released'
  <2>1. ChannelsDone => sess'.serving = sess.serving
    BY WhereChannels DEF ChannelsDone
  <2>2. AttachDone' => sess'.relay = 0
    BY <1>2 DEF IInv, Released, AttachDone
  <2> QED BY <1>3, <1>4, <2>1, <2>2 DEF IInv, Released
<1>9. Leases'
  BY <1>2 DEF IInv, Leases, Ending, Acquiring
<1>10. Pausing'
  <2>1. op.kind = "pause" => op.k # 2 /\ sess'.serving = sess.serving
    BY WhereChannels DEF AtChannels, Ending
  <2>2. ASSUME op.kind = "pause"
        PROVE  /\ op'.k = 1 /\ ~op'.err => sess'.serving = Gws
               /\ op'.k = 2 /\ ~op'.err => op'.left \subseteq sess'.serving
               /\ op'.k = 2 /\ ~op'.err => Nobody(Gws \ op.left)'
               /\ op'.k > 2 /\ ~op'.err => Nobody(Gws)'
               /\ op'.k > 3 => \A s \in Sessions : Spent(s)'
    <3>1. op.k = 1 \/ op.k > 2
      <4>1. op.k \in 1 .. 4
        BY <2>2, Orders DEF IInv, Shape, OpShape, OpKinds
      <4> QED BY <2>1, <2>2, <4>1
    <3>2. CASE op.k = 1
      <4>1. op'.k = 2 /\ (~op'.err => sess.serving = Gws)
        BY <2>2, <3>2 DEF IInv, Pausing
      <4>2. Nobody(Gws \ op.left)'
        BY DEF Nobody
      <4> QED BY <2>1, <2>2, <4>1, <4>2
    <3>3. CASE op.k > 2
      <4>1. op'.k > 3 /\ (~op.err => Nobody(Gws))
        BY <1>2, <2>2, <3>3 DEF IInv, Pausing
      <4> QED BY <1>2, <2>2, <3>3, <4>1 DEF Nobody
    <3> QED BY <3>1, <3>2, <3>3
  <2> QED BY <1>2, <2>2 DEF Pausing, Acquiring
<1>11. Ended'
  BY <1>2 DEF Ended, Acquiring
<1> QED BY <1>5, <1>6, <1>7, <1>8, <1>9, <1>10, <1>11 DEF IInv

\* keeps what it has for the recovery,
LEMMA Retains ==
  ASSUME IInv, Shape', Limits', op.kind = "export",
         op'.kind = "retain", op'.k = 1, op'.left = Gws,
         ~sess'.active, sess'.sid = sess.sid, Shuts, UNCHANGED req,
         \A s \in Sessions : Spent(s) => Spent(s)', Closed' \/ sess'.vm = "running"
  PROVE  IInv'
<1>1. /\ ~Free' /\ ~Runs' /\ ~Acquiring' /\ ~ChannelsDone' /\ ~AttachDone'
  BY WhereChannels DEF Free, Runs, Acquiring, ChannelsDone, AttachDone
<1>2. Capabilities'
  BY <1>1 DEF IInv, Capabilities, Closed, Shuts
<1>3. Entrance'
  BY <1>1 DEF Entrance
<1>4. Machine'
  BY <1>1 DEF Machine
<1>5. Released'
  BY <1>1 DEF Released, Shape, SessShape
<1>6. Leases' /\ Pausing' /\ Ended'
  BY <1>1 DEF IInv, Leases, Pausing, Ended, Acquiring
<1> QED BY <1>2, <1>3, <1>4, <1>5, <1>6 DEF IInv

\* or has come to its end.
LEMMA Ends ==
  ASSUME IInv, Shape', ChannelsDone, op'.kind = "none",
         ctl'.state \in {"paused", "failed", "recovery", "exported", "destroyed"},
         ~sess'.active, sess'.sid = sess.sid, sess'.serving = sess.serving,
         sess'.relay = sess.relay, UNCHANGED <<lease, gate, req>>,
         ctl'.state = "paused" => op.kind = "pause" /\ op.k > 3 /\ ~op.err,
         ctl'.state \in {"paused", "exported", "destroyed"} =>
           AttachDone /\ sess'.vm # "running"
  PROVE  IInv'
<1>1. /\ Free' /\ ~Runs' /\ ~Acquiring' /\ ~ChannelsDone' /\ ~AtChannels' /\ ~AttachDone'
  BY DEF Free, Runs, Acquiring, ChannelsDone, AtChannels, AttachDone, Ending, Live, Unaudited
<1>2. Closed' /\ sess'.serving = {} /\ (AttachDone => sess'.relay = 0)
  BY DEF IInv, Capabilities, Released, Closed
<1>3. Limits'
  BY SameLimits DEF IInv
<1>4. Capabilities'
  BY <1>1, <1>2 DEF Capabilities, Closed
<1>5. Entrance' /\ Machine' /\ Released' /\ Leases'
  BY <1>1 DEF IInv, Entrance, Machine, Released, Leases, Acquiring, Spent
<1>6. Pausing'
  <2>1. ASSUME ctl'.state = "paused" PROVE Nobody(Gws) /\ \A s \in Sessions : Spent(s)
    <3>1. op.kind = "pause" /\ op.k > 3 /\ op.k > 2 /\ ~op.err
      BY <2>1 DEF IInv, Shape, OpShape
    <3> QED BY <3>1 DEF IInv, Pausing
  <2> QED BY <1>1, <2>1 DEF Pausing, Nobody, Spent
<1>7. Ended'
  BY <1>1, <1>2 DEF Ended, Acquiring
<1> QED BY <1>3, <1>4, <1>5, <1>6, <1>7 DEF IInv

LEMMA ShapeKept ==
  ASSUME Shape, OpShape', ClockShape', SessShape', LeaseShape', GateShape',
         sess'.sid = sess.sid, UNCHANGED req
  PROVE  Shape'
BY DEF Shape, ReqShape

LEMMA Unchanged ==
  ASSUME Shape
  PROVE  /\ UNCHANGED <<now, ctl, loop>> => ClockShape'
         /\ UNCHANGED lease => LeaseShape'
         /\ UNCHANGED gate => GateShape' /\ Shuts
         /\ UNCHANGED sess => SessShape'
BY DEF Shape, ClockShape, LeaseShape, GateShape, SessShape, Shuts

LEMMA AttachStep == ASSUME IInv, StopAttach PROVE IInv'
<1>1. /\ (op.kind = "fail" /\ op.k = 2)
         \/ (op.kind \in {"pause", "export", "destroy", "abandon"} /\ op.k = 1)
      /\ OpShape /\ Shape
  BY StepWhere DEF IInv, Shape, StopAttach, Where
<1>2. op.kind \in Ending /\ op.kind \in OpKinds /\ ~AtChannels
  BY <1>1, WhereChannels DEF Ending, OpKinds, AtChannels
<1>3. /\ SessShape' /\ sess'.sid = sess.sid /\ ~sess'.active /\ sess'.relay = 0
      /\ sess'.serving = sess.serving /\ sess'.vm = sess.vm
  <2>1. sess' = [sess EXCEPT !.active = FALSE, !.relay = 0] /\ 0 \in 0 .. MaxSessions
    BY DEF StopAttach
  <2>2. SessShape
    BY <1>1 DEF Shape
  <2> QED BY <2>1, <2>2 DEF SessShape
<1>4. UNCHANGED <<now, ctl, loop, lease, gate, req>>
  BY DEF StopAttach
<1>5. Limits'
  BY <1>4, SameLimits DEF IInv
<1>6. Closed \/ sess.vm = "running" \/ op.kind \in {"fail", "abandon"}
  BY <1>2 DEF IInv, Machine, Ending
<1>7. CASE op.kind = "export" /\ Fail
  <2>1. OpShape' /\ op'.k = 1 /\ op'.left = Gws /\ op'.kind = "retain"
    BY <1>1, <1>7, Fails DEF Instead
  <2>2. Shape'
    BY <1>1, <1>3, <1>4, <2>1, Unchanged, ShapeKept
  <2>3. Closed' \/ sess'.vm = "running"
    BY <1>3, <1>4, <1>6, <1>7 DEF Closed
  <2>4. \A s \in Sessions : Spent(s) => Spent(s)'
    BY <1>4 DEF Spent
  <2> QED BY <1>1, <1>3, <1>4, <1>5, <1>7, <2>1, <2>2, <2>3, <2>4, Unchanged, Retains
<1>8. CASE Continue \/ ContinueWith(TRUE)
  <2>1. op.k + 1 \in DOMAIN Order[op.kind]
    BY <1>1, <1>2, Orders
  <2>2. OpShape' /\ op'.kind = op.kind /\ op'.k = op.k + 1 /\ op'.left = Gws
        /\ (~op'.err => ~op.err)
    BY <1>1, <1>2, <1>8, <2>1, Continues, ContinuesWith
  <2>3. Shape'
    BY <1>1, <1>3, <1>4, <2>2, Unchanged, ShapeKept
  <2>4. (\A s \in Sessions : Spent(s) => Spent(s)') /\ ~(op.kind = "pause" /\ op.k > 2)
    BY <1>1, <1>4 DEF Spent
  <2> QED BY <1>2, <1>3, <1>4, <1>5, <1>6, <2>2, <2>3, <2>4, Proceeds
<1> QED BY <1>7, <1>8 DEF StopAttach

LEMMA LeaseStep == ASSUME IInv, RevokeLease PROVE IInv'
<1>1. /\ (op.kind = "fail" /\ op.k = 1)
         \/ (op.kind \in {"retain", "export"} /\ op.k = 2)
         \/ (op.kind \in {"pause", "destroy", "abandon"} /\ op.k = 3)
      /\ OpShape /\ Shape
  BY StepWhere DEF IInv, Shape, RevokeLease, Where
<1>2. op.kind \in Ending /\ op.kind \in OpKinds /\ ~AtChannels
  BY <1>1, WhereChannels DEF Ending, OpKinds, AtChannels
<1>3. UNCHANGED <<now, gate, req>>
  BY DEF RevokeLease
<1>4. /\ SessShape' /\ sess'.sid = sess.sid /\ sess'.active = sess.active
      /\ sess'.relay = sess.relay /\ sess'.serving = sess.serving /\ sess'.vm = sess.vm
  <2>1. UNCHANGED sess \/ \E b \in BOOLEAN : sess' = [sess EXCEPT !.leased = b]
    BY <1>1 DEF RevokeLease, Shape, SessShape
  <2> QED BY <1>1, <2>1 DEF Shape, SessShape
<1>5. ~sess'.active
  BY <1>1, <1>4 DEF IInv, Entrance, Runs, Free
<1>6. Limits'
  BY <1>3, SameLimits DEF IInv
<1>7. Closed \/ sess.vm = "running" \/ op.kind \in {"fail", "abandon"}
  BY <1>2 DEF IInv, Machine, Ending
<1>8. /\ LeaseShape' /\ \A s \in Sessions : Spent(s) => Spent(s)'
      /\ lease' = lease \/ \A s \in Sessions : s = sess.sid => Spent(s)'
  <2>1. CASE UNCHANGED lease
    BY <1>1, <2>1 DEF Shape, LeaseShape, Spent
  <2>2. CASE lease' = [lease EXCEPT ![sess.sid] = [state |-> "revoked", exp |-> 0]]
    <3>1. /\ LeaseShape'
          /\ \A s \in Sessions :
               lease'[s] = IF s = sess.sid THEN [state |-> "revoked", exp |-> 0] ELSE lease[s]
      BY <1>1, <2>2 DEF Shape, LeaseShape
    <3> QED BY <3>1 DEF Spent
  <2> QED BY <2>1, <2>2 DEF RevokeLease
<1>9. CASE op.kind = "export" /\ Fail /\ UNCHANGED <<ctl, loop>>
  <2>1. OpShape' /\ op'.k = 1 /\ op'.left = Gws /\ op'.kind = "retain"
    BY <1>1, <1>9, Fails DEF Instead
  <2>2. Shape'
    BY <1>1, <1>3, <1>4, <1>8, <1>9, <2>1, Unchanged, ShapeKept
  <2>3. Closed' \/ sess'.vm = "running"
    BY <1>3, <1>4, <1>7, <1>9 DEF Closed
  <2> QED BY <1>1, <1>3, <1>4, <1>5, <1>6, <1>8, <1>9, <2>1, <2>2, <2>3, Unchanged, Retains
<1>10. CASE op.kind = "pause" /\ Finish("failed") /\ UNCHANGED lease
  <2>1. ClockShape' /\ OpShape' /\ op'.kind = "none" /\ ctl'.state = "failed"
    BY <1>1, <1>3, <1>10, Finishes DEF Shape, States
  <2>2. Shape'
    BY <1>1, <1>3, <1>4, <1>8, <2>1, Unchanged, ShapeKept
  <2>3. ChannelsDone
    BY <1>1, <1>10, WhereChannels DEF ChannelsDone, Ending
  <2> QED BY <1>3, <1>4, <1>5, <1>10, <2>1, <2>2, <2>3, Ends
<1>11. CASE /\ Continue \/ ContinueWith(TRUE)
            /\ UNCHANGED <<ctl, loop>>
            /\ op.kind = "pause" => lease' # lease \/ \A s \in Sessions : s = sess.sid => Spent(s)'
  <2>1. op.k + 1 \in DOMAIN Order[op.kind]
    BY <1>1, <1>2, Orders
  <2>2. OpShape' /\ op'.kind = op.kind /\ op'.k = op.k + 1 /\ op'.left = Gws
        /\ (~op'.err => ~op.err)
    BY <1>1, <1>2, <1>11, <2>1, Continues, ContinuesWith
  <2>3. Shape'
    BY <1>1, <1>3, <1>4, <1>8, <1>11, <2>2, Unchanged, ShapeKept
  <2>4. op.kind = "pause" => \A s \in Sessions : Spent(s)'
    BY <1>8, <1>11 DEF IInv, Leases
  <2>5. \/ sess'.relay = 0 \/ (AttachDone /\ sess'.relay = sess.relay)
        \/ (op.kind \in {"fail", "retain"} /\ op.k = 1) \/ op.kind = "retain"
    BY <1>1, <1>4 DEF AttachDone
  <2> QED BY <1>2, <1>3, <1>4, <1>5, <1>6, <1>7, <1>8, <2>2, <2>3, <2>4, <2>5, Proceeds
<1>12. ASSUME lease' = [lease EXCEPT ![sess.sid] = [state |-> "revoked", exp |-> 0]]
       PROVE  \A s \in Sessions : s = sess.sid => Spent(s)'
  BY <1>1, <1>12 DEF Shape, LeaseShape, Spent
<1> QED BY <1>1, <1>9, <1>10, <1>11, <1>12 DEF RevokeLease

LEMMA ThawStep == ASSUME IInv, Thaw PROVE IInv'
<1>1. op.kind = "export" /\ op.k = 3 /\ OpShape /\ Shape
  BY StepWhere DEF IInv, Shape, Thaw, Where
<1>2. op.kind \in Ending /\ op.kind \in OpKinds /\ ~AtChannels
  BY <1>1, WhereChannels DEF Ending, OpKinds, AtChannels
<1>3. UNCHANGED <<now, ctl, loop, lease, gate, req>>
  BY DEF Thaw
<1>4. ~sess.active /\ sess.relay = 0
  BY <1>1 DEF IInv, Entrance, Released, Runs, Free, AttachDone
<1>5. /\ SessShape' /\ sess'.sid = sess.sid /\ ~sess'.active /\ sess'.relay = 0
      /\ sess'.vm = "running" \/ UNCHANGED sess
  <2>1. \/ UNCHANGED sess
        \/ sess' = [sess EXCEPT !.vm = "running", !.serving = Gws, !.active = FALSE]
    BY DEF Thaw
  <2>2. SessShape
    BY <1>1 DEF Shape
  <2> QED BY <1>4, <2>1, <2>2 DEF SessShape
<1>6. Limits'
  BY <1>3, SameLimits DEF IInv
<1>7. Closed \/ sess'.vm = "running"
  BY <1>1, <1>5 DEF IInv, Machine
<1>8. CASE Fail
  <2>1. OpShape' /\ op'.k = 1 /\ op'.left = Gws /\ op'.kind = "retain"
    BY <1>1, <1>8, Fails DEF Instead
  <2>2. Shape'
    BY <1>1, <1>3, <1>5, <2>1, Unchanged, ShapeKept
  <2>3. Closed' \/ sess'.vm = "running"
    BY <1>3, <1>7 DEF Closed
  <2>4. \A s \in Sessions : Spent(s) => Spent(s)'
    BY <1>3 DEF Spent
  <2> QED BY <1>1, <1>3, <1>5, <1>6, <2>1, <2>2, <2>3, <2>4, Unchanged, Retains
<1>9. CASE Continue
  <2>1. op.k + 1 \in DOMAIN Order[op.kind]
    BY <1>1, <1>2, Orders
  <2>2. OpShape' /\ op'.kind = op.kind /\ op'.k = op.k + 1 /\ op'.left = Gws
        /\ (~op'.err => ~op.err)
    BY <1>1, <1>2, <1>9, <2>1, Continues
  <2>3. Shape'
    BY <1>1, <1>3, <1>5, <2>2, Unchanged, ShapeKept
  <2>4. (\A s \in Sessions : Spent(s) => Spent(s)') /\ ~(op.kind = "pause" /\ op.k > 2)
    BY <1>1, <1>3 DEF Spent
  <2> QED BY <1>1, <1>2, <1>3, <1>5, <1>6, <1>7, <2>2, <2>3, <2>4, Proceeds
<1> QED BY <1>8, <1>9 DEF Thaw

LEMMA StopStep == ASSUME IInv, StopVM PROVE IInv'
<1>1. /\ (op.kind \in {"fail", "pause"} /\ op.k = 4) \/ (op.kind = "export" /\ op.k = 5)
         \/ (op.kind = "retain" /\ op.k = 3)
      /\ OpShape /\ Shape
  BY StepWhere DEF IInv, Shape, StopVM, Where
<1>2. /\ op.kind \in Ending /\ op.kind \in OpKinds /\ ~AtChannels /\ ChannelsDone
      /\ op.kind # "retain" => AttachDone
  BY <1>1, WhereChannels DEF Ending, OpKinds, AtChannels, ChannelsDone, AttachDone
<1>3. UNCHANGED <<now, lease, gate, req>> /\ Limits' /\ Closed /\ Closed'
  <2>1. UNCHANGED <<now, lease, gate, req>> /\ Closed
    BY <1>2 DEF StopVM, IInv, Capabilities
  <2> QED BY <2>1, SameLimits DEF Closed, IInv
<1>4. ~sess.active
  BY <1>1 DEF IInv, Entrance, Runs, Free
<1>5. /\ SessShape' /\ sess'.sid = sess.sid /\ ~sess'.active /\ sess'.relay = sess.relay
      /\ sess'.serving = sess.serving
      /\ UNCHANGED sess \/ sess'.vm = "stopped"
  <2>1. UNCHANGED sess \/ sess' = [sess EXCEPT !.vm = "stopped"]
    BY DEF StopVM
  <2>2. SessShape
    BY <1>1 DEF Shape
  <2> QED BY <1>4, <2>1, <2>2 DEF SessShape
<1>6. CASE op.kind = "export" /\ Fail /\ UNCHANGED <<ctl, loop>>
  <2>1. OpShape' /\ op'.k = 1 /\ op'.left = Gws /\ op'.kind = "retain"
    BY <1>1, <1>6, Fails DEF Instead
  <2>2. Shape'
    BY <1>1, <1>3, <1>5, <1>6, <2>1, Unchanged, ShapeKept
  <2>3. \A s \in Sessions : Spent(s) => Spent(s)'
    BY <1>3 DEF Spent
  <2> QED BY <1>1, <1>3, <1>5, <1>6, <2>1, <2>2, <2>3, Unchanged, Retains
<1>7. CASE op.kind = "export" /\ Continue /\ UNCHANGED <<ctl, loop>>
  <2>1. op.k + 1 \in DOMAIN Order[op.kind]
    BY <1>1, <1>2, <1>7, Orders
  <2>2. OpShape' /\ op'.kind = op.kind /\ op'.k = op.k + 1 /\ op'.left = Gws
        /\ (~op'.err => ~op.err)
    BY <1>1, <1>2, <1>7, <2>1, Continues
  <2>3. Shape'
    BY <1>1, <1>3, <1>5, <1>7, <2>2, Unchanged, ShapeKept
  <2>4. \A s \in Sessions : Spent(s) => Spent(s)'
    BY <1>3 DEF Spent
  <2> QED BY <1>2, <1>3, <1>5, <1>7, <2>2, <2>3, <2>4, Proceeds
<1>8. ASSUME NEW state \in {"paused", "failed", "recovery"}, Finish(state),
             state = "paused" => op.kind = "pause" /\ ~op.err /\ sess'.vm = "stopped"
      PROVE  IInv'
  <2>1. ClockShape' /\ OpShape' /\ op'.kind = "none" /\ ctl'.state = state
    BY <1>1, <1>3, <1>8, Finishes DEF Shape, States
  <2>2. Shape'
    BY <1>1, <1>3, <1>5, <2>1, Unchanged, ShapeKept
  <2>3. state = "paused" => op.k > 3 /\ AttachDone
    BY <1>1, <1>2, <1>8
  <2> QED BY <1>2, <1>3, <1>5, <1>8, <2>1, <2>2, <2>3, Ends
<1>9. \/ op.kind = "export" /\ Fail /\ UNCHANGED <<ctl, loop>>
      \/ op.kind = "export" /\ Continue /\ UNCHANGED <<ctl, loop>>
      \/ \E state \in {"paused", "failed", "recovery"} :
           /\ Finish(state)
           /\ state = "paused" => op.kind = "pause" /\ ~op.err /\ sess'.vm = "stopped"
  <2>1. CASE op.kind = "export"
    BY <2>1 DEF StopVM
  <2>2. CASE op.kind = "retain"
    BY <2>2 DEF StopVM
  <2>3. CASE op.kind = "fail"
    BY <2>3 DEF StopVM
  <2>4. CASE op.kind = "pause"
    <3>1. CASE /\ sess' = [sess EXCEPT !.vm = "stopped"]
               /\ Finish(IF op.err THEN "failed" ELSE "paused")
      <4>1. sess'.vm = "stopped"
        BY <1>1, <3>1 DEF Shape, SessShape
      <4>2. CASE op.err
        BY <3>1, <4>2
      <4>3. CASE ~op.err
        BY <2>4, <3>1, <4>1, <4>3
      <4> QED BY <4>2, <4>3
    <3>2. CASE Finish("failed")
      BY <3>2
    <3> QED BY <2>4, <3>1, <3>2 DEF StopVM
  <2> QED BY <1>1, <2>1, <2>2, <2>3, <2>4
<1> QED BY <1>6, <1>7, <1>8, <1>9

LEMMA RemoveStep == ASSUME IInv, RemoveVM PROVE IInv'
<1>1. /\ (op.kind \in {"destroy", "abandon"} /\ op.k = 4) \/ (op.kind = "export" /\ op.k = 6)
      /\ OpShape /\ Shape
  BY StepWhere DEF IInv, Shape, RemoveVM, Where
<1>2. ChannelsDone /\ AttachDone
  BY <1>1, WhereChannels DEF Ending, ChannelsDone, AttachDone
<1>3. ~sess.active
  BY <1>1 DEF IInv, Entrance, Runs, Free
<1>4. UNCHANGED <<now, lease, gate, req>>
  BY DEF RemoveVM
<1>5. PICK state \in {"failed", "exported", "destroyed"} :
        Finish(state) /\ (state # "failed" => sess' = [sess EXCEPT !.vm = "removed"])
  <2>1. CASE op.err
    BY <2>1 DEF RemoveVM
  <2>2. CASE ~op.err
    BY <2>2 DEF RemoveVM
  <2> QED BY <2>1, <2>2
<1>6. /\ SessShape' /\ sess'.sid = sess.sid /\ ~sess'.active /\ sess'.relay = sess.relay
      /\ sess'.serving = sess.serving /\ (state # "failed" => sess'.vm = "removed")
  <2>1. UNCHANGED sess \/ sess' = [sess EXCEPT !.vm = "removed"]
    BY DEF RemoveVM
  <2>2. SessShape
    BY <1>1 DEF Shape
  <2> QED BY <1>3, <1>5, <2>1, <2>2 DEF SessShape
<1>7. ClockShape' /\ OpShape' /\ op'.kind = "none" /\ ctl'.state = state
  BY <1>1, <1>4, <1>5, Finishes DEF Shape, States
<1>8. Shape'
  BY <1>1, <1>4, <1>6, <1>7, Unchanged, ShapeKept
<1> QED BY <1>2, <1>4, <1>6, <1>7, <1>8, Ends

\* A gateway stops: its gate closes, and nobody is left behind it unless that
\* took too long.
LEMMA GatewayStops ==
  ASSUME IInv, AtChannels, NEW g \in op.left,
         sess' = [sess EXCEPT !.serving = @ \ {g}, !.active = FALSE],
         gate' = IF sess.sid = 0 THEN gate ELSE [gate EXCEPT ![sess.sid][g].live = FALSE]
  PROVE  /\ SessShape' /\ sess'.sid = sess.sid /\ ~sess'.active /\ sess'.relay = sess.relay
         /\ sess'.vm = sess.vm /\ sess'.serving = sess.serving \ {g}
         /\ Shuts /\ \A s \in Sessions, h \in Gws \ (op.left \ {g}) : ~gate'[s][h].live
         /\ \A s \in Sessions, h \in Gws : /\ gate'[s][h].slots = gate[s][h].slots
                                           /\ gate'[s][h].admitted = gate[s][h].admitted
                                           /\ gate'[s][h].used = gate[s][h].used
<1>1. SessShape /\ op.left \subseteq Gws
  BY DEF IInv, Shape, OpShape
<1>2. /\ SessShape' /\ sess'.sid = sess.sid /\ ~sess'.active /\ sess'.relay = sess.relay
      /\ sess'.vm = sess.vm /\ sess'.serving = sess.serving \ {g}
  BY <1>1 DEF SessShape
<1>3. gate \in [Sessions -> [Gws -> Gate]]
  BY DEF IInv, Shape, GateShape
<1>4. /\ \A s \in Sessions, h \in Gws : gate[s][h].live => s = sess.sid
      /\ \A s \in Sessions, h \in Gws \ op.left : ~gate[s][h].live
  BY DEF IInv, Capabilities
<1>5. CASE sess.sid = 0
  <2>1. \A s \in Sessions, h \in Gws : ~gate[s][h].live
    BY <1>4, <1>5 DEF Sessions
  <2>2. gate' = gate
    BY <1>5
  <2> QED BY <1>2, <1>3, <2>1, <2>2 DEF Shuts, GateShape
<1>6. CASE sess.sid # 0
  <2> DEFINE G == gate[sess.sid][g]
             H == [G EXCEPT !.live = FALSE]
  <2>1. sess.sid \in Sessions /\ g \in Gws
    BY <1>1, <1>6 DEF SessShape, Sessions
  <2>2. G \in Gate
    BY <1>3, <2>1
  <2>3. /\ H \in Gate /\ ~H.live /\ H.slots = G.slots /\ H.admitted = G.admitted
        /\ H.used = G.used
    BY <2>2 DEF Gate
  <2>4. gate' = [gate EXCEPT ![sess.sid] = [gate[sess.sid] EXCEPT ![g] = H]]
    BY <1>6
  <2> HIDE DEF H
  <2>5. /\ GateShape' /\ gate'[sess.sid][g] = H
        /\ \A s \in Sessions, h \in Gws : s # sess.sid \/ h # g => gate'[s][h] = gate[s][h]
    <3> DEFINE D == [gate[sess.sid] EXCEPT ![g] = H]
    <3>1. /\ D \in [Gws -> Gate] /\ D[g] = H
          /\ \A h \in Gws : h # g => D[h] = gate[sess.sid][h]
      BY <1>3, <2>1, <2>3
    <3>2. gate' = [gate EXCEPT ![sess.sid] = D]
      BY <2>4
    <3> HIDE DEF D
    <3> QED BY <1>3, <2>1, <3>1, <3>2 DEF GateShape
  <2>6. Shuts
    BY <2>3, <2>5 DEF Shuts
  <2>7. \A s \in Sessions, h \in Gws \ (op.left \ {g}) : ~gate'[s][h].live
    BY <1>4, <2>3, <2>5
  <2> QED BY <1>2, <2>3, <2>5, <2>6, <2>7
<1> QED BY <1>5, <1>6

LEMMA GatewayStep == ASSUME IInv, StopGateway PROVE IInv'
<1> DEFINE g == NextOf(op.left)
<1>1. /\ (op.kind = "retain" /\ op.k = 1) \/ (op.kind = "fail" /\ op.k = 3)
         \/ (op.kind = "export" /\ op.k = 4)
         \/ (op.kind \in {"pause", "destroy", "abandon"} /\ op.k = 2)
      /\ OpShape /\ Shape
  BY StepWhere DEF IInv, Shape, StopGateway, Where
<1>2. /\ op.kind \in Ending /\ op.kind \in OpKinds /\ AtChannels
      /\ op.kind \notin {"none", "start", "resume", "exec", "quiesce"}
  BY <1>1, WhereChannels DEF Ending, OpKinds, AtChannels
<1>3. g \in op.left /\ op.left \subseteq Gws /\ op.left # {}
  <2>1. op.left # {} /\ op.left \in SUBSET Gws
    BY <1>1, <1>2 DEF OpShape
  <2> QED BY <2>1, Opened
<1>4. PICK late \in {TRUE, FALSE} :
        /\ ~late => InFlight(g) = {} \/ g \notin sess.serving
        /\ sess' = [sess EXCEPT !.serving = @ \ {g}, !.active = FALSE]
        /\ gate' = IF sess.sid = 0 THEN gate ELSE [gate EXCEPT ![sess.sid][g].live = FALSE]
        /\ IF op.left # {g} THEN op' = [op EXCEPT !.left = @ \ {g}, !.err = @ \/ late]
           ELSE IF (op.err \/ late) /\ op.kind = "export" THEN Fail
           ELSE ContinueWith(late)
  BY DEF StopGateway
<1>5. UNCHANGED <<now, ctl, loop, lease, req>>
  BY DEF StopGateway
<1> HIDE DEF g
<1>6. /\ SessShape' /\ sess'.sid = sess.sid /\ ~sess'.active /\ sess'.relay = sess.relay
      /\ sess'.vm = sess.vm /\ sess'.serving = sess.serving \ {g}
      /\ Shuts /\ \A s \in Sessions, h \in Gws \ (op.left \ {g}) : ~gate'[s][h].live
      /\ \A s \in Sessions, h \in Gws : /\ gate'[s][h].slots = gate[s][h].slots
                                        /\ gate'[s][h].admitted = gate[s][h].admitted
                                        /\ gate'[s][h].used = gate[s][h].used
  BY <1>2, <1>3, <1>4, GatewayStops
<1>7. Limits'
  BY <1>5, <1>6, SameLimits DEF IInv
<1>8. /\ op.kind = "retain" \/ sess.relay = 0
      /\ sess.serving \subseteq op.left
  BY <1>1, <1>2 DEF IInv, Released, AttachDone
<1>9. /\ op.kind \in {"pause", "export", "retain", "destroy"} => Closed' \/ sess'.vm = "running"
      /\ op.kind \in {"fail", "abandon"} =>
           \A r \in Requests : req'[r].pc = "entered" => ~GateOf(r)'.live
  <2>1. Closed => Closed'
    BY <1>6 DEF Closed, Shuts
  <2>2. ASSUME NEW r \in Requests, req[r].pc = "entered", op.kind \in {"fail", "abandon"}
        PROVE  ~GateOf(r)'.live
    <3>1. ~GateOf(r).live
      BY <2>2 DEF IInv, Machine
    <3>2. req[r].sid \in Sessions /\ req[r].gw \in Gws
      BY <1>1, <2>2, GateIs
    <3> QED BY <1>5, <1>6, <3>1, <3>2 DEF GateOf, Shuts
  <2> QED BY <1>5, <1>6, <2>1, <2>2 DEF IInv, Machine
<1>10. op.kind = "pause" /\ ~op.err /\ ~late =>
         /\ Nobody(Gws \ (op.left \ {g}))
         /\ op.left \ {g} \subseteq sess'.serving
  <2>1. ASSUME op.kind = "pause"
        PROVE  ~op.err => Nobody(Gws \ op.left) /\ op.left \subseteq sess.serving
    BY <1>1, <2>1 DEF IInv, Pausing
  <2>2. op.kind = "pause" /\ ~op.err /\ ~late => InFlight(g) = {}
    BY <1>3, <1>4, <2>1
  <2> QED BY <1>6, <2>1, <2>2 DEF Nobody, InFlight
<1>11. CASE op.left # {g}
  <2> DEFINE e == op.err \/ late
  <2>1. op' = [op EXCEPT !.left = op.left \ {g}, !.err = e] /\ e \in BOOLEAN
    BY <1>4, <1>11
  <2>2. op \in OpRecord
    BY <1>1 DEF OpShape, OpRecord
  <2> HIDE DEF e
  <2>3. /\ op' \in OpRecord /\ op'.kind = op.kind /\ op'.k = op.k /\ op'.left = op.left \ {g}
        /\ op'.err = e
    BY <1>3, <2>1, <2>2 DEF OpRecord
  <2>4. OpShape'
    BY <1>1, <1>3, <1>11, <2>3 DEF OpShape, OpRecord
  <2>5. Shape'
    BY <1>1, <1>5, <1>6, <2>4, Unchanged, ShapeKept DEF Shuts
  <2>6. /\ ~Free' /\ ~Runs' /\ ~Acquiring' /\ AtChannels' /\ ~ChannelsDone'
        /\ op'.kind \notin {"exec", "quiesce"}
    BY <1>1, <1>2, <2>3, WhereChannels
       DEF Free, Runs, Acquiring, AtChannels, ChannelsDone, Ending
  <2>7. Capabilities'
    BY <1>6, <2>3, <2>6 DEF IInv, Capabilities, Shuts
  <2>8. Entrance'
    BY <1>6, <2>6 DEF Entrance
  <2>9. Machine'
    BY <1>9, <2>3, <2>6 DEF Machine, Acquiring
  <2>10. Released'
    <3>1. AttachDone' => AttachDone
      BY <2>3 DEF AttachDone
    <3> QED BY <1>6, <1>8, <2>3, <2>6, <3>1 DEF IInv, Released
  <2>11. Leases'
    BY <1>5, <1>6, <2>6 DEF IInv, Leases, Spent, Acquiring
  <2>12. Pausing'
    <3>1. ~op'.err => ~op.err /\ ~late
      BY <2>3 DEF e
    <3>2. ASSUME op.kind = "pause", ~op'.err PROVE Nobody(Gws \ op.left)'
      BY <1>5, <1>10, <2>3, <3>1, <3>2 DEF Nobody
    <3>3. op.kind = "pause" => op'.k = 2 /\ (~op'.err => op'.left \subseteq sess'.serving)
      BY <1>1, <1>10, <2>3, <3>1
    <3> QED BY <2>3, <2>6, <3>2, <3>3 DEF Pausing, Acquiring
  <2>13. Ended'
    BY <2>6 DEF Ended, Acquiring
  <2> QED BY <1>7, <2>5, <2>7, <2>8, <2>9, <2>10, <2>11, <2>12, <2>13 DEF IInv
<1>12. CASE op.kind = "export" /\ Fail
  <2>1. OpShape' /\ op'.k = 1 /\ op'.left = Gws /\ op'.kind = "retain"
    BY <1>1, <1>12, Fails DEF Instead
  <2>2. Shape'
    BY <1>1, <1>5, <1>6, <2>1, Unchanged, ShapeKept DEF Shuts
  <2>3. \A s \in Sessions : Spent(s) => Spent(s)'
    BY <1>5 DEF Spent
  <2> QED BY <1>5, <1>6, <1>7, <1>9, <1>12, <2>1, <2>2, <2>3, Retains
<1>13. CASE op.left = {g} /\ ContinueWith(late)
  <2>1. op.k + 1 \in DOMAIN Order[op.kind]
    BY <1>1, <1>2, Orders
  <2>2. OpShape' /\ op'.kind = op.kind /\ op'.k = op.k + 1 /\ op'.left = Gws
        /\ (~op'.err => ~op.err /\ ~late)
    BY <1>1, <1>2, <1>13, <2>1, ContinuesWith
  <2>3. Shape'
    BY <1>1, <1>5, <1>6, <2>2, Unchanged, ShapeKept DEF Shuts
  <2>4. /\ ~Free' /\ ~Runs' /\ ~Acquiring' /\ ~AtChannels' /\ op'.kind \notin {"exec", "quiesce"}
    BY <1>1, <1>2, <2>2, WhereChannels DEF Free, Runs, Acquiring, AtChannels, Ending
  <2>5. Closed' /\ sess'.serving = {}
    BY <1>6, <1>8, <1>13 DEF Closed
  <2>6. Capabilities'
    BY <2>4, <2>5 DEF Capabilities, Closed
  <2>7. Entrance'
    BY <1>6, <2>4 DEF Entrance
  <2>8. Machine'
    BY <1>9, <2>2, <2>4 DEF Machine, Acquiring
  <2>9. Released'
    <3>1. op'.kind = "retain" => ~AttachDone'
      BY DEF AttachDone
    <3> QED BY <1>6, <1>8, <2>2, <2>4, <2>5, <3>1 DEF Released
  <2>10. Leases'
    BY <1>5, <1>6, <2>4 DEF IInv, Leases, Spent, Acquiring
  <2>11. Pausing'
    <3>1. ASSUME op.kind = "pause", ~op'.err PROVE Nobody(Gws)'
      BY <1>5, <1>10, <1>13, <2>2, <3>1 DEF Nobody
    <3>2. op.kind = "pause" => op'.k = 3
      BY <1>1, <2>2
    <3> QED BY <2>2, <2>4, <3>1, <3>2 DEF Pausing, Acquiring
  <2>12. Ended'
    BY <2>4 DEF Ended, Acquiring
  <2> QED BY <1>7, <2>3, <2>6, <2>7, <2>8, <2>9, <2>10, <2>11, <2>12 DEF IInv
<1> QED BY <1>4, <1>11, <1>12, <1>13

\* A start or a resume goes on,
LEMMA AcquireGoesOn ==
  ASSUME IInv, Shape', Limits', Acquiring, op'.kind = op.kind, op'.k = op.k + 1,
         ~sess'.active, sess'.sid # 0, UNCHANGED <<ctl, req>>,
         \A s \in Sessions, g \in Gws : gate'[s][g].live => s = sess'.sid,
         \A r \in Requests : req[r].pc = "entered" => ~GateOf(r)'.live,
         \A s \in Sessions : s # sess'.sid => Spent(s)',
         op.k > 1 => sess'.leased, op.k > 2 => sess'.serving = Gws,
         op.k > 3 => sess'.vm = "running"
  PROVE  IInv'
<1>1. /\ ~Free' /\ ~Runs' /\ ~ChannelsDone' /\ ~AtChannels' /\ ~AttachDone'
      /\ op'.kind \in {"start", "resume"}
  BY DEF Free, Runs, Acquiring, ChannelsDone, AtChannels, AttachDone, Ending
<1>2. op'.k > 1 /\ op.k \in Nat /\ op.k > 0
  <2>1. op.k \in 1 .. 6
    BY Orders DEF IInv, Shape, OpShape, Acquiring, OpKinds
  <2> QED BY <2>1
<1>3. Capabilities' /\ Entrance' /\ Released'
  BY <1>1, <1>2 DEF Capabilities, Entrance, Released, Acquiring
<1>4. Machine'
  BY <1>1, <1>2 DEF Machine, Acquiring
<1>5. Leases' /\ Pausing' /\ Ended'
  BY <1>1, <1>2 DEF Leases, Pausing, Ended, Acquiring, Spent
<1> QED BY <1>3, <1>4, <1>5 DEF IInv

\* where only the Session and its lease change,
LEMMA AcquiresMore ==
  ASSUME IInv, Acquiring, op.k > 1, op.k < 6, Continue, SessShape', LeaseShape',
         ~sess'.active, sess'.sid = sess.sid, UNCHANGED <<now, ctl, loop, gate, req>>,
         \A s \in Sessions : s # sess.sid => lease'[s] = lease[s],
         sess'.serving = sess.serving \/ (op.k = 3 /\ sess'.serving = Gws),
         sess'.vm = sess.vm \/ sess'.vm = "running",
         op.k = 4 => sess'.vm = "running", op.k = 3 => sess'.serving = Gws,
         sess'.leased = sess.leased \/ sess'.leased, op.k = 2 => sess'.leased
  PROVE  IInv'
<1>1. OpShape /\ Shape /\ op.kind \in {"start", "resume"} /\ op.k \in 2 .. 5
  BY DEF IInv, Shape, OpShape, Acquiring
<1>2. op.k + 1 \in DOMAIN Order[op.kind]
  BY <1>1, Orders DEF OpKinds
<1>3. OpShape' /\ op'.kind = op.kind /\ op'.k = op.k + 1
  BY <1>1, <1>2, Continues DEF OpKinds
<1>4. Shape'
  BY <1>1, <1>3, Unchanged, ShapeKept
<1>5. Limits'
  BY SameLimits DEF IInv
<1>6. /\ sess.sid # 0 /\ (op.k > 2 => sess.leased) /\ (op.k > 3 => sess.serving = Gws)
      /\ op.k > 4 => sess.vm = "running"
  BY <1>1 DEF IInv, Entrance, Machine
<1>7. /\ sess'.leased
      /\ op.k > 2 => sess'.serving = Gws
      /\ op.k > 3 => sess'.vm = "running"
  BY <1>1, <1>6
<1>8. \A s \in Sessions, g \in Gws : gate'[s][g].live => s = sess'.sid
  BY DEF IInv, Capabilities
<1>9. \A r \in Requests : req[r].pc = "entered" => ~GateOf(r)'.live
  BY <1>1 DEF IInv, Machine, GateOf
<1>10. \A s \in Sessions : s # sess'.sid => Spent(s)'
  BY <1>1 DEF IInv, Leases, Spent
<1> QED BY <1>3, <1>4, <1>5, <1>6, <1>7, <1>8, <1>9, <1>10, AcquireGoesOn

LEMMA AcquireSteps ==
  ASSUME IInv, Register \/ Listen \/ Boot \/ StartAttachRelay PROVE IInv'
<1>1. SessShape /\ LeaseShape /\ OpShape /\ now + TTL \in Nat
  BY DEF IInv, Shape, ClockShape
<1>2. op.kind \in {"start", "resume"}
  BY <1>1, StepWhere DEF Register, Listen, Boot, StartAttachRelay, Where
<1>3. ~sess.active
  BY <1>2 DEF IInv, Entrance, Runs, Free
<1>4. CASE Register
  <2>1. /\ SessShape' /\ sess'.sid = sess.sid /\ ~sess'.active
        /\ sess'.serving = sess.serving /\ sess'.vm = sess.vm /\ sess'.leased
    <3>1. sess' = [sess EXCEPT !.active = FALSE, !.leased = TRUE]
      BY <1>4 DEF Register
    <3> QED BY <1>1, <3>1 DEF SessShape
  <2>2. LeaseShape' /\ \A s \in Sessions : s # sess.sid => lease'[s] = lease[s]
    BY <1>1, <1>4 DEF Register, LeaseShape
  <2>3. op.k = 2
    BY <1>1, <1>4, StepWhere DEF Register, Where
  <2> QED BY <1>2, <1>4, <2>1, <2>2, <2>3, AcquiresMore DEF Register, Acquiring
<1>5. CASE Listen
  <2>1. /\ SessShape' /\ sess'.sid = sess.sid /\ ~sess'.active
        /\ sess'.serving = Gws /\ sess'.vm = sess.vm /\ sess'.leased = sess.leased
    <3>1. sess' = [sess EXCEPT !.serving = Gws, !.active = FALSE]
      BY <1>5 DEF Listen
    <3> QED BY <1>1, <3>1 DEF SessShape
  <2>2. LeaseShape' /\ \A s \in Sessions : s # sess.sid => lease'[s] = lease[s]
    BY <1>1, <1>5 DEF Listen, LeaseShape
  <2>3. op.k = 3
    BY <1>1, <1>5, StepWhere DEF Listen, Where
  <2> QED BY <1>2, <1>5, <2>1, <2>2, <2>3, AcquiresMore DEF Listen, Acquiring
<1>6. CASE Boot
  <2>1. /\ SessShape' /\ sess'.sid = sess.sid /\ ~sess'.active
        /\ sess'.serving = sess.serving /\ sess'.vm = "running" /\ sess'.leased = sess.leased
    <3>1. sess' = [sess EXCEPT !.vm = "running"]
      BY <1>6 DEF Boot
    <3> QED BY <1>1, <1>3, <3>1 DEF SessShape
  <2>2. LeaseShape' /\ \A s \in Sessions : s # sess.sid => lease'[s] = lease[s]
    BY <1>1, <1>6 DEF Boot, LeaseShape
  <2>3. op.k = 4
    BY <1>1, <1>6, StepWhere DEF Boot, Where
  <2> QED BY <1>2, <1>6, <2>1, <2>2, <2>3, AcquiresMore DEF Boot, Acquiring
<1>7. CASE StartAttachRelay
  <2>1. /\ SessShape' /\ sess'.sid = sess.sid /\ ~sess'.active
        /\ sess'.serving = sess.serving /\ sess'.vm = sess.vm /\ sess'.leased = sess.leased
    <3>1. sess' = [sess EXCEPT !.relay = sess.sid] /\ sess.sid \in 0 .. MaxSessions
      BY <1>1, <1>7 DEF StartAttachRelay, SessShape
    <3> QED BY <1>1, <1>3, <3>1 DEF SessShape
  <2>2. LeaseShape' /\ \A s \in Sessions : s # sess.sid => lease'[s] = lease[s]
    BY <1>1, <1>7 DEF StartAttachRelay, LeaseShape
  <2>3. op.k = 5
    BY <1>1, <1>7, StepWhere DEF StartAttachRelay, Where
  <2> QED BY <1>2, <1>7, <2>1, <2>2, <2>3, AcquiresMore DEF StartAttachRelay, Acquiring
<1> QED BY <1>4, <1>5, <1>6, <1>7

\* ends in a session that runs,
LEMMA EnableStep == ASSUME IInv, Enable PROVE IInv'
<1>1. SessShape /\ LeaseShape /\ OpShape /\ GateShape /\ ClockShape
  BY DEF IInv, Shape
<1>2. op.kind \in {"start", "resume"} /\ op.k = 6
  BY <1>1, StepWhere DEF Enable, Where
<1>3. /\ sess.sid # 0 /\ sess.vm = "running" /\ sess.serving = Gws /\ sess.leased
      /\ sess.sid \in Sessions
      /\ \A s \in Sessions : s # sess.sid => Spent(s)
  BY <1>1, <1>2 DEF IInv, Entrance, Machine, Leases, Acquiring, SessShape, Sessions
<1>4. SessShape' /\ sess'.sid = sess.sid /\ Serves'
  <2>1. sess' = [sess EXCEPT !.active = TRUE]
    BY DEF Enable
  <2> QED BY <1>1, <1>3, <2>1 DEF SessShape, Serves
<1>5. LeaseShape' /\ \A s \in Sessions : s # sess.sid => lease'[s] = lease[s]
  BY <1>1 DEF Enable, LeaseShape
<1>6. OpShape' /\ op'.kind = "none"
  BY Over DEF Enable
<1>7. ClockShape' /\ ctl'.state = "running"
  <2>1. gate[sess.sid]["model"].exp \in Nat
    <3>1. gate[sess.sid]["model"] \in Gate
      BY <1>1, <1>3 DEF GateShape
    <3> QED BY <3>1 DEF Gate
  <2>2. DOMAIN loop' = LoopFields /\ loop'.at = loop.at
    BY <1>1 DEF Enable, Notify, ClockShape, LoopFields
  <2> QED BY <1>1, <2>1, <2>2 DEF Enable, ClockShape, States
<1>8. UNCHANGED <<gate, req>>
  BY DEF Enable
<1>9. Shape'
  BY <1>4, <1>5, <1>6, <1>7, <1>8, Unchanged, ShapeKept DEF IInv
<1>10. Limits'
  BY <1>8, SameLimits DEF IInv
<1>11. Free' /\ Runs' /\ ~Acquiring' /\ ~ChannelsDone' /\ ~AtChannels' /\ ~AttachDone'
  BY <1>6, <1>7 DEF Free, Runs, Live, Acquiring, ChannelsDone, AtChannels, AttachDone, Ending
<1>12. Capabilities' /\ Entrance' /\ Machine' /\ Released'
  BY <1>3, <1>4, <1>6, <1>7, <1>8, <1>11
     DEF IInv, Capabilities, Entrance, Machine, Released, Runs
<1>13. Leases' /\ Pausing' /\ Ended'
  BY <1>3, <1>4, <1>5, <1>6, <1>7, <1>11 DEF Leases, Pausing, Ended, Acquiring, Spent, Runs
<1> QED BY <1>9, <1>10, <1>12, <1>13 DEF IInv

\* or gives up.
LEMMA AcquireFailsStep == ASSUME IInv, AcquireFails PROVE IInv'
<1>1. Shape /\ SessShape /\ OpShape /\ op.kind \in {"start", "resume"}
  BY DEF IInv, Shape, AcquireFails, Acquires
<1>2. ~sess.active
  BY <1>1 DEF IInv, Entrance, Runs, Free
<1>3. SessShape' /\ sess'.sid = sess.sid /\ ~sess'.active
  <2>1. \/ UNCHANGED sess
        \/ \E some \in SUBSET Gws : sess' = [sess EXCEPT !.serving = some]
        \/ sess' = [sess EXCEPT !.vm = "running"]
    BY DEF AcquireFails
  <2> QED BY <1>1, <1>2, <2>1 DEF SessShape
<1>4. UNCHANGED <<now, ctl, loop, lease, gate, req>> /\ Fail
  BY DEF AcquireFails
<1>5. OpShape' /\ op'.k = 1 /\ op'.kind \in {"fail", "abandon"}
  BY <1>1, <1>4, Fails DEF Instead
<1>6. Shape' /\ Limits'
  BY <1>1, <1>3, <1>4, <1>5, Unchanged, ShapeKept, SameLimits DEF IInv
<1>7. ~Free' /\ ~Runs' /\ ~Acquiring' /\ ~ChannelsDone' /\ ~AtChannels' /\ ~AttachDone'
  BY <1>5, WhereChannels DEF Free, Runs, Acquiring, ChannelsDone, AtChannels, AttachDone
<1>8. Capabilities' /\ Entrance' /\ Released'
  BY <1>3, <1>4, <1>5, <1>7 DEF IInv, Capabilities, Entrance, Released
<1>9. Machine'
  BY <1>1, <1>4, <1>5, <1>7 DEF IInv, Machine, GateOf
<1>10. Leases' /\ Pausing' /\ Ended'
  BY <1>3, <1>4, <1>5, <1>7 DEF IInv, Leases, Pausing, Ended, Spent
<1> QED BY <1>6, <1>8, <1>9, <1>10 DEF IInv

\* How it starts: with a session of its own,
LEMMA Gates ==
  ASSUME NEW exp \in Nat
  PROVE  /\ NoGate \in Gate /\ ~NoGate.live /\ NoGate.slots = 0 /\ NoGate.admitted = 0
         /\ NoGate.used = 0
         /\ \A G : G = [NoGate EXCEPT !.live = TRUE, !.exp = exp] =>
              G \in Gate /\ G.slots = 0 /\ G.admitted = 0 /\ G.used = 0
<1>1. /\ NoGate \in Gate /\ ~NoGate.live /\ NoGate.slots = 0 /\ NoGate.admitted = 0
      /\ NoGate.used = 0
  <2>1. 0 \in Nat
    OBVIOUS
  <2> QED BY <2>1 DEF NoGate, Gate
<1> SUFFICES ASSUME NEW G, G = [NoGate EXCEPT !.live = TRUE, !.exp = exp]
             PROVE  G \in Gate /\ G.slots = 0 /\ G.admitted = 0 /\ G.used = 0
  BY <1>1
<1> QED BY <1>1 DEF Gate

LEMMA ActivateStep == ASSUME IInv, Activate PROVE IInv'
<1>1. SessShape /\ OpShape /\ GateShape /\ Shape /\ now + TTL \in Nat
  BY DEF IInv, Shape, ClockShape
<1>2. op.kind \in {"start", "resume"} /\ op.k = 1 /\ Acquiring
  BY <1>1, StepWhere DEF Activate, Where, Acquiring
<1>3. PICK t : t = sess.sid + 1
  OBVIOUS
<1>4. /\ t \in Sessions /\ t \in 0 .. MaxSessions /\ t # 0 /\ t # sess.sid
      /\ \A s \in 0 .. MaxSessions : s <= sess.sid => s # t /\ s <= t
  BY <1>1, <1>3 DEF Activate, SessShape, Sessions
<1>5. SessShape' /\ sess'.sid = t /\ sess'.active = sess.active
  BY <1>1, <1>3, <1>4 DEF Activate, SessShape
<1>6. ~sess.active /\ Closed /\ \A s \in Sessions : Spent(s)
  BY <1>2 DEF IInv, Entrance, Capabilities, Leases, Runs, Free
<1>7. PICK G : G = [NoGate EXCEPT !.live = TRUE, !.exp = now + TTL]
  OBVIOUS
<1>8. /\ NoGate \in Gate /\ ~NoGate.live /\ NoGate.slots = 0 /\ NoGate.admitted = 0
      /\ NoGate.used = 0
      /\ G \in Gate /\ G.slots = 0 /\ G.admitted = 0 /\ G.used = 0
  BY <1>1, <1>7, Gates
<1>9. gate' = [s \in Sessions |->
                IF s = t THEN [g \in Gws |-> G]
                ELSE [g \in Gws |-> IF Forgotten(s, g) THEN NoGate ELSE gate[s][g]]]
  BY <1>3, <1>7 DEF Activate
<1>10. GateShape'
  BY <1>1, <1>8, <1>9 DEF GateShape
<1>11. \A s \in Sessions, g \in Gws :
         gate'[s][g] = IF s = t THEN G ELSE IF Forgotten(s, g) THEN NoGate ELSE gate[s][g]
  BY <1>9
<1>12. UNCHANGED <<now, ctl, loop, lease, req>>
  BY DEF Activate
<1>13. /\ OpShape' /\ op'.kind = op.kind /\ op'.k = op.k + 1
  <2>1. op.k + 1 \in DOMAIN Order[op.kind]
    BY <1>2, Orders DEF OpKinds
  <2> QED BY <1>1, <1>2, <2>1, Continues DEF Activate, OpKinds
<1>14. \A r \in Requests : req[r].pc # "none" => req[r].sid \in Sessions /\ req[r].sid # t
                                                 /\ req[r].sid <= t /\ req[r].gw \in Gws
  BY <1>1, <1>4 DEF Shape, ReqShape, Sessions
<1>15. Shape'
  <2>1. ReqShape'
    BY <1>1, <1>5, <1>12, <1>14 DEF Shape, ReqShape
  <2> QED BY <1>1, <1>5, <1>10, <1>12, <1>13, <2>1, Unchanged DEF Shape
<1>16. Limits'
  <2>1. ASSUME NEW s \in Sessions, NEW g \in Gws
        PROVE  /\ gate'[s][g].slots = Cardinality(Admitted(s, g)')
               /\ gate'[s][g].admitted <= gate'[s][g].used /\ gate'[s][g].used <= MaxRequests
    <3>1. Admitted(s, g)' = Admitted(s, g)
      BY <1>12 DEF Admitted
    <3>2. s = t \/ Forgotten(s, g) => Admitted(s, g) = {}
      BY <1>14 DEF Admitted, Forgotten
    <3>3. CASE s = t
      BY <1>8, <1>11, <3>1, <3>2, <3>3, FiniteAdmitted, FS_EmptySet
    <3>4. CASE s # t /\ Forgotten(s, g)
      BY <1>8, <1>11, <3>1, <3>2, <3>4, FiniteAdmitted, FS_EmptySet
    <3>5. CASE s # t /\ ~Forgotten(s, g)
      BY <1>11, <3>1, <3>5 DEF IInv, Limits
    <3> QED BY <3>3, <3>4, <3>5
  <2> QED BY <2>1 DEF Limits
<1>17. \A s \in Sessions, g \in Gws : gate'[s][g].live => s = t
  BY <1>6, <1>8, <1>11 DEF Closed
<1>18. \A r \in Requests : req[r].pc = "entered" => ~GateOf(r)'.live
  <2>1. \A r \in Requests : GateOf(r)' = gate'[req[r].sid][req[r].gw]
    BY <1>12 DEF GateOf
  <2> QED BY <1>14, <1>17, <2>1
<1>19. \A s \in Sessions : Spent(s)'
  BY <1>6, <1>12 DEF Spent
<1>20. ~(op.k > 1) /\ ~(op.k > 2) /\ ~(op.k > 3)
  BY <1>2
<1> QED BY <1>2, <1>4, <1>5, <1>6, <1>12, <1>13, <1>15, <1>16, <1>17, <1>18, <1>19, <1>20,
           AcquireGoesOn

\* or not at all.
LEMMA ActivateFailsStep == ASSUME IInv, ActivateFails PROVE IInv'
<1>1. Shape /\ OpShape /\ ClockShape /\ Limits
  BY DEF IInv, Shape
<1>2. op.kind \in {"start", "resume"} /\ op.k = 1 /\ Acquiring
  BY <1>1, StepWhere DEF ActivateFails, Where, Acquiring
<1>3. UNCHANGED <<now, sess, lease, gate, req>> /\ op' = NoOp
  BY DEF ActivateFails
<1>4. OpShape' /\ op'.kind = "none"
  BY <1>3, Over
<1>5. \/ op.kind = "resume" /\ ctl.state = "paused" /\ UNCHANGED <<ctl, loop>>
      \/ ctl' = [ctl EXCEPT !.state = "failed"] /\ loop' = [loop EXCEPT !.pc = "ended"]
  BY <1>2 DEF ActivateFails, IInv, Pausing
<1>6. ClockShape' /\ (ctl'.state = "failed" \/ (op.kind = "resume" /\ ctl'.state = "paused"))
  <2>1. CASE op.kind = "resume" /\ ctl.state = "paused" /\ UNCHANGED <<ctl, loop>>
    BY <1>1, <1>3, <2>1 DEF ClockShape
  <2>2. CASE ctl' = [ctl EXCEPT !.state = "failed"] /\ loop' = [loop EXCEPT !.pc = "ended"]
    <3>1. DOMAIN loop' = LoopFields /\ loop'.at = loop.at
      BY <1>1, <2>2 DEF ClockShape, LoopFields
    <3> QED BY <1>1, <1>3, <2>2, <3>1 DEF ClockShape, States
  <2> QED BY <1>5, <2>1, <2>2
<1>7. Shape' /\ Limits'
  BY <1>1, <1>3, <1>4, <1>6, Unchanged, ShapeKept, SameLimits
<1>8. ~sess.active /\ Closed
  BY <1>2 DEF IInv, Entrance, Capabilities, Runs, Free
<1>9. Free' /\ ~Runs' /\ ~Acquiring' /\ ~ChannelsDone' /\ ~AtChannels' /\ ~AttachDone'
  BY <1>3, <1>4, <1>6, <1>8 DEF Free, Runs, Live, Unaudited, Acquiring, ChannelsDone, AtChannels,
                                AttachDone, Ending
<1>10. Capabilities' /\ Entrance' /\ Machine' /\ Released'
  BY <1>3, <1>4, <1>8, <1>9 DEF Capabilities, Closed, Entrance, Machine, Released
<1>11. Leases' /\ Pausing' /\ Ended'
  BY <1>2, <1>3, <1>4, <1>6, <1>9 DEF IInv, Leases, Pausing, Ended, Acquiring, Nobody, Spent
<1> QED BY <1>7, <1>10, <1>11 DEF IInv

LEMMA ExecStep == ASSUME IInv, ExecReturns PROVE IInv'
<1>1. Shape /\ OpShape /\ Limits
  BY DEF IInv, Shape
<1>2. op.kind = "exec"
  BY <1>1, StepWhere DEF ExecReturns, Where
<1>3. UNCHANGED <<now, ctl, loop, sess, lease, gate, req>> /\ op' = NoOp
  BY DEF ExecReturns
<1>4. OpShape' /\ op'.kind = "none"
  BY <1>3, Over
<1>5. Shape' /\ Limits'
  BY <1>1, <1>3, <1>4, Unchanged, ShapeKept, SameLimits
<1>6. /\ ctl.state = "running" /\ Serves /\ sess.sid # 0
      /\ \A s \in Sessions : s # sess.sid => Spent(s)
      /\ \A s \in Sessions, g \in Gws : gate[s][g].live => s = sess.sid
  BY <1>2 DEF IInv, Machine, Serves, Entrance, Leases, Capabilities
<1>7. Free' /\ Runs' /\ ~Acquiring' /\ ~ChannelsDone' /\ ~AtChannels' /\ ~AttachDone'
  BY <1>3, <1>4, <1>6 DEF Free, Runs, Live, Acquiring, ChannelsDone, AtChannels, AttachDone,
                          Ending
<1>8. Capabilities' /\ Entrance' /\ Machine' /\ Released'
  BY <1>3, <1>4, <1>6, <1>7 DEF Capabilities, Entrance, Machine, Serves, Released, Runs
<1>9. Leases' /\ Pausing' /\ Ended'
  BY <1>3, <1>4, <1>6, <1>7 DEF Leases, Pausing, Ended, Acquiring, Spent
<1> QED BY <1>5, <1>8, <1>9 DEF IInv

\* The export of a dev session closes the egress, or leaves the session paused,
\* without authority or as it is.
LEMMA QuiesceStep == ASSUME IInv, Quiesce PROVE IInv'
<1>1. Shape /\ OpShape /\ ClockShape /\ SessShape
  BY DEF IInv, Shape
<1>2. op.kind = "quiesce" /\ Dev
  <2>1. op.kind = "quiesce"
    BY <1>1, StepWhere DEF Quiesce, Where
  <2> QED BY <2>1 DEF IInv, Entrance
<1>3. UNCHANGED <<now, lease, gate, req>> /\ Limits' /\ Closed' = Closed
  <2>1. UNCHANGED <<now, lease, gate, req>>
    BY DEF Quiesce
  <2> QED BY <2>1, SameLimits DEF IInv, Closed
<1>4. /\ Runs = Live /\ (~Live => Closed) /\ (Live => Serves)
      /\ sess.active => Live /\ sess.sid # 0
      /\ \A s \in Sessions, g \in Gws : gate[s][g].live => s = sess.sid
      /\ \A s \in Sessions : s # sess.sid => Spent(s)
  <2>1. /\ Runs = Live /\ (~Live => Closed) /\ (Live => Serves)
        /\ \A s \in Sessions, g \in Gws : gate[s][g].live => s = sess.sid
    BY <1>2 DEF Runs, IInv, Capabilities, Machine, Live, Unaudited
  <2>2. sess.active => Live /\ sess.sid # 0
    BY <1>2, <2>1 DEF IInv, Entrance
  <2> QED BY <2>1, <2>2 DEF IInv, Leases
<1>5. CASE op' = Begin("export", FALSE) /\ UNCHANGED <<ctl, changed, loop, sess>>
  <2>1. ClockShape' /\ ctl'.state = ctl.state
    BY <1>1, <1>3, <1>5 DEF ClockShape
  <2> QED BY <1>2, <1>3, <1>5, <2>1, OpBegins
<1>6. ASSUME sess' = [sess EXCEPT !.active = FALSE]
      PROVE  /\ SessShape' /\ sess'.sid = sess.sid /\ ~sess'.active /\ sess'.vm = sess.vm
             /\ sess'.serving = sess.serving
  BY <1>1, <1>6 DEF SessShape
<1>7. CASE /\ sess.vm = "running" /\ op' = [Begin("pause", FALSE) EXCEPT !.err = TRUE]
           /\ sess' = [sess EXCEPT !.active = FALSE] /\ UNCHANGED <<ctl, changed, loop>>
  <2>1. OpShape' /\ op'.kind = "pause" /\ op'.k = 1 /\ op'.left = Gws /\ op'.err
    <3>1. 1 \in DOMAIN Order["pause"]
      BY Orders DEF OpKinds
    <3>2. op' = [kind |-> "pause", k |-> 1, left |-> Gws, err |-> TRUE, loop |-> FALSE]
      BY <1>7 DEF Begin
    <3> QED BY <3>1, <3>2, Opened DEF OpShape, OpKinds
  <2>2. Shape'
    BY <1>1, <1>3, <1>6, <1>7, <2>1, Unchanged, ShapeKept
  <2>3. ~AtChannels' /\ ~ChannelsDone' /\ ~AttachDone' /\ ~Free' /\ ~Runs' /\ ~Acquiring'
    BY <2>1, WhereChannels
       DEF AtChannels, ChannelsDone, AttachDone, Free, Runs, Acquiring, Ending
  <2>4. Capabilities' /\ Entrance' /\ Machine' /\ Released'
    BY <1>3, <1>4, <1>6, <1>7, <2>1, <2>3 DEF Capabilities, Entrance, Machine, Released
  <2>5. Leases'
    BY <1>3, <1>4, <1>6, <1>7, <2>3 DEF Leases, Spent
  <2>6. Pausing' /\ Ended'
    BY <2>1, <2>3 DEF Pausing, Ended
  <2> QED BY <1>3, <2>2, <2>4, <2>5, <2>6 DEF IInv
<1>8. ASSUME Finish("failed"), SessShape', sess'.sid = sess.sid, sess'.active => UNCHANGED sess,
             ~sess'.active => ~Live
      PROVE  IInv'
  <2>1. ClockShape' /\ OpShape' /\ op'.kind = "none" /\ ctl'.state = "failed"
    BY <1>1, <1>3, <1>8, Finishes DEF States
  <2>2. Shape'
    BY <1>1, <1>3, <1>8, <2>1, Unchanged, ShapeKept
  <2>3. /\ Free' /\ ~AtChannels' /\ ~ChannelsDone' /\ ~AttachDone' /\ ~Acquiring'
        /\ Runs' = Live' /\ Live' = sess'.active
    BY <1>2, <1>8, <2>1 DEF AtChannels, ChannelsDone, AttachDone, Free, Runs, Live, Unaudited,
                            Acquiring, Ending, SessShape
  <2>4. Capabilities' /\ Entrance' /\ Released'
    BY <1>3, <1>4, <1>8, <2>1, <2>3 DEF Capabilities, Entrance, Released
  <2>5. Machine'
    BY <1>4, <1>8, <2>1, <2>3 DEF Machine, Serves
  <2>6. Leases' /\ Pausing' /\ Ended'
    BY <1>3, <1>4, <1>8, <2>1, <2>3 DEF Leases, Pausing, Ended, Spent
  <2> QED BY <1>3, <2>2, <2>4, <2>5, <2>6 DEF IInv
<1>9. CASE /\ ~sess.leased \/ sess.vm # "running"
           /\ sess' = [sess EXCEPT !.active = FALSE] /\ Finish("failed")
  BY <1>4, <1>6, <1>8, <1>9 DEF Serves
<1>10. CASE UNCHANGED sess /\ Finish("failed")
  BY <1>1, <1>4, <1>8, <1>10, Unchanged DEF Serves
<1> QED BY <1>5, <1>7, <1>9, <1>10 DEF Quiesce

-----------------------------------------------------------------------------
(* The theorems.                                                              *)

LEMMA InitIInv == ASSUME Init PROVE IInv
<1>1. OpShape /\ op.kind = "start" /\ op.k = 1 /\ op.left = Gws
  <2>1. 1 \in DOMAIN Order["start"]
    BY Orders DEF OpKinds
  <2> QED BY <2>1 DEF Init, Begin, OpShape, OpKinds
<1>2. 0 \in Nat /\ 0 \in 0 .. MaxSessions
  OBVIOUS
<1>3. ClockShape /\ SessShape /\ LeaseShape
  BY <1>2 DEF Init, ClockShape, SessShape, LeaseShape, States, LoopFields
<1>4. GateShape /\ \A s \in Sessions, g \in Gws : gate[s][g] = NoGate
  BY Gates DEF Init, GateShape
<1>5. ReqShape /\ \A r \in Requests : req[r].pc = "none"
  BY <1>2 DEF Init, ReqShape, NoRequest
<1>6. /\ sess.sid = 0 /\ ~sess.active /\ \A s \in Sessions : lease[s].state = "none"
      /\ ctl.state = "starting"
  BY DEF Init
<1>7. Closed
  BY <1>4, Gates DEF Closed
<1>8. Limits
  <2>1. \A s, g : Admitted(s, g) = {}
    BY <1>5 DEF Admitted
  <2>2. NoGate.slots = 0 /\ NoGate.admitted = 0 /\ NoGate.used = 0
    BY Gates
  <2> QED BY <1>4, <2>1, <2>2, FiniteAdmitted, FS_EmptySet DEF Limits
<1>9. ~Free /\ op.kind # "quiesce" /\ ~Runs /\ ~ChannelsDone /\ ~AtChannels /\ ~AttachDone
  BY <1>1 DEF Free, Runs, ChannelsDone, AtChannels, AttachDone, Ending
<1>10. Capabilities /\ Entrance /\ Machine /\ Released
  BY <1>1, <1>5, <1>6, <1>7, <1>9
     DEF Capabilities, Closed, Entrance, Machine, Released, Acquiring
<1>11. Leases /\ Pausing /\ Ended
  BY <1>1, <1>6, <1>9 DEF Leases, Pausing, Ended, Spent
<1> QED BY <1>1, <1>3, <1>4, <1>5, <1>8, <1>10, <1>11 DEF IInv, Shape

LEMMA StepIInv == ASSUME IInv, [Next]_vars PROVE IInv'
<1>1. CASE OpStep
  BY <1>1, ActivateStep, ActivateFailsStep, AcquireSteps, EnableStep, AcquireFailsStep,
     AttachStep, GatewayStep, LeaseStep, QuiesceStep, ThawStep, StopStep, RemoveStep, ExecStep DEF OpStep
<1>2. CASE UNCHANGED vars
  <2>1. ClockShape'
    BY <1>2 DEF vars, IInv, Shape, ClockShape
  <2> QED BY <1>2, <2>1, LoopMoves DEF vars
<1> QED BY <1>1, <1>2, LoopStepKeeps, TickStep, RequestedStep, TouchStep, ArriveStep,
           AdmitStep, RespondStep, AuditStep DEF Next, Requested

LEMMA Inductive == Spec => []IInv
BY InitIInv, StepIInv, PTL DEF Spec

(* No gate has more requests under way than it holds slots for, nor has       *)
(* admitted more than its capability allows, for any number of requests and   *)
(* gateways and whatever fails.                                               *)
THEOREM Quotas == Spec => []LimitsKept
<1>1. IInv => LimitsKept
  <2> SUFFICES ASSUME IInv, NEW s \in Sessions, NEW g \in Gws
               PROVE  /\ gate[s][g].slots =
                           Cardinality({r \in Requests : /\ req[r].pc = "admitted"
                                                         /\ req[r].sid = s /\ req[r].gw = g})
                      /\ gate[s][g].admitted <= MaxRequests
    BY DEF LimitsKept
  <2>1. /\ gate[s][g].slots = Cardinality(Admitted(s, g))
        /\ gate[s][g].admitted <= gate[s][g].used /\ gate[s][g].used <= MaxRequests
    BY DEF IInv, Limits
  <2>2. gate[s][g].admitted \in Nat /\ gate[s][g].used \in Nat
    <3>1. gate[s][g] \in Gate
      BY DEF IInv, Shape, GateShape
    <3> QED BY <3>1 DEF Gate
  <2>3. Admitted(s, g) = {r \in Requests : /\ req[r].pc = "admitted"
                                           /\ req[r].sid = s /\ req[r].gw = g}
    BY DEF Admitted
  <2> QED BY <2>1, <2>2, <2>3
<1> QED BY <1>1, Inductive, PTL

(* After a pause nobody is under way and no lease can be used, after every    *)
(* end no listener, relay or running VM is left, and outside a running        *)
(* session no capability admits anything, unless the export of a dev session  *)
(* has failed for want of its audit record.                                   *)
THEOREM Quiet == Spec => []QuietAfterwards
<1>1. IInv => QuietAfterwards
  <2> SUFFICES ASSUME IInv PROVE QuietAfterwards
    OBVIOUS
  <2>1. ASSUME Free, ctl.state = "paused", NEW r \in Requests PROVE req[r].pc = "none"
    BY <2>1 DEF IInv, Shape, ReqShape, Pausing, Nobody
  <2>2. ASSUME Free, ctl.state = "paused", NEW s \in Sessions
        PROVE  lease[s].state \in {"none", "revoked"}
    BY <2>2 DEF IInv, Pausing, Spent
  <2>3. ASSUME Free, ctl.state \in {"paused", "exported", "destroyed"}
        PROVE  sess.serving = {} /\ sess.relay = 0 /\ sess.vm # "running"
    BY <2>3 DEF IInv, Ended
  <2>4. ASSUME Free, ~Live, NEW s \in Sessions, NEW g \in Gws
        PROVE  ~gate[s][g].live
    BY <2>4 DEF IInv, Capabilities, Closed
  <2> QED BY <2>1, <2>2, <2>3, <2>4 DEF QuietAfterwards
<1> QED BY <1>1, Inductive, PTL

\* Only Gate.Admit lets a request through.
LEMMA OnlyAdmit ==
  ASSUME Shape, [Next]_vars, NEW r \in Requests, req[r].pc = "entered", req'[r].pc = "admitted"
  PROVE  Admit(r)
<1>1. req' # req
  OBVIOUS
<1>2. PICK q \in Requests : \/ \E g \in Gws : Arrive(q, g)
                            \/ Admit(q) \/ Respond(q) \/ Audit(q) \/ RevokeOnAuditFailure(q)
  <2>1. ~UNCHANGED vars /\ ~Tick
    BY <1>1 DEF vars, Tick
  <2>2. ~OpStep
    BY <1>1 DEF OpStep, Activate, ActivateFails, Register, Listen, Boot, StartAttachRelay,
                Enable, AcquireFails, StopAttach, StopGateway, RevokeLease, Quiesce,
                Thaw, StopVM, RemoveVM, ExecReturns
  <2>3. ~LoopStep
    BY <1>1 DEF LoopStep, Arm, DeadlineChanged, ExpiryFires, IdleFires, Fire, PauseIfDue,
                Shutdown
  <2>4. ~(PauseRequest \/ ResumeRequest \/ ExportRequest \/ DestroyRequest \/ Heartbeat \/ Exec)
    BY <1>1 DEF PauseRequest, ResumeRequest, ExportRequest, DestroyRequest, Take, Heartbeat,
                Exec
  <2> QED BY <2>1, <2>2, <2>3, <2>4 DEF Next
<1>3. req \in [Requests -> [pc : {"none", "entered", "admitted", "audit", "revoke"},
                            gw : Gws \cup {""}, sid : 0 .. MaxSessions]]
  BY DEF Shape, ReqShape
<1>4. q = r
  <2>1. q # r => req'[r] = req[r]
    BY <1>2, <1>3 DEF Arrive, Admit, Respond, Audit, RevokeOnAuditFailure
  <2> QED BY <2>1
<1> QED BY <1>2, <1>4 DEF Arrive, Respond, Audit, RevokeOnAuditFailure

(* A request that has passed the wrapper is admitted only while its own       *)
(* session is the current one (and runs, or was left as by an export without  *)
(* its audit record), before the expiry and with the VM running,              *)
(* however far an operation that ends the session has come meanwhile.         *)
THEOREM InTime == Spec => AdmittedInTime
<1>1. ASSUME IInv, [Next]_vars, NEW r \in Requests,
             req[r].pc = "entered", req'[r].pc = "admitted"
      PROVE  /\ req[r].sid = sess.sid /\ now < gate[req[r].sid][req[r].gw].exp
             /\ sess.vm = "running" /\ (Free => Live)
  <2> DEFINE G == GateOf(r)
  <2>1. Admit(r) /\ Shape
    BY <1>1, OnlyAdmit DEF IInv
  <2>2. /\ req[r].sid \in Sessions /\ req[r].gw \in Gws /\ G \in Gate
        /\ G = gate[req[r].sid][req[r].gw]
    BY <1>1, <2>1, GateIs
  <2>3. G.live /\ ~(now >= G.exp)
    <3>1. req[r].pc = "entered"
      BY <1>1
    <3>2. req'[r].pc # "audit"
      BY <1>1
    <3>3. req' = [req EXCEPT ![r].pc = "audit"] => req'[r].pc = "audit"
      BY <2>1 DEF Shape, ReqShape
    <3> QED BY <2>1, <3>2, <3>3 DEF Admit
  <2>4. now < G.exp
    BY <2>1, <2>2, <2>3 DEF Shape, ClockShape, Gate
  <2>5. ~Closed /\ req[r].sid = sess.sid
    BY <1>1, <2>2, <2>3 DEF IInv, Capabilities, Closed
  <2>6. Free => Live
    BY <1>1, <2>5 DEF IInv, Capabilities
  <2>7. sess.vm = "running"
    <3>1. CASE op.kind = "none"
      BY <1>1, <2>6, <3>1 DEF IInv, Machine, Serves, Runs, Free
    <3>2. CASE op.kind \in {"exec", "pause", "export", "retain", "destroy"}
      BY <1>1, <2>5, <3>2 DEF IInv, Machine, Serves
    <3>4. CASE op.kind = "quiesce"
      BY <1>1, <2>5, <3>4 DEF IInv, Capabilities, Machine, Serves, Runs
    <3>3. op.kind \notin {"start", "resume", "fail", "abandon"}
      BY <1>1, <2>3 DEF IInv, Machine
    <3> QED BY <2>1, <3>1, <3>2, <3>3, <3>4 DEF Shape, OpShape, OpKinds
  <2> QED BY <2>2, <2>4, <2>5, <2>6, <2>7
<1>2. IInv /\ [Next]_vars =>
        [\A r \in Requests :
           req[r].pc = "entered" /\ req'[r].pc = "admitted" =>
             /\ req[r].sid = sess.sid /\ now < gate[req[r].sid][req[r].gw].exp
             /\ sess.vm = "running" /\ (Free => Live)]_vars
  BY <1>1
<1> QED BY <1>2, Inductive, PTL DEF Spec, AdmittedInTime

(* The main loop never pauses a session before one of its deadlines, whatever *)
(* moved the deadlines since the timer was armed.                             *)
THEOREM OnlyWhenDue == Spec => NoEarlyPause
<1>1. ASSUME IInv, [Next]_vars, Free, op'.kind = "pause", op'.loop PROVE now >= Deadline
  <2>1. /\ now \in Nat /\ loop.at \in Nat /\ loop.at <= now
        /\ ctl.expiresAt \in Nat /\ ctl.lastActivity \in Nat
    BY <1>1 DEF IInv, Shape, ClockShape
  <2>2. op.kind = "none" /\ OpShape
    BY <1>1 DEF Free, IInv, Shape
  <2>3. ~OpStep
    <3>1. Step = "none"
      BY <1>1 DEF Step
    <3> QED BY <2>2, <3>1 DEF OpStep, Activate, ActivateFails, Register, Listen, Boot,
                StartAttachRelay, Enable, AcquireFails, Acquires, StopAttach, StopGateway,
                RevokeLease, Quiesce, Thaw, StopVM, RemoveVM, ExecReturns
  <2>4. op' # op
    BY <1>1, <2>2
  <2>5. ~\E r \in Requests : \/ \E g \in Gws : Arrive(r, g)
                             \/ Admit(r) \/ Respond(r) \/ Audit(r) \/ RevokeOnAuditFailure(r)
    BY <2>4 DEF Arrive, Admit, Respond, Audit, RevokeOnAuditFailure
  <2>6. ~(PauseRequest \/ ResumeRequest \/ ExportRequest \/ DestroyRequest \/ Heartbeat \/ Exec)
    BY <1>1, <2>4 DEF PauseRequest, ResumeRequest, ExportRequest, DestroyRequest, Take,
                      Heartbeat, Exec, Begin
  <2>7. ~(Arm \/ DeadlineChanged \/ ExpiryFires \/ IdleFires \/ Shutdown \/ Tick)
        /\ ~UNCHANGED vars
    BY <1>1, <2>4 DEF Arm, DeadlineChanged, ExpiryFires, IdleFires, Fire, Shutdown, Begin,
                      Tick, vars
  <2>8. PauseIfDue
    BY <1>1, <2>3, <2>5, <2>6, <2>7 DEF Next, LoopStep
  <2>9. Due
    BY <2>4, <2>8 DEF PauseIfDue
  <2>10. loop.at >= ctl.expiresAt \/ loop.at >= ctl.lastActivity + Idle
    BY <2>9 DEF Due
  <2> QED BY <2>1, <2>10 DEF Deadline
<1>2. IInv /\ [Next]_vars =>
        [Free /\ op'.kind = "pause" /\ op'.loop => now >= Deadline]_vars
  BY <1>1
<1> QED BY <1>2, Inductive, PTL DEF Spec, NoEarlyPause
=============================================================================
