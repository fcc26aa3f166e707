--------------------------- MODULE SessionControl ---------------------------
(***************************************************************************)
(* The authority an Agent Session holds while its VM runs, and who takes   *)
(* it away: the controlledSession with its mutex and deadline revision     *)
(* (internal/cli/approval_control.go), the main loop with the two timers   *)
(* (internal/cli/supervisor.go), the lease (internal/lease/lease.go), the  *)
(* gateways of a session with their admission gates                        *)
(* (internal/session/session.go, internal/modelgateway/gateway.go,         *)
(* internal/capability/capability.go) and the guest requests that are on   *)
(* their way through them.                                                 *)
(*                                                                         *)
(* An operation that holds the mutex goes through the steps of Order, with *)
(* requests, timers and the clock in between.  Supervisor models the same  *)
(* operations as single steps and what becomes of the VM afterwards.       *)
(***************************************************************************)
EXTENDS Naturals, FiniteSets, Sequences

CONSTANTS Gws,            \* gateways of a session
          Dev,            \* mode "dev": an export first closes the direct egress
          Requests,       \* guest requests that may be under way at a time
          TTL, Idle,      \* lifetime and idle timeout of a session
          MaxRequests,    \* Capability.MaxRequests
          MaxConcurrent,  \* Capability.MaxConcurrent
          MaxSessions,    \* bound on Agent Sessions of the VM
          MaxTime,        \* bound on the clock
          MaxFaults       \* bound on failing operations

ASSUME SessionAssumption ==
  /\ IsFiniteSet(Requests) /\ Dev \in BOOLEAN
  /\ Gws \subseteq {"web", "git", "model"} /\ "model" \in Gws
  /\ TTL \in Nat \ {0} /\ Idle \in Nat \ {0}
  /\ MaxRequests \in Nat \ {0} /\ MaxConcurrent \in Nat \ {0}
  /\ MaxSessions \in Nat \ {0} /\ MaxTime \in Nat /\ MaxFaults \in Nat

VARIABLES
  now,
  ctl,      \* controlledSession: state, expiresAt, lastActivity
  changed,  \* deadlineChanged holds its one notification
  loop,     \* main loop: next step, armed deadlines (0: not armed), whether
            \* the revision they were armed for is the current one, and the
            \* time a timer that fired carries
  op,       \* the operation that holds the mutex
  sess,     \* Session: its identity, gatewayActive, listening gateways, attach
            \* relay, VM, leaseCreated
  lease,    \* lease file of every session: state and expiry
  gate,     \* admission gate per session and gateway
  req,      \* guest requests
  faults

vars == <<now, ctl, changed, loop, op, sess, lease, gate, req, faults>>

Sessions == 1 .. MaxSessions
(* Of the gateways that are left, the one that stopChannels stops next. *)
NextOf(left) == IF "web" \in left THEN "web" ELSE IF "git" \in left THEN "git" ELSE "model"
Times == 0 .. MaxTime + TTL + Idle

(* The steps of each operation, in the order of the code.  `fail` is the      *)
(* deferred function of ResumeWith, `abandon` that of Start, `retain` is      *)
(* retainForExportFailure, `quiesce` what StopAndExport does first in mode    *)
(* "dev".                                                                     *)
Order ==
  [start   |-> <<"activate", "register", "listen", "boot", "relay", "enable">>,
   resume  |-> <<"activate", "register", "listen", "boot", "relay", "enable">>,
   fail    |-> <<"lease", "attach", "channels", "stop">>,
   pause   |-> <<"attach", "channels", "lease", "stop">>,
   quiesce |-> <<"egress">>,
   export  |-> <<"attach", "lease", "thaw", "channels", "stop", "remove">>,
   retain  |-> <<"channels", "lease", "stop">>,
   destroy |-> <<"attach", "channels", "lease", "remove">>,
   abandon |-> <<"attach", "channels", "lease", "remove">>,
   exec    |-> <<"guest">>]
Kinds == DOMAIN Order

NoOp == [kind |-> "none", k |-> 0, left |-> {}, err |-> FALSE, loop |-> FALSE]
Begin(kind, byLoop) == [kind |-> kind, k |-> 1, left |-> Gws, err |-> FALSE, loop |-> byLoop]
Free == op.kind = "none"
Step == IF Free THEN "none" ELSE Order[op.kind][op.k]

NoGate == [live |-> FALSE, exp |-> 0, used |-> 0, slots |-> 0, admitted |-> 0,
           auditFailed |-> FALSE]

States == {"starting", "running", "paused", "failed", "recovery", "exported", "destroyed"}
TypeOK ==
  /\ now \in 0 .. MaxTime
  /\ ctl \in [state : States, expiresAt : Times, lastActivity : Times]
  /\ changed \in BOOLEAN
  /\ loop \in [pc : {"arm", "select", "expiry", "idle", "pausing", "shutdown", "ended"},
               expiry : Times, idle : Times, fresh : BOOLEAN, at : Times]
  /\ op.kind \in Kinds \cup {"none"} /\ op.left \subseteq Gws
  /\ ~Free => op.k \in DOMAIN Order[op.kind]
  /\ sess \in [sid : 0 .. MaxSessions, active : BOOLEAN, serving : SUBSET Gws,
               relay : 0 .. MaxSessions, vm : {"none", "running", "stopped", "removed"},
               leased : BOOLEAN]
  /\ lease \in [Sessions -> [state : {"none", "paused", "active", "revoked"}, exp : Times]]
  /\ DOMAIN gate = Sessions
  /\ \A s \in Sessions, g \in Gws : gate[s][g].slots \in 0 .. MaxConcurrent
  /\ req \in [Requests -> [pc : {"none", "entered", "admitted", "audit", "revoke"},
                           gw : Gws \cup {""}, sid : 0 .. MaxSessions]]
  /\ faults \in 0 .. MaxFaults

NoRequest == [pc |-> "none", gw |-> "", sid |-> 0]

Init ==
  /\ now = 0
  /\ ctl = [state |-> "starting", expiresAt |-> 0, lastActivity |-> 0]
  /\ changed = FALSE
  /\ loop = [pc |-> "arm", expiry |-> 0, idle |-> 0, fresh |-> FALSE, at |-> 0]
  /\ op = Begin("start", FALSE)
  /\ sess = [sid |-> 0, active |-> FALSE, serving |-> {}, relay |-> 0, vm |-> "none",
             leased |-> FALSE]
  /\ lease = [s \in Sessions |-> [state |-> "none", exp |-> 0]]
  /\ gate = [s \in Sessions |-> [g \in Gws |-> NoGate]]
  /\ req = [r \in Requests |-> NoRequest]
  /\ faults = 0

Fault == faults < MaxFaults /\ faults' = faults + 1
NoFault == UNCHANGED faults
Deadline == IF ctl.lastActivity + Idle < ctl.expiresAt THEN ctl.lastActivity + Idle
                                                      ELSE ctl.expiresAt
InFlight(g) == {r \in Requests : req[r].pc # "none" /\ req[r].gw = g}

-----------------------------------------------------------------------------
(* Steps of an operation.                                                     *)

Continue == op' = [op EXCEPT !.k = @ + 1, !.left = Gws]
(* An error that is joined to the others: the operation goes on. *)
ContinueWith(err) == op' = [op EXCEPT !.k = @ + 1, !.left = Gws, !.err = @ \/ err]

(* notifyDeadlineChangedLocked: a new revision, and a notification unless one *)
(* is waiting already.                                                        *)
Notify == changed' = TRUE /\ loop' = [loop EXCEPT !.fresh = FALSE]

(* The operation is over and the session in `state`; exit says that the main  *)
(* loop is told to end, which it also does when its own pause has failed.     *)
Finish(state) ==
  /\ op' = NoOp
  /\ ctl' = IF state = "paused" THEN [ctl EXCEPT !.state = state, !.expiresAt = 0]
                                ELSE [ctl EXCEPT !.state = state]
  /\ changed' = TRUE
  /\ loop' = [loop EXCEPT !.fresh = FALSE,
                          !.pc = CASE state \in {"exported", "destroyed", "recovery"} \/ op.kind = "abandon" -> "ended"
                                   [] op.loop /\ state = "failed" ->
                                        IF @ = "shutdown" THEN "ended" ELSE "shutdown"
                                   [] op.loop -> "arm"
                                   [] OTHER -> @]

(* What an operation that cannot go on does instead. *)
Fail ==
  CASE op.kind = "start"  -> op' = [op EXCEPT !.kind = "abandon", !.k = 1, !.left = Gws, !.err = TRUE]
    [] op.kind = "resume" -> op' = [op EXCEPT !.kind = "fail", !.k = 1, !.left = Gws, !.err = TRUE]
    [] op.kind = "export" -> op' = [op EXCEPT !.kind = "retain", !.k = 1, !.left = Gws, !.err = TRUE]

Acquires == op.kind \in {"start", "resume"}

(* What a closed gate has counted does not matter once nobody uses it. *)
Forgotten(s, g) == ~gate[s][g].live /\ \A r \in Requests : req[r].sid # s \/ req[r].gw # g

(* newManagedActivation: a new identity and new gateways, whose capability    *)
(* expires TTL from now.  When it fails, a paused session stays paused.       *)
Activate ==
  /\ Step = "activate"
  /\ sess.sid < MaxSessions
  /\ gate' = [s \in Sessions |->
                IF s = sess.sid + 1
                THEN [g \in Gws |-> [NoGate EXCEPT !.live = TRUE, !.exp = now + TTL]]
                ELSE [g \in Gws |-> IF Forgotten(s, g) THEN NoGate ELSE gate[s][g]]]
  /\ sess' = [sess EXCEPT !.sid = @ + 1]
  /\ Continue
  /\ UNCHANGED <<now, ctl, changed, loop, lease, req, faults>>

ActivateFails ==
  /\ Step = "activate" /\ Fault
  /\ \/ op.kind = "resume" /\ op' = NoOp /\ UNCHANGED <<ctl, loop>>
     \/ /\ op.kind = "start" /\ op' = NoOp
        /\ ctl' = [ctl EXCEPT !.state = "failed"] /\ loop' = [loop EXCEPT !.pc = "ended"]
  /\ UNCHANGED <<now, changed, sess, lease, gate, req>>

Register ==
  /\ Step = "register" /\ lease[sess.sid].state = "none"
  /\ lease' = [lease EXCEPT ![sess.sid] = [state |-> "paused", exp |-> now + TTL]]
  /\ sess' = [sess EXCEPT !.active = FALSE, !.leased = TRUE]
  /\ Continue
  /\ UNCHANGED <<now, ctl, changed, loop, gate, req, faults>>

(* startGateway and startUnixGateway: one listener after the other. *)
Listen ==
  /\ Step = "listen"
  /\ sess' = [sess EXCEPT !.serving = Gws, !.active = FALSE]
  /\ Continue
  /\ UNCHANGED <<now, ctl, changed, loop, lease, gate, req, faults>>

(* CreateSecure and configureGuest, or Start, restoreGuestRuntimeInputs and   *)
(* resumeGuest: afterwards the guest can send requests.                       *)
Boot ==
  /\ Step = "boot"
  /\ sess' = [sess EXCEPT !.vm = "running"]
  /\ Continue
  /\ UNCHANGED <<now, ctl, changed, loop, lease, gate, req, faults>>

StartAttachRelay ==
  /\ Step = "relay"
  /\ sess' = [sess EXCEPT !.relay = sess.sid]
  /\ Continue
  /\ UNCHANGED <<now, ctl, changed, loop, lease, gate, req, faults>>

(* lease.Activate refuses a lease that has expired meanwhile. *)
Usable(s) == lease[s].state = "paused" /\ now < lease[s].exp

(* Mutant: a resume does not announce its deadlines to the main loop. *)
EnableSilently ==
  /\ Step = "enable" /\ Usable(sess.sid)
  /\ lease' = [lease EXCEPT ![sess.sid].state = "active"]
  /\ sess' = [sess EXCEPT !.active = TRUE]
  /\ ctl' = [state |-> "running", expiresAt |-> gate[sess.sid]["model"].exp,
             lastActivity |-> now]
  /\ op' = NoOp
  /\ UNCHANGED <<now, changed, loop, gate, req, faults>>

(* The lease becomes active, then the gateways, then the session runs. *)
Enable ==
  /\ Step = "enable" /\ Usable(sess.sid)
  /\ lease' = [lease EXCEPT ![sess.sid].state = "active"]
  /\ sess' = [sess EXCEPT !.active = TRUE]
  /\ ctl' = [state |-> "running", expiresAt |-> gate[sess.sid]["model"].exp,
             lastActivity |-> now]
  /\ op' = NoOp
  /\ IF op.kind = "start" THEN UNCHANGED <<changed, loop>> ELSE Notify
  /\ UNCHANGED <<now, gate, req, faults>>

(* Any step of a start or a resume may fail; part of it may have happened. *)
AcquireFails ==
  /\ Acquires /\ Step # "activate"
  /\ \/ Fault
     \/ NoFault /\ Step = "enable" /\ ~Usable(sess.sid)
  /\ \/ UNCHANGED sess
     \/ Step = "listen" /\ \E some \in SUBSET Gws : sess' = [sess EXCEPT !.serving = some]
     \/ Step = "boot" /\ sess' = [sess EXCEPT !.vm = "running"]
  /\ Fail
  /\ UNCHANGED <<now, ctl, changed, loop, lease, gate, req>>

(* gatewayActive is cleared and the attach relay told to stop. *)
StopAttach ==
  /\ Step = "attach"
  /\ sess' = [sess EXCEPT !.active = FALSE, !.relay = 0]
  /\ \/ NoFault /\ Continue
     \/ Fault /\ (IF op.kind = "export" THEN Fail ELSE ContinueWith(TRUE))
  /\ UNCHANGED <<now, ctl, changed, loop, lease, gate, req>>

(* Mutant: a server that could not be drained in time is not an error. *)
StopGatewayQuietly ==
  /\ Step = "channels"
  /\ LET g == NextOf(op.left) IN
     /\ sess' = [sess EXCEPT !.serving = @ \ {g}, !.active = FALSE]
     /\ gate' = IF sess.sid = 0 THEN gate ELSE [gate EXCEPT ![sess.sid][g].live = FALSE]
     /\ IF op.left # {g} THEN op' = [op EXCEPT !.left = @ \ {g}] ELSE Continue
  /\ UNCHANGED <<now, ctl, changed, loop, lease, req, faults>>

(* stopUnixGateway waits three seconds for the requests under way; then it    *)
(* gives up with an error, the requests go on.  Either way the gate is closed *)
(* before the next gateway is stopped.                                        *)
StopGateway ==
  /\ Step = "channels"
  /\ LET g == NextOf(op.left) IN
     \E late \in {TRUE, FALSE} :
     /\ late => InFlight(g) # {} /\ g \in sess.serving
     /\ ~late => InFlight(g) = {} \/ g \notin sess.serving
     /\ sess' = [sess EXCEPT !.serving = @ \ {g}, !.active = FALSE]
     /\ gate' = IF sess.sid = 0 THEN gate ELSE [gate EXCEPT ![sess.sid][g].live = FALSE]
     /\ IF op.left # {g} THEN op' = [op EXCEPT !.left = @ \ {g}, !.err = @ \/ late]
        ELSE IF (op.err \/ late) /\ op.kind = "export" THEN Fail
        ELSE ContinueWith(late)
  /\ UNCHANGED <<now, ctl, changed, loop, lease, req, faults>>

(* lease.Revoke, of a lease this process still owns; a pause always asks for  *)
(* it.  A pause whose revocation fails returns before it stops the VM; a      *)
(* failed resume ignores the error, the others join it to what they report.   *)
(* The expiry of a revoked lease is not looked at any more.                   *)
RevokeLease ==
  /\ Step = "lease"
  /\ \/ /\ sess.leased \/ op.kind = "pause"
        /\ NoFault /\ Continue
        /\ lease' = [lease EXCEPT ![sess.sid] = [state |-> "revoked", exp |-> 0]]
        /\ sess' = [sess EXCEPT !.leased = FALSE]
        /\ UNCHANGED <<ctl, changed, loop>>
     \/ /\ ~sess.leased /\ op.kind # "pause"
        /\ NoFault /\ Continue /\ UNCHANGED <<ctl, changed, loop, lease, sess>>
     \/ /\ sess.leased /\ Fault /\ UNCHANGED lease
        /\ sess' = [sess EXCEPT !.leased = @ /\ op.kind # "fail"]
        /\ CASE op.kind = "pause"  -> Finish("failed")
             [] op.kind = "export" -> Fail /\ UNCHANGED <<ctl, changed, loop>>
             [] OTHER -> ContinueWith(TRUE) /\ UNCHANGED <<ctl, changed, loop>>
  /\ UNCHANGED <<now, gate, req>>

(* The export of a dev session closes the direct egress of the VM.  When that *)
(* fails the session is paused, unless that has been done and its lease is    *)
(* gone, and has failed.  When only the audit record fails the export is      *)
(* over, the session has failed, and nothing of it is taken away.             *)
Quiesce ==
  /\ Step = "egress"
  /\ \/ NoFault /\ op' = Begin("export", FALSE) /\ UNCHANGED <<ctl, changed, loop, sess>>
     \/ /\ Fault /\ ctl.state \in {"running", "failed"} /\ sess.vm = "running"
        /\ op' = [Begin("pause", FALSE) EXCEPT !.err = TRUE]
        /\ sess' = [sess EXCEPT !.active = FALSE]
        /\ UNCHANGED <<ctl, changed, loop>>
     \/ /\ Fault /\ (~sess.leased \/ sess.vm # "running")
        /\ sess' = [sess EXCEPT !.active = FALSE] /\ Finish("failed")
     \/ Fault /\ UNCHANGED sess /\ Finish("failed")
  /\ UNCHANGED <<now, lease, gate, req>>

(* The export of a stopped VM starts it again behind gateways that reject     *)
(* every request (startRevokedGatewaysForExport).                             *)
Thaw ==
  /\ Step = "thaw"
  /\ \/ /\ sess.vm = "stopped" /\ NoFault /\ Continue
        /\ sess' = [sess EXCEPT !.vm = "running", !.serving = Gws, !.active = FALSE]
     \/ sess.vm = "running" /\ NoFault /\ Continue /\ UNCHANGED sess
     \/ (Fault \/ (sess.vm \in {"none", "removed"} /\ NoFault)) /\ Fail /\ UNCHANGED sess
  /\ UNCHANGED <<now, ctl, changed, loop, lease, gate, req>>

(* The VM stops, and with it every request of the guest; what the host does   *)
(* for one of them goes on.                                                   *)
StopVM ==
  /\ Step = "stop"
  /\ \/ /\ sess.vm \in {"running", "stopped"} /\ NoFault
        /\ sess' = [sess EXCEPT !.vm = "stopped"]
        /\ CASE op.kind = "pause"  -> Finish(IF op.err THEN "failed" ELSE "paused")
             [] op.kind = "fail"   -> Finish("failed")
             [] op.kind = "retain" -> Finish("recovery")
             [] op.kind = "export" -> Continue /\ UNCHANGED <<ctl, changed, loop>>
     \/ /\ Fault \/ (sess.vm \in {"none", "removed"} /\ NoFault)
        /\ UNCHANGED sess
        /\ CASE op.kind = "export" -> Fail /\ UNCHANGED <<ctl, changed, loop>>
             [] op.kind = "retain" -> Finish("recovery")
             [] OTHER -> Finish("failed")
  /\ UNCHANGED <<now, lease, gate, req>>

RemoveVM ==
  /\ Step = "remove"
  /\ \/ /\ NoFault
        /\ sess' = [sess EXCEPT !.vm = "removed"]
        /\ Finish(IF op.err THEN "failed"
                  ELSE IF op.kind = "export" THEN "exported" ELSE "destroyed")
     \/ Fault /\ UNCHANGED sess /\ Finish("failed")
  /\ UNCHANGED <<now, lease, gate, req>>

(* The command of a guest exec returns. *)
ExecReturns ==
  /\ Step = "guest" /\ op' = NoOp
  /\ UNCHANGED <<now, ctl, changed, loop, sess, lease, gate, req, faults>>

OpStep == \/ Activate \/ ActivateFails \/ Register \/ Listen \/ Boot \/ StartAttachRelay
          \/ Enable \/ AcquireFails \/ StopAttach \/ StopGateway \/ RevokeLease \/ Quiesce \/ Thaw
          \/ StopVM \/ RemoveVM \/ ExecReturns

-----------------------------------------------------------------------------
(* Operations of the control socket; the mutex must be free.                  *)

Serving == Free /\ loop.pc \notin {"shutdown", "ended"} /\ ctl.state # "starting"
Take(kind) ==
  /\ op' = Begin(kind, FALSE)
  /\ UNCHANGED <<now, ctl, changed, loop, sess, lease, gate, req, faults>>

PauseRequest == Serving /\ ctl.state = "running" /\ Take("pause")
ResumeRequest == Serving /\ ctl.state = "paused" /\ sess.sid < MaxSessions /\ Take("resume")
ExportRequest == Serving /\ ctl.state \in {"running", "paused", "failed"}
                 /\ Take(IF Dev THEN "quiesce" ELSE "export")
DestroyRequest == Serving /\ ctl.state \in {"running", "paused", "failed"} /\ Take("destroy")

Touch == ctl' = [ctl EXCEPT !.lastActivity = now] /\ Notify
Active == Serving /\ ctl.state = "running" /\ now < ctl.expiresAt

(* A heartbeat, and a console or exec command, which keeps the mutex until it *)
(* returns.                                                                   *)
Heartbeat ==
  /\ Active /\ Touch
  /\ UNCHANGED <<now, op, sess, lease, gate, req, faults>>
Exec ==
  /\ Active /\ Touch
  /\ op' = Begin("exec", FALSE)
  /\ UNCHANGED <<now, sess, lease, gate, req, faults>>

-----------------------------------------------------------------------------
(* The main loop of the Supervisor.                                           *)

Started == ctl.state # "starting"

(* reconcile(deadlineSnapshot()). *)
Arm ==
  /\ loop.pc = "arm" /\ Free /\ Started
  /\ loop' = [pc |-> "select", fresh |-> TRUE, at |-> 0,
              expiry |-> IF ctl.state = "running" THEN ctl.expiresAt ELSE 0,
              idle |-> IF ctl.state = "running" THEN ctl.lastActivity + Idle ELSE 0]
  /\ UNCHANGED <<now, ctl, changed, op, sess, lease, gate, req, faults>>

DeadlineChanged ==
  /\ loop.pc = "select" /\ changed
  /\ changed' = FALSE /\ loop' = [loop EXCEPT !.pc = "arm"]
  /\ UNCHANGED <<now, ctl, op, sess, lease, gate, req, faults>>

Fire(timer) ==
  /\ loop.pc = "select" /\ loop[timer] # 0 /\ now >= loop[timer]
  /\ loop' = [loop EXCEPT !.pc = timer, ![timer] = 0, !.at = now]
  /\ UNCHANGED <<now, ctl, changed, op, sess, lease, gate, req, faults>>
ExpiryFires == Fire("expiry")
IdleFires == Fire("idle")

(* Mutant: the pause trusts the timer that fired. *)
DueAnyway == ctl.state = "running"

(* pauseIfExpired and pauseIfIdle: the revision, the state and the deadline   *)
(* are looked at again with the mutex held.                                   *)
Due == /\ loop.fresh /\ ctl.state = "running"
       /\ loop.at >= IF loop.pc = "expiry" THEN ctl.expiresAt ELSE ctl.lastActivity + Idle

PauseIfDue ==
  /\ loop.pc \in {"expiry", "idle"} /\ Free
  /\ IF Due THEN op' = Begin("pause", TRUE) /\ loop' = [loop EXCEPT !.pc = "pausing"]
            ELSE UNCHANGED op /\ loop' = [loop EXCEPT !.pc = "arm"]
  /\ UNCHANGED <<now, ctl, changed, sess, lease, gate, req, faults>>

(* supervisorShutdown after the loop has returned an error. *)
Shutdown ==
  /\ loop.pc = "shutdown" /\ Free
  /\ IF ctl.state \in {"recovery", "exported", "destroyed"}
     THEN UNCHANGED op /\ loop' = [loop EXCEPT !.pc = "ended"]
     ELSE op' = Begin("destroy", TRUE) /\ UNCHANGED loop
  /\ UNCHANGED <<now, ctl, changed, sess, lease, gate, req, faults>>

LoopStep == Arm \/ DeadlineChanged \/ ExpiryFires \/ IdleFires \/ PauseIfDue \/ Shutdown

-----------------------------------------------------------------------------
(* Requests of the guest.                                                     *)

(* Through the guest relay to a listening gateway.  The handler that          *)
(* startUnixGateway wraps around it lets a request in while the flag is set   *)
(* and the lease of the current session is active; others leave no trace.     *)
OpenGateway == /\ sess.active
               /\ lease[sess.sid].state = "active" /\ now < lease[sess.sid].exp
Arrive(r, g) ==
  /\ req[r].pc = "none" /\ sess.vm = "running" /\ g \in sess.serving
  /\ OpenGateway
  /\ req' = [req EXCEPT ![r] = [pc |-> "entered", gw |-> g, sid |-> sess.sid]]
  /\ UNCHANGED <<now, ctl, changed, loop, op, sess, lease, gate, faults>>

GateOf(r) == gate[req[r].sid][req[r].gw]
SetGate(r, G) == gate' = [gate EXCEPT ![req[r].sid][req[r].gw] = G]

(* Mutant: the slot is taken before the quota is looked at, and kept. *)
AdmitSlotFirst(r) ==
  /\ req[r].pc = "entered"
  /\ LET G == GateOf(r) IN
     IF G.auditFailed \/ ~G.live \/ now >= G.exp \/ G.slots = MaxConcurrent
     THEN UNCHANGED gate /\ req' = [req EXCEPT ![r].pc = "audit"]
     ELSE IF G.used >= MaxRequests
     THEN SetGate(r, [G EXCEPT !.slots = @ + 1]) /\ req' = [req EXCEPT ![r].pc = "audit"]
     ELSE /\ SetGate(r, [G EXCEPT !.used = @ + 1, !.slots = @ + 1, !.admitted = @ + 1])
          /\ req' = [req EXCEPT ![r].pc = "admitted"]
  /\ UNCHANGED <<now, ctl, changed, loop, op, sess, lease, faults>>

(* Mutant: the gate does not look at its revocation. *)
AdmitUnrevoked(r) ==
  /\ req[r].pc = "entered"
  /\ LET G == GateOf(r) IN
     IF G.auditFailed \/ now >= G.exp \/ G.used >= MaxRequests \/ G.slots = MaxConcurrent
     THEN UNCHANGED gate /\ req' = [req EXCEPT ![r].pc = "audit"]
     ELSE /\ SetGate(r, [G EXCEPT !.used = @ + 1, !.slots = @ + 1, !.admitted = @ + 1])
          /\ req' = [req EXCEPT ![r].pc = "admitted"]
  /\ UNCHANGED <<now, ctl, changed, loop, op, sess, lease, faults>>

(* ServeHTTP up to Gate.Admit.  The request counts towards the quota before   *)
(* a slot is looked for; every outcome is audited.                            *)
Admit(r) ==
  /\ req[r].pc = "entered"
  /\ LET G == GateOf(r) IN
     IF G.auditFailed \/ ~G.live \/ now >= G.exp
     THEN UNCHANGED gate /\ req' = [req EXCEPT ![r].pc = "audit"]
     ELSE IF G.used >= MaxRequests \/ G.slots = MaxConcurrent
     THEN /\ SetGate(r, [G EXCEPT !.used = IF @ < MaxRequests THEN @ + 1 ELSE @])
          /\ req' = [req EXCEPT ![r].pc = "audit"]
     ELSE /\ SetGate(r, [G EXCEPT !.used = @ + 1, !.slots = @ + 1, !.admitted = @ + 1])
          /\ req' = [req EXCEPT ![r].pc = "admitted"]
  /\ UNCHANGED <<now, ctl, changed, loop, op, sess, lease, faults>>

(* The answer of the upstream has been copied, or refused, or the guest has   *)
(* gone: the slot is released first, then the request is audited.             *)
Respond(r) ==
  /\ req[r].pc = "admitted"
  /\ SetGate(r, [GateOf(r) EXCEPT !.slots = @ - 1])
  /\ req' = [req EXCEPT ![r].pc = "audit"]
  /\ UNCHANGED <<now, ctl, changed, loop, op, sess, lease, faults>>

Audit(r) ==
  /\ req[r].pc = "audit"
  /\ \/ NoFault /\ req' = [req EXCEPT ![r] = NoRequest] /\ UNCHANGED gate
     \/ /\ Fault /\ SetGate(r, [GateOf(r) EXCEPT !.auditFailed = TRUE])
        /\ req' = [req EXCEPT ![r].pc = "revoke"]
  /\ UNCHANGED <<now, ctl, changed, loop, op, sess, lease>>

(* The audit record could not be appended: no further request is admitted. *)
RevokeOnAuditFailure(r) ==
  /\ req[r].pc = "revoke"
  /\ SetGate(r, [GateOf(r) EXCEPT !.live = FALSE])
  /\ req' = [req EXCEPT ![r] = NoRequest]
  /\ UNCHANGED <<now, ctl, changed, loop, op, sess, lease, faults>>

Tick == /\ now < MaxTime /\ now' = now + 1
        /\ UNCHANGED <<ctl, changed, loop, op, sess, lease, gate, req, faults>>

Next ==
  \/ OpStep \/ LoopStep \/ Tick
  \/ PauseRequest \/ ResumeRequest \/ ExportRequest \/ DestroyRequest \/ Heartbeat \/ Exec
  \/ \E r \in Requests : \/ \E g \in Gws : Arrive(r, g)
                         \/ Admit(r) \/ Respond(r) \/ Audit(r)
                         \/ RevokeOnAuditFailure(r)

(* A goroutine that holds the mutex goes on; the main loop gets the mutex it  *)
(* waits for, and a select does not pass over a timer for ever.               *)
Fairness == /\ WF_vars(OpStep)
            /\ SF_vars(Arm) /\ SF_vars(PauseIfDue) /\ SF_vars(Shutdown)
            /\ WF_vars(DeadlineChanged) /\ SF_vars(ExpiryFires) /\ SF_vars(IdleFires)

Spec == Init /\ [][Next]_vars /\ Fairness

-----------------------------------------------------------------------------
(* Properties.                                                                *)

(* A dev session that failed because the record of its closed egress could    *)
(* not be written still serves.                                               *)
Unaudited == Dev /\ ctl.state = "failed" /\ sess.active
Live == ctl.state = "running" \/ Unaudited

(* A pause that succeeded leaves no request under way and no usable lease;    *)
(* however a session ends, no listener, relay or running VM is left; and      *)
(* whatever failed on the way, outside a running session every capability     *)
(* ever issued is revoked, so that no request can be admitted again, but for  *)
(* the export of StopAndExport that ends without an audit record.  The steps  *)
(* of stopChannels, the lease and the VM take away a part each, with requests *)
(* in between and with errors that let an operation go on.                    *)
QuietAfterwards ==
  /\ Free /\ ctl.state = "paused" =>
       /\ \A r \in Requests : req[r].pc = "none"
       /\ \A s \in Sessions : lease[s].state \in {"none", "revoked"}
  /\ Free /\ ctl.state \in {"paused", "exported", "destroyed"} =>
       sess.serving = {} /\ sess.relay = 0 /\ sess.vm # "running"
  /\ Free /\ ~Live => \A s \in Sessions, g \in Gws : ~gate[s][g].live

(* The slots of a gate are those of the requests it admitted and that are     *)
(* still under way; it never admits more requests than the quota, whether     *)
(* others were refused or not.                                                *)
LimitsKept ==
  \A s \in Sessions, g \in Gws :
    /\ gate[s][g].slots = Cardinality({r \in Requests : /\ req[r].pc = "admitted"
                                                        /\ req[r].sid = s /\ req[r].gw = g})
    /\ gate[s][g].admitted <= MaxRequests

(* A request is admitted only for the session that runs now (or is left as    *)
(* above), before its expiry, and never once the session was paused, replaced *)
(* or its VM stopped: the check of the wrapper and the admission are two      *)
(* steps, and an operation that takes the authority away may run between.     *)
AdmittedInTime ==
  [][\A r \in Requests :
       req[r].pc = "entered" /\ req'[r].pc = "admitted" =>
         /\ req[r].sid = sess.sid /\ now < gate[req[r].sid][req[r].gw].exp
         /\ sess.vm = "running" /\ (Free => Live)]_vars

(* The main loop pauses a session only when a deadline of that very session   *)
(* has passed, although heartbeats, resumes and other operations come between *)
(* the firing of a timer and the pause.                                       *)
NoEarlyPause ==
  [][Free /\ op'.kind = "pause" /\ op'.loop => now >= Deadline]_vars

(* A session whose deadline has passed is paused, or its deadline moves: no   *)
(* notification, timer or revision is lost.                                   *)
DeadlineEnds ==
  (Free /\ ctl.state = "running" /\ now >= Deadline)
    ~> (ctl.state # "running" \/ now < Deadline)
=============================================================================
