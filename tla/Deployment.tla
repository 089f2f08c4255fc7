------------------------------- MODULE Deployment -----------------------------
(***************************************************************************)
(* The life of the blue and the green slot: the front proxy that sends     *)
(* requests to them (front_proxy.rs), its slot manager that stops idle and *)
(* starts dead ones (slot_manager.rs), the deploy script that restarts,    *)
(* switches and rolls back (bin/hot-deploy-router.py) and the lock between *)
(* deployments (deploy_lock.rs, bin/deploy_lock.py).                       *)
(*                                                                         *)
(* Every await of the proxy, every command of the script and every job     *)
(* systemd carries out is an action of its own.  The proxy itself stays up *)
(* and the file that names the active slot exists (bootstrap has run).     *)
(* The token a session writes into the lock file is the session.           *)
(***************************************************************************)
EXTENDS Integers

CONSTANTS
  Slots,      \* {blue, green}
  Sessions,   \* runs of the deploy script
  Modes,      \* "deploy" in one go, or "stage", then switch and lock-release
  Requests,   \* requests at the proxy
  Idle,       \* LLM_PROVIDER_ROUTER_IDLE_SHUTDOWN_SECONDS, in ticks; 0 disables
  Cooldown,   \* ACTION_COOLDOWN_SECS, in ticks
  None

ASSUME SlotsAssumption ==
  \E blue \in Slots, green \in Slots : blue # green /\ Slots = {blue, green}

ASSUME DeploymentAssumption ==
  /\ Modes \subseteq {"deploy", "stage"}
  /\ None \notin Slots \union Sessions \union {"deploy", "stage"}
  /\ Idle \in Nat /\ Cooldown \in Nat

VARIABLES
  active,    \* active-backend.json
  unit,      \* slot -> state of its systemd service
  orders,    \* systemctl starts and stops under way that nobody waits for
  (* the slot manager *)
  quiet,     \* slot -> ticks since its last request, up to Idle
  cool,      \* slot -> ticks since the last action on it, up to Cooldown
  round,     \* the slots this round has still to check
  seen,      \* the active slot as the round began
  seenLock,  \* whether the deploy lock was held as the round began
  (* each request *)
  phase,
  at,        \* the slot whose in-flight guard it holds
  (* each session of the script *)
  lock,      \* the session that holds the deploy lock
  step,
  mode,      \* and its locals, None when no command runs:
  current,   \* the slot it read as the active one
  target     \* the slot it deploys to

proxyVars == <<orders, quiet, cool, round, seen, seenLock>>
requestVars == <<phase, at>>
scriptVars == <<lock, step, mode, current, target>>
vars == <<active, unit, proxyVars, requestVars, scriptVars>>

Other(s) == CHOOSE t \in Slots : t # s

\* What deploy and stage, and what only deploy (and, without asking for the lock
\* again, switch) do under the lock.
Restarting == {"restart", "booting", "health"}
Window == Restarting \union {"precheck", "handoff", "verify", "rollback"}
Steps == Window \union {"idle", "waiting", "staged", "orphaned"}
Orders == {"start", "stop"} \X Slots

TypeOK ==
  /\ active \in Slots
  /\ unit \in [Slots -> {"stopped", "starting", "running", "draining"}]
  /\ orders \subseteq Orders
  /\ quiet \in [Slots -> 0..Idle] /\ cool \in [Slots -> 0..Cooldown]
  /\ round \subseteq Slots /\ seen \in Slots /\ seenLock \in BOOLEAN
  /\ phase \in [Requests -> {"idle", "first", "again", "second", "last", "stream"}]
  /\ at \in [Requests -> Slots \union {None}]
  /\ \A r \in Requests : phase[r] = "idle" <=> at[r] = None
  /\ lock \in Sessions \union {None}
  /\ step \in [Sessions -> Steps] /\ mode \in [Sessions -> Modes \union {"unheld", None}]
  /\ current \in [Sessions -> Slots \union {None}]
  /\ target \in [Sessions -> Slots \union {None}]
  /\ \A d \in Sessions : step[d] # "idle" => current[d] # None /\ target[d] # None

Init ==
  /\ active \in Slots
  /\ unit = [s \in Slots |-> IF s = active THEN "running" ELSE "stopped"]
  /\ orders = {}
  /\ quiet = [s \in Slots |-> 0] /\ cool = [s \in Slots |-> Cooldown]
  /\ round = {} /\ seen = active /\ seenLock = FALSE
  /\ phase = [r \in Requests |-> "idle"] /\ at = [r \in Requests |-> None]
  /\ lock = None
  /\ step = [d \in Sessions |-> "idle"] /\ mode = [d \in Sessions |-> None]
  /\ current = mode /\ target = mode

-------------------------------------------------------------------------------
(* systemd *)

\* SIGTERM: no new connection, the open streams go on.
Terminated(s) == IF unit[s] = "stopped" THEN unit ELSE [unit EXCEPT ![s] = "draining"]
Started(s) == IF unit[s] = "stopped" THEN [unit EXCEPT ![s] = "starting"] ELSE unit

\* The requests at a process that ends are answered or cut.
Dropped(s) ==
  LET cut == {r \in Requests : at[r] = s /\ phase[r] = "stream"}
  IN  /\ phase' = [r \in Requests |-> IF r \in cut THEN "idle" ELSE phase[r]]
      /\ at' = [r \in Requests |-> IF r \in cut THEN None ELSE at[r]]

\* A start waits for a stop under way.
Execute(order) ==
  LET s == order[2]
  IN  /\ order \in orders
      /\ \/ order[1] = "stop" /\ unit' = Terminated(s)
         \/ order[1] = "start" /\ unit[s] # "draining" /\ unit' = Started(s)
      /\ orders' = orders \ {order}
      /\ UNCHANGED <<active, quiet, cool, round, seen, seenLock, requestVars, scriptVars>>

Up(s) ==
  /\ unit[s] = "starting"
  /\ unit' = [unit EXCEPT ![s] = "running"]
  /\ UNCHANGED <<active, proxyVars, requestVars, scriptVars>>

\* The binary does not come up.
StartFails(s) ==
  /\ unit[s] = "starting"
  /\ unit' = [unit EXCEPT ![s] = "stopped"]
  /\ UNCHANGED <<active, proxyVars, requestVars, scriptVars>>

\* The streams are done, or the watchdog has cut them.
Exits(s) ==
  /\ unit[s] = "draining"
  /\ unit' = [unit EXCEPT ![s] = "stopped"]
  /\ Dropped(s)
  /\ UNCHANGED <<active, proxyVars, scriptVars>>

\* Restart=on-failure.
Crash(s) ==
  /\ unit[s] = "running"
  /\ unit' = [unit EXCEPT ![s] = "starting"]
  /\ Dropped(s)
  /\ UNCHANGED <<active, proxyVars, scriptVars>>

-------------------------------------------------------------------------------
(* The front proxy *)

\* touch, and the in-flight guard.
Enters(r, s, p) ==
  /\ phase' = [phase EXCEPT ![r] = p]
  /\ at' = [at EXCEPT ![r] = s]
  /\ quiet' = [quiet EXCEPT ![s] = 0]

\* Mutant of Leaves: the guard outlives the request.
LeavesGuarded(r) ==
  /\ phase' = [phase EXCEPT ![r] = "idle"]
  /\ UNCHANGED at

Leaves(r) ==
  /\ phase' = [phase EXCEPT ![r] = "idle"]
  /\ at' = [at EXCEPT ![r] = None]

\* ordered_backends: the active slot as it is now, then the other one.
Arrive(r) ==
  /\ phase[r] = "idle"
  /\ Enters(r, active, "first")
  /\ UNCHANGED <<active, unit, orders, cool, round, seen, seenLock, scriptVars>>

Connects(r) ==
  /\ phase[r] \notin {"idle", "stream"} /\ unit[at[r]] = "running"
  /\ phase' = [phase EXCEPT ![r] = "stream"]
  /\ UNCHANGED <<active, unit, proxyVars, at, scriptVars>>

\* Mutant of Refused: the attempts on the other slot are not counted.
RefusedAlways(r) ==
  /\ \/ /\ phase[r] \in {"first", "second"}
        /\ phase' = [phase EXCEPT ![r] = IF @ = "first" THEN "again" ELSE "second"]
        /\ orders' = orders \union {<<"start", at[r]>>}
        /\ UNCHANGED <<at, quiet>>
     \/ /\ phase[r] = "again"
        /\ Enters(r, Other(at[r]), "second")
        /\ UNCHANGED orders
  /\ UNCHANGED <<active, unit, cool, round, seen, seenLock, scriptVars>>

\* A transport error: the first one has the slot started and is tried again, the
\* second one turns to the other slot or, there, ends in a 503.
Refused(r) ==
  /\ \/ /\ phase[r] \in {"first", "second"}
        /\ phase' = [phase EXCEPT ![r] = IF @ = "first" THEN "again" ELSE "last"]
        /\ orders' = orders \union {<<"start", at[r]>>}
        /\ UNCHANGED <<at, quiet>>
     \/ /\ phase[r] = "again"
        /\ Enters(r, Other(at[r]), "second")
        /\ UNCHANGED orders
     \/ /\ phase[r] = "last"
        /\ Leaves(r)
        /\ UNCHANGED <<orders, quiet>>
  /\ UNCHANGED <<active, unit, cool, round, seen, seenLock, scriptVars>>

\* The stream ends or the client goes away.
Ends(r) ==
  /\ phase[r] # "idle"
  /\ Leaves(r)
  /\ UNCHANGED <<active, unit, proxyVars, scriptVars>>

\* Mutant of Allowed: the token is not compared.
AllowedAll(d) == TRUE

\* check_switch_allowed: a free lock, or the token of its holder; an operator's
\* request brings no token.
Allowed(d) == lock = None \/ lock = d

\* set_active: the file, then a start of the slot.
SetActive(s) ==
  /\ active' = s
  /\ orders' = orders \union {<<"start", s>>}
  /\ UNCHANGED <<quiet, cool, round, seen, seenLock>>

Manual(s) ==
  /\ Allowed(None)
  /\ SetActive(s)
  /\ UNCHANGED <<unit, requestVars, scriptVars>>

-------------------------------------------------------------------------------
(* The slot manager *)

Wake ==
  /\ round = {}
  /\ round' = Slots /\ seen' = active /\ seenLock' = (lock # None)
  /\ UNCHANGED <<active, unit, orders, quiet, cool, requestVars, scriptVars>>

\* Mutants of Decide: an active slot without traffic is left asleep.
DecideAsleep(s, healthy) ==
  IF cool[s] < Cooldown THEN "none"
  ELSE IF s = seen THEN (IF healthy \/ quiet[s] >= Idle THEN "none" ELSE "start")
  ELSE IF /\ healthy /\ Idle > 0 /\ quiet[s] >= Idle /\ ~seenLock
          /\ \A r \in Requests : at[r] # s
       THEN "stop" ELSE "none"

\* Mutant of Decide: a deployment suspends the healing of the active slot, too.
DecideSuspended(s, healthy) ==
  IF seenLock \/ cool[s] < Cooldown THEN "none"
  ELSE IF s = seen THEN (IF healthy THEN "none" ELSE "start")
  ELSE IF /\ healthy /\ Idle > 0 /\ quiet[s] >= Idle
          /\ \A r \in Requests : at[r] # s
       THEN "stop" ELSE "none"

\* decide, with auto_heal on.
Decide(s, healthy) ==
  IF cool[s] < Cooldown THEN "none"
  ELSE IF s = seen THEN (IF healthy THEN "none" ELSE "start")
  ELSE IF /\ healthy /\ Idle > 0 /\ quiet[s] >= Idle /\ ~seenLock
          /\ \A r \in Requests : at[r] # s
       THEN "stop" ELSE "none"

\* The probe, which may also time out, and the decision.
Check(s) ==
  \E healthy \in {unit[s] = "running", FALSE} :
    LET action == Decide(s, healthy)
    IN  /\ s \in round
        /\ round' = round \ {s}
        /\ IF action = "none"
           THEN UNCHANGED <<orders, cool>>
           ELSE /\ orders' = orders \union {<<action, s>>}
                /\ cool' = [cool EXCEPT ![s] = 0]
        /\ UNCHANGED <<active, unit, quiet, seen, seenLock, requestVars, scriptVars>>

Tick ==
  /\ quiet' = [s \in Slots |-> IF quiet[s] < Idle THEN quiet[s] + 1 ELSE Idle]
  /\ cool' = [s \in Slots |-> IF cool[s] < Cooldown THEN cool[s] + 1 ELSE Cooldown]
  /\ UNCHANGED <<active, unit, orders, round, seen, seenLock, requestVars, scriptVars>>

-------------------------------------------------------------------------------
(* The deploy script.  A session in mode "unheld" runs a stage command whose     *)
(* forked holder has been killed: the command itself still has the lock open.    *)

Goes(d, place) ==
  step' = [step EXCEPT ![d] = place] /\ UNCHANGED <<mode, current, target>>

Quits(d) ==
  /\ step' = [step EXCEPT ![d] = "idle"] /\ mode' = [mode EXCEPT ![d] = None]
  /\ current' = [current EXCEPT ![d] = None] /\ target' = [target EXCEPT ![d] = None]

\* Mutant of Leave: an error leaves the lock behind.
LeaveLocked(d) ==
  IF mode[d] = "deploy" THEN Quits(d) /\ UNCHANGED lock
                        ELSE Goes(d, "staged") /\ UNCHANGED lock

\* The command ends, well or not: deploy's lock goes with it (HeldLock.__exit__);
\* that of stage lives on in the forked holder until lock-release, and switch may
\* be run again.
Leave(d) ==
  IF mode[d] = "deploy" THEN /\ Quits(d)
                             /\ lock' = IF lock = d THEN None ELSE lock
                        ELSE Goes(d, "staged") /\ UNCHANGED lock

\* deploy and stage read the active slot before they ask for the lock.  Only deploy
\* refuses a --slot that is the active one.
Begin(d) ==
  /\ step[d] = "idle"
  /\ step' = [step EXCEPT ![d] = "waiting"]
  /\ \E m \in Modes, s \in Slots :
       /\ m = "deploy" => s # active
       /\ mode' = [mode EXCEPT ![d] = m] /\ target' = [target EXCEPT ![d] = s]
  /\ current' = [current EXCEPT ![d] = active]
  /\ UNCHANGED <<active, unit, proxyVars, requestVars, lock>>

GivesUp(d) ==
  /\ step[d] = "waiting"
  /\ Quits(d)
  /\ UNCHANGED <<active, unit, proxyVars, requestVars, lock>>

\* Mutant of TakeLock: the lock is not waited for.
TakeLockHeld(d) ==
  /\ step[d] = "waiting"
  /\ lock' = d
  /\ Goes(d, "restart")
  /\ UNCHANGED <<active, unit, proxyVars, requestVars>>

TakeLock(d) ==
  /\ step[d] = "waiting" /\ lock = None
  /\ lock' = d
  /\ Goes(d, "restart")
  /\ UNCHANGED <<active, unit, proxyVars, requestVars>>

\* systemctl restart: stop, and start again once it has stopped.
Restart(d) ==
  /\ step[d] = "restart"
  /\ unit' = Terminated(target[d])
  /\ Goes(d, "booting")
  /\ UNCHANGED <<active, proxyVars, requestVars, lock>>

Boot(d) ==
  /\ step[d] = "booting" /\ unit[target[d]] # "draining"
  /\ unit' = Started(target[d])
  /\ Goes(d, "health")
  /\ UNCHANGED <<active, proxyVars, requestVars, lock>>

\* stage is over and its holder keeps the lock; if that was killed the lock goes.
Healthy(d) ==
  /\ step[d] = "health" /\ unit[target[d]] = "running"
  /\ Goes(d, IF mode[d] = "deploy" THEN "precheck" ELSE "staged")
  /\ lock' = IF mode[d] = "unheld" THEN None ELSE lock
  /\ UNCHANGED <<active, unit, proxyVars, requestVars>>

\* systemctl fails, wait_healthy gives up, a probe or the proxy cannot be reached.
\* stage has not printed its token yet: nobody can release the lock it leaves.
Raises(d) ==
  /\ step[d] \in Window \ {"restart"}
  /\ \/ /\ mode[d] = "deploy" \/ step[d] \notin Restarting
        /\ Leave(d)
     \/ /\ mode[d] = "stage" /\ step[d] \in Restarting
        /\ Goes(d, "orphaned") /\ UNCHANGED lock
     \/ /\ mode[d] = "unheld" /\ step[d] \in Restarting
        /\ Quits(d) /\ lock' = None
  /\ UNCHANGED <<active, unit, proxyVars, requestVars>>

Precheck(d) ==
  /\ step[d] = "precheck"
  /\ \/ Goes(d, "handoff") /\ UNCHANGED <<unit, lock>>
     \/ unit' = Terminated(target[d]) /\ Leave(d)
  /\ UNCHANGED <<active, proxyVars, requestVars>>

\* The switch command of a staged deployment, with the token of the holder.
StagedSwitch(d) ==
  /\ step[d] = "staged" /\ lock = d /\ target[d] # active
  /\ current' = [current EXCEPT ![d] = active]
  /\ step' = [step EXCEPT ![d] = "handoff"]
  /\ UNCHANGED <<active, unit, proxyVars, requestVars, lock, mode, target>>

\* The delta cache has been handed over, or not.
Switch(d) ==
  /\ step[d] = "handoff"
  /\ IF Allowed(d) THEN SetActive(target[d]) /\ Goes(d, "verify") /\ UNCHANGED lock
                   ELSE Leave(d) /\ UNCHANGED <<active, proxyVars>>
  /\ UNCHANGED <<unit, requestVars>>

Verified(d) ==
  /\ step[d] = "verify"
  /\ Leave(d)
  /\ UNCHANGED <<active, unit, proxyVars, requestVars>>

\* The checks through the proxy failed: back to the slot read before.
Unverified(d) ==
  /\ step[d] = "verify"
  /\ IF Allowed(d) THEN SetActive(current[d]) /\ Goes(d, "rollback") /\ UNCHANGED lock
                   ELSE Leave(d) /\ UNCHANGED <<active, proxyVars>>
  /\ UNCHANGED <<unit, requestVars>>

\* bring_up_backend of the old slot, then deploy stops the new one; when the old
\* slot does not come up the command ends there.
RolledBack(d) ==
  /\ step[d] = "rollback"
  /\ \/ /\ unit[current[d]] = "running"
        /\ unit' = IF mode[d] = "deploy" THEN Terminated(target[d]) ELSE unit
     \/ unit' = Started(current[d])
  /\ Leave(d)
  /\ UNCHANGED <<active, proxyVars, requestVars>>

\* lock-release with the token stage has printed.
Release(d) ==
  /\ step[d] = "staged"
  /\ Quits(d)
  /\ lock' = IF lock = d THEN None ELSE lock
  /\ UNCHANGED <<active, unit, proxyVars, requestVars>>

\* lock-release --force kills the process the lock file names: the deploy command,
\* whose restart systemd carries on, or the holder stage has forked.
ForceRelease(d) ==
  /\ lock = d /\ mode[d] # "unheld"
  /\ \/ /\ mode[d] = "deploy"
        /\ lock' = None /\ Quits(d)
        /\ orders' = orders \union
             (IF step[d] = "booting" THEN {<<"start", target[d]>>} ELSE {})
     \/ /\ mode[d] = "stage" /\ step[d] \in Restarting
        /\ mode' = [mode EXCEPT ![d] = "unheld"]
        /\ UNCHANGED <<lock, step, current, target, orders>>
     \/ /\ mode[d] = "stage" /\ step[d] \notin Restarting
        /\ lock' = None
        /\ IF step[d] = "orphaned" THEN Quits(d) ELSE Goes(d, step[d])
        /\ UNCHANGED orders
  /\ UNCHANGED <<active, unit, quiet, cool, round, seen, seenLock, requestVars>>

-------------------------------------------------------------------------------
Systemd ==
  \/ \E order \in Orders : Execute(order)
  \/ \E s \in Slots : Up(s) \/ StartFails(s) \/ Exits(s) \/ Crash(s)

Proxy ==
  \/ \E r \in Requests : Arrive(r) \/ Connects(r) \/ Refused(r) \/ Ends(r)
  \/ \E s \in Slots : Manual(s) \/ Check(s)
  \/ Wake \/ Tick

Command(d) ==
  \/ Restart(d) \/ Boot(d) \/ Healthy(d) \/ Raises(d) \/ Precheck(d)
  \/ Switch(d) \/ Verified(d) \/ Unverified(d) \/ RolledBack(d)

Script ==
  \E d \in Sessions :
    \/ Begin(d) \/ GivesUp(d) \/ TakeLock(d) \/ Command(d)
    \/ StagedSwitch(d) \/ Release(d) \/ ForceRelease(d)

Next == Systemd \/ Proxy \/ Script

Spec == Init /\ [][Next]_vars

\* systemd carries out what it is told, the manager's loop goes on and time
\* passes; an attempt to connect and each command of the script come to an end.
Fairness ==
  /\ \A s \in Slots :
       /\ SF_vars(Execute(<<"start", s>>)) /\ WF_vars(Exits(s)) /\ WF_vars(Check(s))
  /\ WF_vars(Wake) /\ WF_vars(Tick)
  /\ \A r \in Requests : WF_vars(Connects(r) \/ Refused(r))
  /\ \A d \in Sessions : WF_vars(Command(d))

FairSpec == Spec /\ Fairness

-------------------------------------------------------------------------------
(* Properties *)

\* Restarting a slot, and all that a one-shot deployment does, is done by one
\* session at a time, whatever the others, forced releases and failures do.
ExclusiveWindow ==
  \A d \in Sessions :
    step[d] \in Restarting \/ (mode[d] = "deploy" /\ step[d] \in Window) => lock = d

\* While a session holds the lock nobody else moves the traffic: neither an
\* operator nor a session whose lock was forced from it and that now rolls back.
SwitchesGuarded ==
  [][active' # active => lock = None \/ Switch(lock) \/ Unverified(lock)]_vars

\* A dead active slot is started again, also during a deployment that hangs and
\* when the lock is never released.
ActiveComesBack ==
  \A s \in Slots :
    active = s /\ unit[s] = "stopped" ~> active # s \/ unit[s] # "stopped"

\* Every request gets to a backend or its 503 however often slots are switched,
\* stopped, started and crash under it: it makes no more than four attempts.
RequestsAnswered ==
  \A r \in Requests :
    phase[r] \notin {"idle", "stream"} ~> phase[r] \in {"idle", "stream"}

\* A one-shot deployment gives its lock back, on every path through its errors.
DeployEnds == \A d \in Sessions : lock = d /\ mode[d] = "deploy" ~> lock # d

\* No run checks it, for a deployment that waited for the lock breaks it: "deploy must
\* target the inactive slot", no session restarts the slot that has
\* the traffic.
SparesActive == [][\A d \in Sessions : Restart(d) => target[d] # active]_vars
===============================================================================
