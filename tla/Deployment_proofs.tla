--------------------------- MODULE Deployment_proofs --------------------------
(***************************************************************************)
(* Proofs about Deployment, for any number of sessions and requests and    *)
(* any idle and cooldown times.                                            *)
(***************************************************************************)
EXTENDS Deployment, TLAPS

-------------------------------------------------------------------------------
(* Type correctness *)

ProxyOK ==
  /\ orders \subseteq Orders
  /\ quiet \in [Slots -> 0..Idle] /\ cool \in [Slots -> 0..Cooldown]
  /\ round \subseteq Slots /\ seen \in Slots /\ seenLock \in BOOLEAN
UnitOK == unit \in [Slots -> {"stopped", "starting", "running", "draining"}]
RequestsOK ==
  /\ phase \in [Requests -> {"idle", "first", "again", "second", "last", "stream"}]
  /\ at \in [Requests -> Slots \union {None}]
  /\ \A r \in Requests : phase[r] = "idle" <=> at[r] = None
ScriptOK ==
  /\ lock \in Sessions \union {None}
  /\ step \in [Sessions -> Steps] /\ mode \in [Sessions -> Modes \union {"unheld", None}]
  /\ current \in [Sessions -> Slots \union {None}]
  /\ target \in [Sessions -> Slots \union {None}]
  /\ \A d \in Sessions : step[d] # "idle" => current[d] # None /\ target[d] # None

\* The type invariant in four parts, one for each group of variables.
LEMMA TypeParts == TypeOK <=> active \in Slots /\ UnitOK /\ ProxyOK /\ RequestsOK /\ ScriptOK
BY DEF TypeOK, UnitOK, ProxyOK, RequestsOK, ScriptOK

\* The other slot is a slot.
LEMMA OtherType ==
  ASSUME NEW s \in Slots
  PROVE  Other(s) \in Slots /\ Other(s) # s
<1>1. \E t \in Slots : t # s
  BY SlotsAssumption
<1> QED
  BY <1>1 DEF Other

\* A request enters a slot ...
LEMMA EntersType ==
  ASSUME TypeOK, NEW r \in Requests, NEW s \in Slots,
         NEW p \in {"first", "second"}, Enters(r, s, p)
  PROVE  RequestsOK' /\ quiet' \in [Slots -> 0..Idle]
<1>1. s # None /\ 0 \in 0..Idle
  BY DeploymentAssumption
<1> QED
  BY <1>1 DEF TypeOK, Enters, RequestsOK

\* ... and leaves it, by itself ...
LEMMA LeavesType ==
  ASSUME TypeOK, NEW r \in Requests, Leaves(r)
  PROVE  RequestsOK'
BY DEF TypeOK, Leaves, RequestsOK

\* ... or with its process.
LEMMA DroppedType ==
  ASSUME TypeOK, NEW s \in Slots, Dropped(s)
  PROVE  RequestsOK'
BY DEF TypeOK, Dropped, RequestsOK

\* systemd leaves every unit in one of its states.
LEMMA UnitTypes ==
  ASSUME TypeOK, NEW s \in Slots
  PROVE  /\ Terminated(s) \in [Slots -> {"stopped", "starting", "running", "draining"}]
         /\ Started(s) \in [Slots -> {"stopped", "starting", "running", "draining"}]
BY DEF TypeOK, Terminated, Started

\* A command that goes on, or ends, keeps the types of the script's variables.
LEMMA LocalsType ==
  ASSUME TypeOK, NEW d \in Sessions, step[d] # "idle",
         Quits(d) \/ (\E place \in Steps \ {"idle"} : Goes(d, place)),
         lock' \in Sessions \union {None}
  PROVE  ScriptOK'
<1>1. CASE Quits(d)
  BY <1>1 DEF TypeOK, ScriptOK, Quits, Steps
<1>2. ASSUME NEW place \in Steps \ {"idle"}, Goes(d, place)
      PROVE  ScriptOK'
  BY <1>2 DEF TypeOK, ScriptOK, Goes
<1> QED
  BY <1>1, <1>2

\* ... and so does leaving the command with its lock.
LEMMA LeaveType ==
  ASSUME TypeOK, NEW d \in Sessions, step[d] # "idle", Leave(d)
  PROVE  ScriptOK'
<1>1. lock' \in Sessions \union {None}
  BY DEF TypeOK, Leave
<1>2. Quits(d) \/ Goes(d, "staged")
  BY DEF Leave
<1> QED
  BY <1>1, <1>2, LocalsType DEF Steps

\* What systemd does keeps the types.
LEMMA SystemdType ==
  ASSUME TypeOK, Systemd
  PROVE  TypeOK'
<1>1. ASSUME NEW order \in Orders, Execute(order)
      PROVE  TypeOK'
  <2>1. order[2] \in Slots
    BY DEF Orders
  <2>2. UnitOK'
    BY <1>1, <2>1, UnitTypes DEF Execute, UnitOK
  <2>3. ProxyOK'
    BY <1>1 DEF Execute, TypeOK, ProxyOK
  <2>4. active' \in Slots /\ RequestsOK' /\ ScriptOK'
    BY <1>1 DEF Execute, TypeOK, RequestsOK, ScriptOK, requestVars, scriptVars
  <2> QED
    BY <2>2, <2>3, <2>4, TypeParts DEF TypeOK, UnitOK, ProxyOK, RequestsOK, ScriptOK
<1>2. ASSUME NEW s \in Slots, Up(s) \/ StartFails(s)
      PROVE  TypeOK'
  BY <1>2 DEF TypeOK, Up, StartFails, proxyVars, requestVars, scriptVars
<1>3. ASSUME NEW s \in Slots, Exits(s) \/ Crash(s)
      PROVE  TypeOK'
  <2>1. RequestsOK'
    BY <1>3, DroppedType DEF Exits, Crash
  <2> QED
    BY <1>3, <2>1 DEF TypeOK, RequestsOK, Exits, Crash, proxyVars, scriptVars
<1> QED
  BY <1>1, <1>2, <1>3 DEF Systemd

\* What the requests at the proxy do keeps the types.
LEMMA RequestsType ==
  ASSUME TypeOK, NEW r \in Requests,
         Arrive(r) \/ Connects(r) \/ Refused(r) \/ Ends(r)
  PROVE  TypeOK'
<1>1. CASE Arrive(r)
  <2>1. RequestsOK' /\ quiet' \in [Slots -> 0..Idle]
    BY <1>1, EntersType DEF Arrive, TypeOK
  <2> QED
    BY <1>1, <2>1 DEF TypeOK, RequestsOK, Arrive, scriptVars
<1>2. CASE Connects(r)
  BY <1>2 DEF TypeOK, Connects, proxyVars, scriptVars
<1>3. CASE Refused(r)
  <2>1. phase[r] # "idle" => at[r] \in Slots
    BY DEF TypeOK
  <2>2. CASE phase[r] \in {"first", "second"}
    <3>1. <<"start", at[r]>> \in Orders
      BY <2>1, <2>2 DEF Orders
    <3> QED
      BY <1>3, <2>2, <3>1 DEF TypeOK, Refused, scriptVars
  <2>3. CASE phase[r] = "again"
    <3>1. Other(at[r]) \in Slots
      BY <2>1, <2>3, OtherType
    <3>2. Enters(r, Other(at[r]), "second") /\ orders' = orders
      BY <1>3, <2>3 DEF Refused
    <3>3. RequestsOK' /\ quiet' \in [Slots -> 0..Idle]
      BY <3>1, <3>2, EntersType
    <3> QED
      BY <1>3, <3>2, <3>3 DEF TypeOK, RequestsOK, Refused, scriptVars
  <2>4. CASE phase[r] = "last"
    <3>1. Leaves(r) /\ orders' = orders /\ quiet' = quiet
      BY <1>3, <2>4 DEF Refused
    <3>2. RequestsOK'
      BY <3>1, LeavesType
    <3> QED
      BY <1>3, <3>1, <3>2 DEF TypeOK, RequestsOK, Refused, scriptVars
  <2> QED
    BY <1>3, <2>2, <2>3, <2>4 DEF Refused
<1>4. CASE Ends(r)
  <2>1. RequestsOK'
    BY <1>4, LeavesType DEF Ends
  <2> QED
    BY <1>4, <2>1 DEF TypeOK, RequestsOK, Ends, proxyVars, scriptVars
<1> QED
  BY <1>1, <1>2, <1>3, <1>4

\* What the switch handler and the slot manager do keeps the types.
LEMMA ManagerType ==
  ASSUME TypeOK, (\E s \in Slots : Manual(s) \/ Check(s)) \/ Wake \/ Tick
  PROVE  TypeOK'
<1>1. ASSUME NEW s \in Slots, Manual(s)
      PROVE  TypeOK'
  BY <1>1 DEF TypeOK, Manual, SetActive, Orders, requestVars, scriptVars
<1>2. ASSUME NEW s \in Slots, Check(s)
      PROVE  TypeOK'
  <2>1. PICK healthy \in {unit[s] = "running", FALSE} :
          LET action == Decide(s, healthy)
          IN  /\ round' = round \ {s}
              /\ IF action = "none"
                 THEN UNCHANGED <<orders, cool>>
                 ELSE /\ orders' = orders \union {<<action, s>>}
                      /\ cool' = [cool EXCEPT ![s] = 0]
    BY <1>2 DEF Check
  <2>2. Decide(s, healthy) \in {"none", "start", "stop"}
    BY DEF Decide
  <2>3. round' \subseteq Slots
    BY <2>1 DEF TypeOK
  <2>4. orders' \subseteq Orders /\ cool' \in [Slots -> 0..Cooldown]
    <3>1. CASE Decide(s, healthy) = "none"
      BY <2>1, <3>1 DEF TypeOK
    <3>2. CASE Decide(s, healthy) \in {"start", "stop"}
      <4>1. orders' = orders \union {<<Decide(s, healthy), s>>} /\ cool' = [cool EXCEPT ![s] = 0]
        BY <2>1, <3>2
      <4>2. <<Decide(s, healthy), s>> \in Orders /\ 0 \in 0..Cooldown
        BY <3>2, DeploymentAssumption DEF Orders
      <4> QED
        BY <4>1, <4>2 DEF TypeOK
    <3> QED
      BY <2>2, <3>1, <3>2
  <2> QED
    BY <1>2, <2>3, <2>4 DEF TypeOK, Check, requestVars, scriptVars
<1>3. CASE Wake
  BY <1>3 DEF TypeOK, Wake, requestVars, scriptVars
<1>4. CASE Tick
  <2>1. ASSUME NEW n \in Nat, NEW m \in 0..n
        PROVE  (IF m < n THEN m + 1 ELSE n) \in 0..n
    OBVIOUS
  <2>2. quiet' \in [Slots -> 0..Idle] /\ cool' \in [Slots -> 0..Cooldown]
    BY <1>4, <2>1, DeploymentAssumption DEF TypeOK, Tick
  <2> QED
    BY <1>4, <2>2 DEF TypeOK, Tick, requestVars, scriptVars
<1> QED
  BY <1>1, <1>2, <1>3, <1>4

\* What a session of the script does keeps the types.
LEMMA ScriptType ==
  ASSUME TypeOK, NEW d \in Sessions,
         \/ Begin(d) \/ GivesUp(d) \/ TakeLock(d) \/ Command(d)
         \/ StagedSwitch(d) \/ Release(d) \/ ForceRelease(d)
  PROVE  TypeOK'
<1> USE DEF proxyVars, requestVars
<1>1. CASE Begin(d)
  BY <1>1, DeploymentAssumption DEF TypeOK, Begin, Steps
<1>2. ASSUME step[d] # "idle"
      PROVE  target[d] \in Slots /\ current[d] \in Slots
  BY <1>2 DEF TypeOK
<1>3. CASE GivesUp(d) \/ TakeLock(d) \/ Release(d)
  <2>1. step[d] # "idle" /\ lock' \in Sessions \union {None}
    BY <1>3 DEF TypeOK, GivesUp, TakeLock, Release
  <2>2. Quits(d) \/ Goes(d, "restart")
    BY <1>3 DEF GivesUp, TakeLock, Release
  <2>3. ScriptOK'
    BY <2>1, <2>2, LocalsType DEF Steps, Window, Restarting
  <2> QED
    BY <1>3, <2>3 DEF TypeOK, ScriptOK, GivesUp, TakeLock, Release
<1>4. CASE Restart(d) \/ Boot(d)
  <2>1. step[d] # "idle" /\ lock' \in Sessions \union {None}
    BY <1>4 DEF TypeOK, Restart, Boot
  <2>2. Goes(d, "booting") \/ Goes(d, "health")
    BY <1>4 DEF Restart, Boot
  <2>3. ScriptOK'
    BY <2>1, <2>2, LocalsType DEF Steps, Window, Restarting
  <2>4. UnitOK'
    BY <1>2, <1>4, <2>1, UnitTypes DEF Restart, Boot, UnitOK
  <2> QED
    BY <1>4, <2>3, <2>4 DEF TypeOK, UnitOK, ScriptOK, Restart, Boot
<1>5. CASE Healthy(d)
  <2>1. step[d] # "idle" /\ lock' \in Sessions \union {None}
    BY <1>5 DEF TypeOK, Healthy
  <2>2. Goes(d, "precheck") \/ Goes(d, "staged")
    BY <1>5 DEF Healthy
  <2>3. ScriptOK'
    BY <2>1, <2>2, LocalsType DEF Steps, Window
  <2> QED
    BY <1>5, <2>3 DEF TypeOK, ScriptOK, Healthy
<1>6. CASE Raises(d) \/ Verified(d)
  <2>1. step[d] # "idle"
    BY <1>6 DEF Raises, Verified, Window, Restarting
  <2>2. Leave(d) \/ ((Goes(d, "orphaned") \/ Quits(d)) /\ lock' \in {lock, None})
    BY <1>6 DEF Raises, Verified
  <2>3. ScriptOK'
    BY <2>1, <2>2, LeaveType, LocalsType DEF TypeOK, Steps
  <2> QED
    BY <1>6, <2>3 DEF TypeOK, ScriptOK, Raises, Verified
<1>7. CASE Precheck(d)
  <2>1. step[d] # "idle"
    BY <1>7 DEF Precheck
  <2>2. UnitOK'
    BY <1>2, <1>7, <2>1, UnitTypes DEF Precheck, UnitOK, TypeOK
  <2>3. ScriptOK'
    <3>1. CASE Goes(d, "handoff") /\ UNCHANGED lock
      BY <2>1, <3>1, LocalsType DEF TypeOK, Steps, Window
    <3> QED
      BY <1>7, <2>1, <3>1, LeaveType DEF Precheck
  <2> QED
    BY <1>7, <2>2, <2>3 DEF TypeOK, UnitOK, ScriptOK, Precheck
<1>8. CASE StagedSwitch(d)
  BY <1>8, DeploymentAssumption DEF TypeOK, StagedSwitch, Steps, Window
<1>9. CASE Switch(d) \/ Unverified(d)
  <2>1. step[d] # "idle"
    BY <1>9 DEF Switch, Unverified
  <2>2. CASE Allowed(d)
    <3>1. PICK s \in Slots : SetActive(s)
      BY <1>2, <1>9, <2>1, <2>2 DEF Switch, Unverified
    <3>2. active' \in Slots /\ ProxyOK'
      BY <3>1 DEF SetActive, TypeOK, ProxyOK, Orders
    <3>3. Goes(d, "verify") \/ Goes(d, "rollback")
      BY <1>9, <2>2 DEF Switch, Unverified
    <3>4. ScriptOK'
      BY <1>9, <2>1, <2>2, <3>3, LocalsType DEF TypeOK, Switch, Unverified, Steps, Window
    <3> QED
      BY <1>9, <3>2, <3>4 DEF TypeOK, ProxyOK, ScriptOK, Switch, Unverified
  <2>3. CASE ~Allowed(d)
    <3>1. ScriptOK'
      BY <1>9, <2>1, <2>3, LeaveType DEF Switch, Unverified
    <3> QED
      BY <1>9, <2>3, <3>1 DEF TypeOK, ScriptOK, Switch, Unverified
  <2> QED
    BY <2>2, <2>3
<1>10. CASE RolledBack(d)
  <2>1. step[d] # "idle"
    BY <1>10 DEF RolledBack
  <2>2. UnitOK'
    BY <1>2, <1>10, <2>1, UnitTypes DEF RolledBack, UnitOK, TypeOK
  <2>3. ScriptOK'
    BY <1>10, <2>1, LeaveType DEF RolledBack
  <2> QED
    BY <1>10, <2>2, <2>3 DEF TypeOK, UnitOK, ScriptOK, RolledBack
<1>11. CASE ForceRelease(d)
  <2>1. CASE mode[d] = "stage" /\ step[d] \in Restarting
    BY <1>11, <2>1 DEF TypeOK, ForceRelease
  <2>2. CASE ~(mode[d] = "stage" /\ step[d] \in Restarting)
    <3>1. orders' \subseteq Orders
      <4>1. step[d] = "booting" => <<"start", target[d]>> \in Orders
        BY <1>2 DEF Orders
      <4> QED
        BY <1>11, <2>2, <4>1 DEF TypeOK, ForceRelease
    <3>2. lock' = None
      BY <1>11, <2>2 DEF ForceRelease
    <3>3. CASE step[d] # "idle"
      <4>1. Quits(d) \/ Goes(d, step[d])
        BY <1>11, <2>2 DEF ForceRelease
      <4>2. ScriptOK'
        BY <3>2, <3>3, <4>1, LocalsType DEF TypeOK
      <4> QED
        BY <1>11, <3>1, <4>2 DEF TypeOK, ScriptOK, ForceRelease
    <3>4. CASE step[d] = "idle"
      BY <1>11, <3>1, <3>2, <3>4 DEF TypeOK, ForceRelease, Quits, Goes, Steps
    <3> QED
      BY <3>3, <3>4
  <2> QED
    BY <2>1, <2>2
<1> QED
  BY <1>1, <1>3, <1>4, <1>5, <1>6, <1>7, <1>8, <1>9, <1>10, <1>11 DEF Command

\* The state of proxy, manager, units, requests and sessions keeps its type.
THEOREM TypeCorrect == Spec => []TypeOK
<1>1. Init => TypeOK
  <2> SUFFICES ASSUME Init
               PROVE  TypeOK
    OBVIOUS
  <2>1. active \in Slots /\ UnitOK /\ RequestsOK
    BY DeploymentAssumption DEF Init, UnitOK, RequestsOK
  <2>2. ProxyOK
    <3>1. 0 \in 0..Idle /\ Cooldown \in 0..Cooldown
      BY DeploymentAssumption
    <3>2. quiet \in [Slots -> 0..Idle] /\ cool \in [Slots -> 0..Cooldown]
      BY <3>1 DEF Init
    <3> QED
      BY <3>2 DEF Init, ProxyOK
  <2>3. ScriptOK
    BY DEF Init, ScriptOK, Steps
  <2> QED
    BY <2>1, <2>2, <2>3, TypeParts
<1>2. TypeOK /\ [Next]_vars => TypeOK'
  <2> SUFFICES ASSUME TypeOK, [Next]_vars
               PROVE  TypeOK'
    OBVIOUS
  <2>1. CASE Systemd
    BY <2>1, SystemdType
  <2>2. CASE Proxy
    BY <2>2, RequestsType, ManagerType DEF Proxy
  <2>3. CASE Script
    BY <2>3, ScriptType DEF Script
  <2>4. CASE UNCHANGED vars
    BY <2>4 DEF TypeOK, vars, proxyVars, requestVars, scriptVars
  <2> QED
    BY <2>1, <2>2, <2>3, <2>4 DEF Next
<1> QED
  BY <1>1, <1>2, PTL DEF Spec

-------------------------------------------------------------------------------
(* One session at a time *)

\* A command that ends takes the lock from nobody else.
LEMMA EndKeepsOthers ==
  ASSUME TypeOK, ExclusiveWindow, NEW d \in Sessions,
         lock' = lock \/ lock = d,
         \/ Quits(d)
         \/ \E place \in Steps \ Restarting :
              Goes(d, place) /\ (mode[d] = "deploy" => place \notin Window)
  PROVE  ExclusiveWindow'
BY DeploymentAssumption DEF TypeOK, ExclusiveWindow, Quits, Goes, Window, Restarting

\* ... which is so when it leaves ...
LEMMA LeaveKeepsOthers ==
  ASSUME TypeOK, ExclusiveWindow, NEW d \in Sessions, Leave(d)
  PROVE  ExclusiveWindow'
<1>1. lock' = lock \/ lock = d
  BY DEF Leave
<1>2. Quits(d) \/ (Goes(d, "staged") /\ mode[d] # "deploy")
  BY DEF Leave
<1> QED
  BY <1>1, <1>2, EndKeepsOthers DEF Steps, Window, Restarting

\* ... and a session that goes on in the window keeps the lock it has.
LEMMA GoesOnUnderLock ==
  ASSUME TypeOK, ExclusiveWindow, NEW d \in Sessions, NEW place, Goes(d, place),
         UNCHANGED lock,
         \/ place \in Restarting /\ step[d] \in Restarting
         \/ place \in Window \ Restarting /\ (mode[d] = "deploy" => step[d] \in Window)
         \/ place \notin Window
  PROVE  ExclusiveWindow'
BY DEF TypeOK, ExclusiveWindow, Goes, Window, Restarting

\* A session that restarts a slot, or is in the window of a one-shot deployment,
\* holds the lock: it takes it before, and every way out of the window is its own
\* or a forced release that ends it.
THEOREM WindowIsExclusive == Spec => []ExclusiveWindow
<1>1. Init => ExclusiveWindow
  BY DEF Init, ExclusiveWindow, Window, Restarting
<1>2. TypeOK /\ ExclusiveWindow /\ [Next]_vars => ExclusiveWindow'
  <2> SUFFICES ASSUME TypeOK, ExclusiveWindow, [Next]_vars
               PROVE  ExclusiveWindow'
    OBVIOUS
  <2>1. CASE UNCHANGED scriptVars
    BY <2>1 DEF ExclusiveWindow, scriptVars
  <2>2. ASSUME NEW d \in Sessions,
               \/ Begin(d) \/ GivesUp(d) \/ TakeLock(d) \/ Command(d)
               \/ StagedSwitch(d) \/ Release(d) \/ ForceRelease(d)
        PROVE  ExclusiveWindow'
    <3>1. d # None
      BY DeploymentAssumption
    <3>2. CASE Begin(d)
      BY <3>2 DEF TypeOK, ExclusiveWindow, Window, Restarting, Begin
    <3>3. CASE GivesUp(d) \/ Release(d)
      BY <3>1, <3>3, EndKeepsOthers DEF GivesUp, Release
    <3>4. CASE TakeLock(d)
      BY <3>1, <3>4, DeploymentAssumption
         DEF TypeOK, ExclusiveWindow, Window, Restarting, TakeLock, Goes
    <3>5. CASE Restart(d) \/ Boot(d)
      BY <3>5, GoesOnUnderLock DEF Restart, Boot, Restarting
    <3>6. CASE Healthy(d)
      <4>1. lock = d
        BY <3>6 DEF Healthy, ExclusiveWindow, Restarting
      <4> QED
        BY <3>6, <4>1 DEF Healthy, TypeOK, ExclusiveWindow, Goes, Window, Restarting
    <3>7. CASE Raises(d) \/ Verified(d) \/ RolledBack(d)
      <4>1. \/ Leave(d)
            \/ Goes(d, "orphaned") /\ UNCHANGED lock
            \/ Quits(d) /\ step[d] \in Restarting
        BY <3>7 DEF Raises, Verified, RolledBack
      <4>2. CASE Leave(d)
        BY <4>2, LeaveKeepsOthers
      <4>3. CASE Goes(d, "orphaned") /\ UNCHANGED lock
        BY <4>3, GoesOnUnderLock DEF Window, Restarting
      <4>4. CASE Quits(d) /\ step[d] \in Restarting
        BY <4>4, EndKeepsOthers DEF ExclusiveWindow
      <4> QED
        BY <4>1, <4>2, <4>3, <4>4
    <3>8. CASE Precheck(d)
      BY <3>8, GoesOnUnderLock, LeaveKeepsOthers DEF Precheck, Window, Restarting
    <3>9. CASE StagedSwitch(d)
      BY <3>9 DEF TypeOK, ExclusiveWindow, Restarting, StagedSwitch
    <3>10. CASE Switch(d) \/ Unverified(d)
      BY <3>10, GoesOnUnderLock, LeaveKeepsOthers DEF Switch, Unverified, Window, Restarting
    <3>11. CASE ForceRelease(d)
      <4>1. CASE mode[d] = "stage" /\ step[d] \in Restarting
        BY <3>11, <4>1 DEF TypeOK, ExclusiveWindow, ForceRelease
      <4>2. CASE ~(mode[d] = "stage" /\ step[d] \in Restarting)
        <5>1. lock = d /\ (Quits(d) \/ (Goes(d, step[d]) /\ mode[d] # "deploy" /\ step[d] \notin Restarting))
          BY <3>11, <4>2 DEF ForceRelease
        <5>2. step[d] \in Steps
          BY DEF TypeOK
        <5> QED
          BY <5>1, <5>2, EndKeepsOthers
      <4> QED
        BY <4>1, <4>2
    <3> QED
      BY <2>2, <3>2, <3>3, <3>4, <3>5, <3>6, <3>7, <3>8, <3>9, <3>10, <3>11
         DEF Command
  <2>3. Next => UNCHANGED scriptVars \/ Script
    BY DEF Next, Systemd, Proxy, Execute, Up, StartFails, Exits, Crash, Arrive, Connects,
           Refused, Ends, Manual, Check, Wake, Tick
  <2> QED
    BY <2>1, <2>2, <2>3 DEF Script, vars
<1> QED
  BY <1>1, <1>2, TypeCorrect, PTL DEF Spec

-------------------------------------------------------------------------------
(* Who moves the traffic *)

\* The active slot changes in the switch handler only, which compares the token:
\* while a session holds the lock the change is its switch or its rollback.
THEOREM SwitchesAreGuarded == Spec => SwitchesGuarded
<1> DEFINE Guarded == active' # active => lock = None \/ Switch(lock) \/ Unverified(lock)
<1>1. [Next]_vars => [Guarded]_vars
  <2> SUFFICES ASSUME Next, active' # active
               PROVE  lock = None \/ Switch(lock) \/ Unverified(lock)
    OBVIOUS
  <2>1. ~Systemd
    BY DEF Systemd, Execute, Up, StartFails, Exits, Crash
  <2>2. CASE Proxy
    <3>1. PICK s \in Slots : Manual(s)
      BY <2>2 DEF Proxy, Arrive, Connects, Refused, Ends, Check, Wake, Tick
    <3> QED
      BY <3>1 DEF Manual, Allowed
  <2>3. CASE Script
    <3>1. PICK d \in Sessions : Switch(d) \/ Unverified(d)
      BY <2>3 DEF Script, Command, Begin, GivesUp, TakeLock, StagedSwitch, Release,
                  ForceRelease, Restart, Boot, Healthy, Raises, Precheck, Verified, RolledBack
    <3>2. Allowed(d)
      BY <3>1 DEF Switch, Unverified, proxyVars
    <3> QED
      BY <3>1, <3>2 DEF Allowed
  <2> QED
    BY <2>1, <2>2, <2>3 DEF Next
<1> QED
  BY <1>1, PTL DEF Spec, SwitchesGuarded
===============================================================================
