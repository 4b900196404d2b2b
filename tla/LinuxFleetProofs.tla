-------------------------- MODULE LinuxFleetProofs --------------------------
(***************************************************************************)
(* For every number of slots, every bound and every mix of commands and    *)
(* faults: each step leaves every part of the state what it should be, and *)
(* the map of the recorded broker stays the one of the namespaces.         *)
(*                                                                         *)
(* First come lemmas that say what one step does to the memory of its      *)
(* command, field by field.  The later proofs cite these and never open a  *)
(* nested EXCEPT.                                                          *)
(***************************************************************************)
EXTENDS LinuxFleet, FiniteSetTheorems, TLAPS

RuntimeFile == [broker : Id \cup {None}, agents : [Slot -> Id \cup {None}]]

(* What a step leaves of the memory of a command. *)
Same(r, m) == r.cmd = m.cmd /\ r.count = m.count /\ r.then = m.then

(* A memory with another step is a memory. *)
LEMMA Moved ==
    ASSUME NEW m \in Memory, NEW p \in Steps
    PROVE  LET r == [m EXCEPT !.pc = p]
           IN  /\ r \in Memory /\ r.pc = p /\ Same(r, m)
               /\ r.at = m.at /\ r.runtime = m.runtime /\ r.endpoints = m.endpoints
BY DEF Memory, Same

LEMMA NoEndpointTyped == NoEndpoint \in Endpoint
BY BoundsAssumption DEF NoEndpoint, Endpoint, None, Address

LEMMA IdleTyped ==
    /\ Idle \in Memory /\ Idle.pc = "idle" /\ Idle.cmd = "none" /\ Idle.at = 1
    /\ Idle.then = "return"
<1>1. NoEndpoints \in [Slot -> Endpoint]
  BY NoEndpointTyped DEF NoEndpoints
<1>2. NoRuntime \in RuntimeFile
  BY DEF NoRuntime, NoAgents, RuntimeFile
<1>3. 1 \in Slot
  BY SlotAssumption DEF Slot
<1> QED
  BY <1>1, <1>2, <1>3 DEF Idle, Memory, RuntimeFile, Steps

-----------------------------------------------------------------------------
(* What Becomes, Goto, Over and Failed do. *)
LEMMA Becoming ==
    ASSUME TypeOK, NEW c \in Cli, NEW r \in Memory, Becomes(c, r)
    PROVE  /\ cli' \in [Cli -> Memory] /\ cli'[c] = r
           /\ \A d \in Cli \ {c} : cli'[d] = cli[d]
BY DEF TypeOK, Becomes

LEMMA GoingTo ==
    ASSUME TypeOK, NEW c \in Cli, NEW p \in Steps, Goto(c, p)
    PROVE  /\ cli' \in [Cli -> Memory]
           /\ cli'[c].pc = p /\ Same(cli'[c], cli[c])
           /\ cli'[c].at = cli[c].at /\ cli'[c].runtime = cli[c].runtime
           /\ cli'[c].endpoints = cli[c].endpoints
<1>1. cli[c] \in Memory
  BY DEF TypeOK
<1>2. [cli[c] EXCEPT !.pc = p] \in Memory
  BY <1>1, Moved
<1>3. cli' \in [Cli -> Memory] /\ cli'[c] = [cli[c] EXCEPT !.pc = p]
  BY <1>2, Becoming DEF Goto
<1> QED
  BY <1>1, <1>3, Moved

LEMMA Ending ==
    ASSUME TypeOK, NEW c \in Cli, NEW how, Over(c, how)
    PROVE  /\ cli' \in [Cli -> Memory]
           /\ cli'[c].pc = "idle" /\ cli'[c].cmd = "none" /\ last' = how
BY IdleTyped, Becoming DEF Over

LEMMA Failing ==
    ASSUME TypeOK, NEW c \in Cli, NEW m \in Memory, Becomes(c, Failed(m))
    PROVE  /\ cli' \in [Cli -> Memory]
           /\ cli'[c].pc = "stopAgents" /\ cli'[c].then = "raise"
           /\ cli'[c].cmd = m.cmd /\ cli'[c].count = m.count
           /\ cli'[c].at = m.at /\ cli'[c].runtime = m.runtime
           /\ cli'[c].endpoints = m.endpoints
<1>1. /\ Failed(m) \in Memory
      /\ Failed(m).pc = "stopAgents" /\ Failed(m).then = "raise"
      /\ Failed(m).cmd = m.cmd /\ Failed(m).count = m.count
      /\ Failed(m).at = m.at /\ Failed(m).runtime = m.runtime
      /\ Failed(m).endpoints = m.endpoints
  BY DEF Failed, Memory, Steps
<1>2. cli' \in [Cli -> Memory] /\ cli'[c] = Failed(m)
  BY <1>1, Becoming
<1> QED
  BY <1>1, <1>2

Creating == {"prepare", "netns", "keeper", "endpoint", "saveKeeper"}

(* The list of endpoints that the exception handler sees. *)
InList(m) == IF m.pc \in Creating THEN [m.endpoints EXCEPT ![m.at] = NoEndpoint]
             ELSE m.endpoints

(* The handler's list lacks the slot that up was creating. *)
LEMMA FailingUp ==
    ASSUME TypeOK, NEW c \in Cli, Becomes(c, Failed(Appended(cli[c])))
    PROVE  LET m == cli[c]  r == cli'[c] IN
           /\ cli' \in [Cli -> Memory]
           /\ r.pc = "stopAgents" /\ r.then = "raise"
           /\ r.cmd = m.cmd /\ r.count = m.count
           /\ r.at = m.at /\ r.runtime = m.runtime
           /\ r.endpoints = InList(m)
<1> DEFINE m == cli[c]
<1>1. m \in Memory
  BY DEF TypeOK
<1>2. /\ Appended(m) \in Memory
      /\ Appended(m).cmd = m.cmd /\ Appended(m).count = m.count
      /\ Appended(m).at = m.at /\ Appended(m).runtime = m.runtime
      /\ Appended(m).endpoints = InList(m)
  <2>1. CASE m.pc \in Creating
    <3>1. Appended(m) = [m EXCEPT !.endpoints[m.at] = NoEndpoint]
      BY <2>1 DEF Appended, Creating
    <3>2. /\ [m EXCEPT !.endpoints[m.at] = NoEndpoint] \in Memory
          /\ [m EXCEPT !.endpoints[m.at] = NoEndpoint].cmd = m.cmd
          /\ [m EXCEPT !.endpoints[m.at] = NoEndpoint].count = m.count
          /\ [m EXCEPT !.endpoints[m.at] = NoEndpoint].at = m.at
          /\ [m EXCEPT !.endpoints[m.at] = NoEndpoint].runtime = m.runtime
          /\ [m EXCEPT !.endpoints[m.at] = NoEndpoint].endpoints
                 = [m.endpoints EXCEPT ![m.at] = NoEndpoint]
      BY <1>1, NoEndpointTyped DEF Memory
    <3> QED
      BY <2>1, <3>1, <3>2 DEF InList
  <2>2. CASE m.pc \notin Creating
    BY <1>1, <2>2 DEF Appended, InList, Creating
  <2> QED
    BY <2>1, <2>2
<1> QED
  BY <1>2, Failing

(* The two ways on in a loop of up. *)
LEMMA AdvanceFields ==
    ASSUME NEW m \in Memory, NEW again \in Steps, NEW next \in Steps
    PROVE  LET a == Advance(m, again, next) IN
           /\ a \in Memory
           /\ Same(a, m) /\ a.runtime = m.runtime /\ a.endpoints = m.endpoints
           /\ \/ m.at < m.count /\ a.pc = again /\ a.at = m.at + 1
              \/ m.at >= m.count /\ a.pc = next /\ a.at = 1
<1>1. m.at \in Nat /\ m.count \in Nat /\ 1 \in Slot
  BY SlotAssumption DEF Memory, Slot
<1>2. CASE m.at < m.count
  <2>1. m.at + 1 \in Slot
    BY <1>1, <1>2, SlotAssumption DEF Memory, Slot
  <2> DEFINE r == [m EXCEPT !.pc = again, !.at = @ + 1]
  <2>2. r \in Memory /\ Same(r, m) /\ r.runtime = m.runtime /\ r.endpoints = m.endpoints
        /\ r.pc = again /\ r.at = m.at + 1
    BY <1>1, <2>1 DEF Memory, Same
  <2>3. Advance(m, again, next) = r
    BY <1>2, Zenon DEF Advance
  <2> HIDE DEF r
  <2> QED
    BY <1>2, <2>2, <2>3
<1>3. CASE ~ (m.at < m.count)
  <2> DEFINE r == [m EXCEPT !.pc = next, !.at = 1]
  <2>1. r \in Memory /\ Same(r, m) /\ r.runtime = m.runtime /\ r.endpoints = m.endpoints
        /\ r.pc = next /\ r.at = 1
    BY <1>1 DEF Memory, Same
  <2>2. Advance(m, again, next) = r
    BY <1>3, Zenon DEF Advance
  <2> HIDE DEF r
  <2> QED
    BY <1>1, <1>3, <2>1, <2>2
<1> QED
  BY <1>2, <1>3

LEMMA Advancing ==
    ASSUME TypeOK, NEW c \in Cli, NEW again \in Steps, NEW next \in Steps,
           Becomes(c, Advance(cli[c], again, next))
    PROVE  LET m == cli[c]  r == cli'[c] IN
           /\ cli' \in [Cli -> Memory]
           /\ Same(r, m) /\ r.runtime = m.runtime /\ r.endpoints = m.endpoints
           /\ \/ m.at < m.count /\ r.pc = again /\ r.at = m.at + 1
              \/ m.at >= m.count /\ r.pc = next /\ r.at = 1
<1> DEFINE a == Advance(cli[c], again, next)
<1>1. cli[c] \in Memory
  BY DEF TypeOK
<1>2. /\ a \in Memory
      /\ Same(a, cli[c]) /\ a.runtime = cli[c].runtime /\ a.endpoints = cli[c].endpoints
      /\ \/ cli[c].at < cli[c].count /\ a.pc = again /\ a.at = cli[c].at + 1
         \/ cli[c].at >= cli[c].count /\ a.pc = next /\ a.at = 1
  BY <1>1, AdvanceFields
<1> HIDE DEF a
<1>3. cli' \in [Cli -> Memory] /\ cli'[c] = a
  BY <1>2, Becoming DEF a
<1> QED
  BY <1>2, <1>3

LEMMA ListTyped ==
    ASSUME TypeOK PROVE EndpointList \in [Slot -> Endpoint]
BY NoEndpointTyped DEF EndpointList, TypeOK

(* down begins with what the files hold. *)
LEMMA Loading ==
    ASSUME TypeOK, NEW c \in Cli, NEW m \in Memory, Becomes(c, Loaded(m))
    PROVE  LET r == cli'[c] IN
           /\ cli' \in [Cli -> Memory]
           /\ Same(r, m) /\ r.pc = "stopAgents" /\ r.at = m.at
           /\ r.runtime = runtime /\ r.endpoints = EndpointList
<1>1. Loaded(m) \in Memory /\ Same(Loaded(m), m) /\ Loaded(m).pc = "stopAgents"
      /\ Loaded(m).at = m.at /\ Loaded(m).runtime = runtime
      /\ Loaded(m).endpoints = EndpointList
  <2>1. /\ "stopAgents" \in Steps /\ EndpointList \in [Slot -> Endpoint]
        /\ runtime \in [broker : Id \cup {None}, agents : [Slot -> Id \cup {None}]]
    BY ListTyped DEF Steps, TypeOK
  <2>2. Loaded(m) \in Memory
    BY <2>1, Zenon DEF Loaded, Memory
  <2>3. QED
    BY <2>2 DEF Loaded, Memory, Same
<1>2. cli' \in [Cli -> Memory] /\ cli'[c] = Loaded(m)
  BY <1>1, Becoming
<1> QED
  BY <1>1, <1>2

(* A user's command begins. *)
LEMMA StartingUp ==
    ASSUME TypeOK, NEW c \in Cli, StartUp(c)
    PROVE  LET r == cli'[c] IN
           /\ cli[c].pc = "idle" /\ cli' \in [Cli -> Memory]
           /\ r.cmd \in {"up", "acceptance"} /\ r.pc = "check" /\ r.at = 1
           /\ r.then = "return" /\ last' = "none"
           /\ UNCHANGED <<kernel, files, faults>>
<1>1. PICK cmd \in {"up", "acceptance"}, n \in Counts :
          /\ Starting(c, cmd)
          /\ Becomes(c, [Idle EXCEPT !.cmd = cmd, !.pc = "check", !.count = n])
  BY DEF StartUp
<1> DEFINE r == [Idle EXCEPT !.cmd = cmd, !.pc = "check", !.count = n]
<1>2. ASSUME NEW m \in Memory
      PROVE  LET x == [m EXCEPT !.cmd = cmd, !.pc = "check", !.count = n]
             IN  x \in Memory /\ x.cmd = cmd /\ x.pc = "check" /\ x.at = m.at /\ x.then = m.then
  BY CountsAssumption DEF Memory, CommandKinds, Steps
<1>3. r \in Memory /\ r.cmd = cmd /\ r.pc = "check" /\ r.at = 1 /\ r.then = "return"
  <2> HIDE DEF Idle
  <2> QED
    BY <1>2, IdleTyped
<1>4. Becomes(c, r)
  BY <1>1
<1> HIDE DEF r
<1>5. cli' \in [Cli -> Memory] /\ cli'[c] = r
  BY <1>3, <1>4, Becoming
<1> QED
  BY <1>1, <1>3, <1>5 DEF Starting, At

LEMMA StartingDown ==
    ASSUME TypeOK, NEW c \in Cli, StartDown(c)
    PROVE  LET r == cli'[c] IN
           /\ cli[c].pc = "idle" /\ cli' \in [Cli -> Memory]
           /\ r.cmd \in {"down", "purge", "recover"} /\ r.pc = "stopAgents"
           /\ r.at = 1 /\ r.then = "return" /\ last' = "none"
           /\ r.runtime = runtime /\ r.endpoints = EndpointList
           /\ UNCHANGED <<kernel, files, faults>>
<1>1. PICK cmd \in {"down", "purge", "recover"}, n \in Counts :
          /\ Starting(c, cmd)
          /\ Becomes(c, Loaded([Idle EXCEPT !.cmd = cmd, !.count = n]))
  BY DEF StartDown
<1> DEFINE x == [Idle EXCEPT !.cmd = cmd, !.count = n]
<1>2. ASSUME NEW m \in Memory
      PROVE  LET y == [m EXCEPT !.cmd = cmd, !.count = n]
             IN  y \in Memory /\ y.cmd = cmd /\ y.at = m.at /\ y.then = m.then
  BY CountsAssumption DEF Memory, CommandKinds
<1>3. x \in Memory /\ x.cmd = cmd /\ x.at = 1 /\ x.then = "return"
  BY <1>2, IdleTyped
<1>4. Becomes(c, Loaded(x))
  BY <1>1
<1> HIDE DEF x
<1> QED
  BY <1>1, <1>3, <1>4, Loading DEF Same, Starting, At

LEMMA StartingRestart ==
    ASSUME TypeOK, NEW c \in Cli, StartRestart(c)
    PROVE  LET r == cli'[c] IN
           /\ cli[c].pc = "idle" /\ cli' \in [Cli -> Memory]
           /\ r.cmd \in {"restart", "rotate"} /\ r.pc = "stopAgent"
           /\ Listed(r.at) /\ last' = "none"
           /\ r.runtime = runtime /\ r.endpoints = EndpointList
           /\ UNCHANGED <<kernel, files, faults>>
<1>1. PICK cmd \in {"restart", "rotate"}, s \in Slot :
          /\ Starting(c, cmd) /\ Listed(s)
          /\ Becomes(c, [Idle EXCEPT !.cmd = cmd, !.pc = "stopAgent", !.at = s,
                                   !.runtime = runtime, !.endpoints = EndpointList])
  BY DEF StartRestart
<1> DEFINE r == [Idle EXCEPT !.cmd = cmd, !.pc = "stopAgent", !.at = s,
                                   !.runtime = runtime, !.endpoints = EndpointList]
<1>2. ASSUME NEW m \in Memory, NEW e \in [Slot -> Endpoint]
      PROVE  LET x == [m EXCEPT !.cmd = cmd, !.pc = "stopAgent", !.at = s,
                                   !.runtime = runtime, !.endpoints = e]
             IN  /\ x \in Memory /\ x.cmd = cmd /\ x.pc = "stopAgent" /\ x.at = s
                 /\ x.runtime = runtime /\ x.endpoints = e
  <2>1. /\ cmd \in CommandKinds \cup {"none"} /\ "stopAgent" \in Steps
        /\ runtime \in [broker : Id \cup {None}, agents : [Slot -> Id \cup {None}]]
    BY DEF CommandKinds, Steps, TypeOK
  <2> DEFINE x == [m EXCEPT !.cmd = cmd, !.pc = "stopAgent", !.at = s,
                                   !.runtime = runtime, !.endpoints = e]
  <2>2. x \in Memory
    BY <2>1, Zenon DEF Memory
  <2>3. /\ x.cmd = cmd /\ x.pc = "stopAgent" /\ x.at = s
        /\ x.runtime = runtime /\ x.endpoints = e
    BY DEF Memory
  <2>4. QED
    BY <2>2, <2>3
<1>3. /\ r \in Memory /\ r.cmd = cmd /\ r.pc = "stopAgent" /\ r.at = s
                 /\ r.runtime = runtime /\ r.endpoints = EndpointList
  BY <1>2, IdleTyped, ListTyped
<1>4. Becomes(c, r)
  BY <1>1
<1> HIDE DEF r
<1>5. cli' \in [Cli -> Memory] /\ cli'[c] = r
  BY <1>3, <1>4, Becoming
<1> QED
  BY <1>1, <1>3, <1>5 DEF Starting, At

(* The steps that change more of the memory than its step. *)
LEMMA Checking ==
    ASSUME TypeOK, NEW c \in Cli, Check(c), ~ BrokerAlive(runtime.broker)
    PROVE  LET m == cli[c]  r == cli'[c] IN
           /\ cli' \in [Cli -> Memory]
           /\ Same(r, m) /\ r.pc = "bridge" /\ r.at = 1
           /\ r.runtime = NoRuntime /\ r.endpoints = NoEndpoints
           /\ last' = last
<1> DEFINE m == cli[c]
           r == [m EXCEPT !.pc = "bridge", !.at = 1, !.runtime = NoRuntime,
                          !.endpoints = NoEndpoints]
<1>1. NoRuntime \in RuntimeFile /\ NoEndpoints \in [Slot -> Endpoint] /\ 1 \in Slot
      /\ m \in Memory
  BY NoEndpointTyped, SlotAssumption
     DEF NoRuntime, NoAgents, RuntimeFile, NoEndpoints, Slot, TypeOK
<1>2. Becomes(c, r) /\ last' = last
  BY Zenon DEF Check
<1>3. ASSUME NEW x \in RuntimeFile, NEW y \in [Slot -> Endpoint]
      PROVE  LET z == [m EXCEPT !.pc = "bridge", !.at = 1, !.runtime = x, !.endpoints = y]
             IN  /\ z \in Memory /\ Same(z, m) /\ z.pc = "bridge" /\ z.at = 1
                 /\ z.runtime = x /\ z.endpoints = y
  BY <1>1 DEF Memory, RuntimeFile, Steps, Same
<1>4. /\ r \in Memory /\ Same(r, m) /\ r.pc = "bridge" /\ r.at = 1
      /\ r.runtime = NoRuntime /\ r.endpoints = NoEndpoints
  BY <1>1, <1>3
<1> HIDE DEF r
<1> QED
  BY <1>2, <1>4, Becoming

LEMMA Awaiting ==
    ASSUME TypeOK, NEW c \in Cli, AwaitBroker(c), BrokerAlive(cli[c].runtime.broker)
    PROVE  LET m == cli[c]  r == cli'[c] IN
           /\ cli' \in [Cli -> Memory]
           /\ Same(r, m) /\ r.pc = "agent" /\ r.at = 1
           /\ r.runtime = m.runtime /\ r.endpoints = m.endpoints
<1> DEFINE m == cli[c]
           r == [m EXCEPT !.pc = "agent", !.at = 1]
<1>1. 1 \in Slot /\ "agent" \in Steps /\ m \in Memory
  BY SlotAssumption DEF Slot, Steps, TypeOK
<1>2. Becomes(c, r)
  BY Zenon DEF AwaitBroker
<1>3. /\ r \in Memory /\ Same(r, m) /\ r.pc = "agent" /\ r.at = 1
      /\ r.runtime = m.runtime /\ r.endpoints = m.endpoints
  BY <1>1 DEF Memory, Same
<1> HIDE DEF r
<1> QED
  BY <1>2, <1>3, Becoming

LEMMA CreatingAgent ==
    ASSUME TypeOK, NEW c \in Cli, StartAgent(c)
    PROVE  \E pid \in FreshAgent :
             LET m == cli[c]  r == cli'[c]  s == m.at IN
             /\ m.pc = "agent"
             /\ agents' = IF CanEnter(s, m.endpoints[s])
                       THEN agents \cup {[pid |-> pid, slot |-> s, ns |-> netns[s]]}
                       ELSE agents
             /\ cli' \in [Cli -> Memory]
             /\ Same(r, m) /\ r.pc = "saveAgent" /\ r.at = m.at /\ r.endpoints = m.endpoints
             /\ r.runtime.broker = m.runtime.broker
             /\ r.runtime.agents = [m.runtime.agents EXCEPT ![s] = pid]
             /\ UNCHANGED <<brokers, keepers, netns, address, bridge, files, last, faults>>
<1> DEFINE m == cli[c]
           s == m.at
<1>0. m \in Memory /\ s \in Slot
  BY DEF TypeOK, Memory
<1>1. PICK pid \in FreshAgent :
          /\ agents' = IF CanEnter(s, m.endpoints[s])
                       THEN agents \cup {[pid |-> pid, slot |-> s, ns |-> netns[s]]}
                       ELSE agents
          /\ Becomes(c, [m EXCEPT !.pc = "saveAgent", !.runtime.agents[s] = pid])
  BY DEF StartAgent
<1>2. pid \in Id \cup {None}
  BY DEF FreshAgent, Fresh
<1> DEFINE r == [m EXCEPT !.pc = "saveAgent", !.runtime.agents[s] = pid]
<1>3. /\ r \in Memory /\ r.pc = "saveAgent" /\ Same(r, m)
      /\ r.at = m.at /\ r.endpoints = m.endpoints
      /\ r.runtime.broker = m.runtime.broker
      /\ r.runtime.agents = [m.runtime.agents EXCEPT ![s] = pid]
  BY <1>0, <1>2 DEF Memory, Same, Steps
<1>4. Becomes(c, r)
  BY <1>1
<1> HIDE DEF r
<1>5. cli' \in [Cli -> Memory] /\ cli'[c] = r
  BY <1>3, <1>4, Becoming
<1> QED
  BY <1>0, <1>1, <1>3, <1>5 DEF StartAgent, At, Quiet

LEMMA StoppingAgent ==
    ASSUME TypeOK, NEW c \in Cli, StopAgent(c)
    PROVE  LET m == cli[c]  r == cli'[c] IN
           /\ m.pc = "stopAgent"
           /\ agents' = {a \in agents : a.pid # m.runtime.agents[m.at]}
           /\ cli' \in [Cli -> Memory]
           /\ Same(r, m) /\ r.at = m.at /\ r.endpoints = m.endpoints
           /\ (r.pc = "lease" /\ m.cmd = "rotate") \/ (r.pc = "agent" /\ m.cmd # "rotate")
           /\ r.runtime.broker = m.runtime.broker
           /\ r.runtime.agents = [m.runtime.agents EXCEPT ![m.at] = None]
           /\ UNCHANGED <<brokers, keepers, netns, address, bridge, files, last, faults>>
<1> DEFINE m == cli[c]
           s == m.at
           p == IF m.cmd = "rotate" THEN "lease" ELSE "agent"
           r == [m EXCEPT !.pc = p, !.runtime.agents[s] = None]
<1>0. m \in Memory /\ s \in Slot /\ p \in Steps
  BY DEF TypeOK, Memory, Steps
<1>1. Becomes(c, r)
  BY DEF StopAgent
<1>2. (p = "lease" /\ m.cmd = "rotate") \/ (p = "agent" /\ m.cmd # "rotate")
  BY Zenon
<1> HIDE DEF p
<1>3. /\ r \in Memory /\ r.pc = p /\ Same(r, m)
      /\ r.at = m.at /\ r.endpoints = m.endpoints
      /\ r.runtime.broker = m.runtime.broker
      /\ r.runtime.agents = [m.runtime.agents EXCEPT ![s] = None]
  BY <1>0 DEF Memory, Same
<1> HIDE DEF r
<1>4. cli' \in [Cli -> Memory] /\ cli'[c] = r
  BY <1>1, <1>3, Becoming
<1> QED
  BY <1>2, <1>3, <1>4 DEF StopAgent, At, Quiet

LEMMA CreatingBroker ==
    ASSUME TypeOK, NEW c \in Cli, StartBroker(c)
    PROVE  \E pid \in FreshBroker :
             LET m == cli[c]  r == cli'[c] IN
             /\ m.pc = "broker"
             /\ brokers' = brokers
                    \cup {[pid |-> pid, map |-> [s \in Slot |-> m.endpoints[s].ns]]}
             /\ cli' \in [Cli -> Memory]
             /\ Same(r, m) /\ r.pc = "saveBroker" /\ r.at = m.at /\ r.endpoints = m.endpoints
             /\ r.runtime.broker = pid /\ r.runtime.agents = m.runtime.agents
             /\ UNCHANGED <<agents, keepers, netns, address, bridge, files, last, faults>>
<1> DEFINE m == cli[c]
<1>0. m \in Memory
  BY DEF TypeOK, Memory
<1>1. PICK pid \in FreshBroker :
          /\ brokers' = brokers
                 \cup {[pid |-> pid, map |-> [s \in Slot |-> m.endpoints[s].ns]]}
          /\ Becomes(c, [m EXCEPT !.pc = "saveBroker", !.runtime.broker = pid])
  BY DEF StartBroker
<1>2. pid \in Id \cup {None}
  BY DEF FreshBroker, Fresh
<1> DEFINE r == [m EXCEPT !.pc = "saveBroker", !.runtime.broker = pid]
<1>3. /\ r \in Memory /\ r.pc = "saveBroker" /\ Same(r, m)
      /\ r.at = m.at /\ r.endpoints = m.endpoints
      /\ r.runtime.broker = pid /\ r.runtime.agents = m.runtime.agents
  BY <1>0, <1>2 DEF Memory, Same, Steps
<1>4. Becomes(c, r)
  BY <1>1
<1> HIDE DEF r
<1>5. cli' \in [Cli -> Memory] /\ cli'[c] = r
  BY <1>3, <1>4, Becoming
<1> QED
  BY <1>0, <1>1, <1>3, <1>5 DEF StartBroker, At, Quiet

(* Prepare resets endpoint.json. *)
LEMMA Preparing ==
    ASSUME TypeOK, NEW c \in Cli, Prepare(c)
    PROVE  LET m == cli[c]  r == cli'[c]  s == m.at IN
           /\ m.pc = "prepare"
           /\ \E e \in Endpoint :
                /\ e.ns = None /\ e # NoEndpoint /\ e.ip = lease'[s]
                /\ endpoint' = [endpoint EXCEPT ![s] = e]
                /\ r.endpoints = [m.endpoints EXCEPT ![s] = e]
           /\ \A x \in Slot \ {s} : lease'[x] = lease[x]
           /\ lease' \in [Slot -> Address]
           /\ cli' \in [Cli -> Memory]
           /\ Same(r, m) /\ r.pc = "netns" /\ r.at = m.at /\ r.runtime = m.runtime
           /\ UNCHANGED <<kernel, runtime, manifest, owner, last, faults>>
<1> DEFINE m == cli[c]
           s == m.at
           ip == IF lease[s] = None THEN 1 ELSE lease[s]
           e == [NoEndpoint EXCEPT !.ip = ip]
<1>0. m \in Memory /\ s \in Slot /\ "netns" \in Steps
  BY DEF TypeOK, Memory, Steps
<1>1. ip \in Address /\ ip # None
  BY <1>0, BoundsAssumption DEF TypeOK, Address, None
<1> HIDE DEF ip
<1>2. e \in Endpoint /\ e.ns = None /\ e.ip = ip /\ e # NoEndpoint
  <2>1. e = [ns |-> None, keeper |-> None, ip |-> ip]
    BY DEF NoEndpoint
  <2> HIDE DEF e
  <2> QED
    BY <2>1, <1>1 DEF Endpoint, NoEndpoint
<1>3. /\ m.pc = "prepare" /\ lease' = [lease EXCEPT ![s] = e.ip]
      /\ endpoint' = [endpoint EXCEPT ![s] = e]
      /\ Becomes(c, [m EXCEPT !.pc = "netns", !.endpoints[s] = e])
      /\ UNCHANGED <<kernel, runtime, manifest, owner, last, faults>>
  BY DEF Prepare, At, Quiet, ip
<1> DEFINE r == [m EXCEPT !.pc = "netns", !.endpoints[s] = e]
<1> HIDE DEF e
<1>4. /\ r \in Memory /\ r.pc = "netns" /\ Same(r, m)
      /\ r.at = m.at /\ r.runtime = m.runtime
      /\ r.endpoints = [m.endpoints EXCEPT ![s] = e]
  BY <1>0, <1>2 DEF Memory, Same
<1>5. Becomes(c, r)
  BY <1>3
<1> HIDE DEF r
<1>6. cli' \in [Cli -> Memory] /\ cli'[c] = r
  BY <1>4, <1>5, Becoming
<1>7. lease' \in [Slot -> Address] /\ lease'[s] = ip /\ \A x \in Slot \ {s} : lease'[x] = lease[x]
  BY <1>0, <1>1, <1>2, <1>3 DEF TypeOK
<1> QED
  BY <1>0, <1>2, <1>3, <1>4, <1>6, <1>7

LEMMA CreatingKeeper ==
    ASSUME TypeOK, NEW c \in Cli, StartKeeper(c)
    PROVE  \E pid \in FreshKeeper :
             LET m == cli[c]  r == cli'[c]  s == m.at IN
             /\ m.pc = "keeper"
             /\ keepers' = keepers \cup {[pid |-> pid, slot |-> s]}
             /\ cli' \in [Cli -> Memory]
             /\ Same(r, m) /\ r.pc = "endpoint" /\ r.at = m.at /\ r.runtime = m.runtime
             /\ r.endpoints[s].keeper = pid /\ r.endpoints[s].ns = m.endpoints[s].ns
             /\ r.endpoints[s].ip = m.endpoints[s].ip /\ r.endpoints[s] # NoEndpoint
             /\ \A x \in Slot \ {s} : r.endpoints[x] = m.endpoints[x]
             /\ UNCHANGED <<brokers, agents, netns, address, bridge, files, last, faults>>
<1> DEFINE m == cli[c]
           s == m.at
<1>0. m \in Memory /\ s \in Slot /\ "endpoint" \in Steps
  BY DEF TypeOK, Memory, Steps
<1>1. PICK pid \in FreshKeeper :
          /\ keepers' = keepers \cup {[pid |-> pid, slot |-> s]}
          /\ Becomes(c, [m EXCEPT !.pc = "endpoint", !.endpoints[s].keeper = pid])
  BY DEF StartKeeper
<1>2. pid \in Id
  BY DEF FreshKeeper, Fresh
<1> DEFINE e == [m.endpoints[s] EXCEPT !.keeper = pid]
           r == [m EXCEPT !.pc = "endpoint", !.endpoints[s] = e]
<1>3. r = [m EXCEPT !.pc = "endpoint", !.endpoints[s].keeper = pid]
  BY <1>0 DEF Memory
<1>4. Becomes(c, r)
  BY <1>1, <1>3
<1>5. e.keeper = pid /\ e.ns = m.endpoints[s].ns /\ e.ip = m.endpoints[s].ip /\ e # NoEndpoint
      /\ e \in Endpoint
  BY <1>0, <1>2 DEF Memory, Endpoint, NoEndpoint, None, Id
<1> HIDE DEF e
<1>6. r \in Memory /\ r.pc = "endpoint" /\ Same(r, m)
      /\ r.at = m.at /\ r.runtime = m.runtime
      /\ r.endpoints = [m.endpoints EXCEPT ![s] = e]
  BY <1>0, <1>5 DEF Memory, Same
<1> HIDE DEF r
<1>7. cli' \in [Cli -> Memory] /\ cli'[c] = r
  BY <1>4, <1>6, Becoming
<1>8. r.endpoints[s] = e /\ \A x \in Slot \ {s} : r.endpoints[x] = m.endpoints[x]
  BY <1>0, <1>6 DEF Memory
<1> QED
  BY <1>0, <1>1, <1>5, <1>6, <1>7, <1>8 DEF StartKeeper, At, Quiet

(* The inode is recorded, if the namespace is there. *)
LEMMA RecordingEndpoint ==
    ASSUME TypeOK, NEW c \in Cli, RecordEndpoint(c), netns[cli[c].at] # None
    PROVE  LET m == cli[c]  r == cli'[c]  s == m.at IN
           /\ m.pc = "endpoint"
           /\ \E e \in Endpoint :
                /\ e.ns = netns[s] /\ e # NoEndpoint
                /\ e.ip = m.endpoints[s].ip /\ e.keeper = m.endpoints[s].keeper
                /\ endpoint' = [endpoint EXCEPT ![s] = e]
                /\ r.endpoints = [m.endpoints EXCEPT ![s] = e]
           /\ cli' \in [Cli -> Memory]
           /\ Same(r, m) /\ r.pc = "saveKeeper" /\ r.at = m.at /\ r.runtime = m.runtime
           /\ UNCHANGED <<kernel, runtime, manifest, lease, owner, last, faults>>
<1> DEFINE m == cli[c]
           s == m.at
           e == [m.endpoints[s] EXCEPT !.ns = netns[s]]
<1>0. m \in Memory /\ s \in Slot /\ "saveKeeper" \in Steps
  BY DEF TypeOK, Memory, Steps
<1>a. m.endpoints[s] \in Endpoint /\ netns[s] \in Id \cup {None} /\ netns[s] # None
  BY <1>0 DEF Memory, TypeOK
<1>1. e \in Endpoint /\ e.ns = netns[s] /\ e # NoEndpoint
      /\ e.ip = m.endpoints[s].ip /\ e.keeper = m.endpoints[s].keeper
  BY <1>a DEF Endpoint, NoEndpoint
<1> DEFINE r == [m EXCEPT !.pc = "saveKeeper", !.endpoints[s] = e]
<1>2. /\ m.pc = "endpoint" /\ endpoint' = [endpoint EXCEPT ![s] = e]
      /\ Becomes(c, r)
      /\ UNCHANGED <<kernel, runtime, manifest, lease, owner, last, faults>>
  <2>1. endpoint' = [endpoint EXCEPT ![s] = e] /\ Becomes(c, r)
    BY Zenon DEF RecordEndpoint
  <2> QED
    BY <2>1 DEF RecordEndpoint, At, Quiet
<1> HIDE DEF e
<1>3. /\ r \in Memory /\ r.pc = "saveKeeper" /\ Same(r, m)
      /\ r.at = m.at /\ r.runtime = m.runtime
      /\ r.endpoints = [m.endpoints EXCEPT ![s] = e]
  BY <1>0, <1>1 DEF Memory, Same
<1> HIDE DEF r
<1>4. cli' \in [Cli -> Memory] /\ cli'[c] = r
  BY <1>2, <1>3, Becoming
<1> QED
  BY <1>1, <1>2, <1>3, <1>4

(* rotate_ip gives the slot its next lease. *)
LEMMA RotatingLease ==
    ASSUME TypeOK, NEW c \in Cli, RotateLease(c), lease[cli[c].at] < MaxLease
    PROVE  LET m == cli[c]  r == cli'[c]  s == m.at IN
           /\ m.pc = "lease" /\ lease' \in [Slot -> Address]
           /\ cli' \in [Cli -> Memory]
           /\ Same(r, m) /\ r.pc = "flush" /\ r.at = m.at /\ r.runtime = m.runtime
           /\ r.endpoints[s] # NoEndpoint
           /\ UNCHANGED <<kernel, runtime, endpoint, manifest, owner, last, faults>>
<1> DEFINE m == cli[c]
           s == m.at
           a == lease'[s]
<1>0. m \in Memory /\ s \in Slot /\ "flush" \in Steps
  BY DEF TypeOK, Memory, Steps
<1>1. lease' \in [Slot -> Address] /\ a \in Address /\ a # None
  BY <1>0, BoundsAssumption DEF TypeOK, RotateLease, Address, None
<1>2. /\ m.pc = "lease" /\ Becomes(c, [m EXCEPT !.pc = "flush", !.endpoints[s].ip = a])
      /\ UNCHANGED <<kernel, runtime, endpoint, manifest, owner, last, faults>>
  BY DEF RotateLease, At
<1> HIDE DEF a
<1> DEFINE e == [m.endpoints[s] EXCEPT !.ip = a]
           r == [m EXCEPT !.pc = "flush", !.endpoints[s] = e]
<1>3. r = [m EXCEPT !.pc = "flush", !.endpoints[s].ip = a]
  BY <1>0 DEF Memory
<1>4. Becomes(c, r)
  BY <1>2, <1>3
<1>5. e # NoEndpoint /\ e \in Endpoint
  BY <1>0, <1>1 DEF Memory, Endpoint, NoEndpoint
<1> HIDE DEF e
<1>6. /\ r \in Memory /\ r.pc = "flush" /\ Same(r, m)
      /\ r.at = m.at /\ r.runtime = m.runtime
      /\ r.endpoints = [m.endpoints EXCEPT ![s] = e]
  BY <1>0, <1>5 DEF Memory, Same
<1> HIDE DEF r
<1>7. cli' \in [Cli -> Memory] /\ cli'[c] = r
  BY <1>4, <1>6, Becoming
<1>8. r.endpoints[s] = e
  BY <1>0, <1>6 DEF Memory
<1> QED
  BY <1>1, <1>2, <1>5, <1>6, <1>7, <1>8

(* One endpoint is cleaned, and leaves the list. *)
LEMMA CleaningEndpoint ==
    ASSUME TypeOK, NEW c \in Cli, CleanEndpoint(c)
    PROVE  \E s \in Slot :
             LET m == cli[c]  r == cli'[c] IN
             /\ m.pc = "cleanup" /\ m.endpoints[s] # NoEndpoint
             /\ agents' = {a \in agents : a.slot # s}
             /\ keepers' = {k \in keepers : k.slot # s}
             /\ netns' = [netns EXCEPT ![s] = None]
             /\ address' = [address EXCEPT ![s] = None]
             /\ cli' \in [Cli -> Memory]
             /\ Same(r, m) /\ r.pc = m.pc /\ r.at = m.at /\ r.runtime = m.runtime
             /\ r.endpoints = [m.endpoints EXCEPT ![s] = NoEndpoint]
             /\ UNCHANGED <<brokers, bridge, files, last, faults>>
<1> DEFINE m == cli[c]
<1>0. m \in Memory
  BY DEF TypeOK
<1>1. PICK s \in Pending(m) :
          /\ agents' = {a \in agents : a.slot # s}
          /\ keepers' = {k \in keepers : k.slot # s}
          /\ netns' = [netns EXCEPT ![s] = None]
          /\ address' = [address EXCEPT ![s] = None]
          /\ Becomes(c, [m EXCEPT !.endpoints[s] = NoEndpoint])
  BY DEF CleanEndpoint
<1>2. s \in Slot /\ m.endpoints[s] # NoEndpoint
  BY DEF Pending
<1> DEFINE r == [m EXCEPT !.endpoints[s] = NoEndpoint]
<1>3. /\ r \in Memory /\ r.pc = m.pc /\ Same(r, m)
      /\ r.at = m.at /\ r.runtime = m.runtime
      /\ r.endpoints = [m.endpoints EXCEPT ![s] = NoEndpoint]
  BY <1>0, <1>2, NoEndpointTyped DEF Memory, Same
<1>4. Becomes(c, r)
  BY <1>1
<1> HIDE DEF r
<1>5. cli' \in [Cli -> Memory] /\ cli'[c] = r
  BY <1>3, <1>4, Becoming
<1> QED
  BY <1>0, <1>1, <1>2, <1>3, <1>5 DEF CleanEndpoint, At, Quiet

-----------------------------------------------------------------------------
(* What the fleet does with its bridge touches nothing else. *)
BridgeSteps == {"bridge", "addBridge", "openOwner", "writeOwner", "setAddress"}

LEMMA EnsuringBridge ==
    ASSUME TypeOK, NEW c \in Cli, EnsureBridge(c)
    PROVE  /\ cli[c].pc \in BridgeSteps
           /\ \/ \E p \in (BridgeSteps \ {"bridge"}) \cup {"prepare"} : Goto(c, p)
              \/ Becomes(c, Failed(cli[c]))
           /\ bridge' \in BOOLEAN /\ owner' \in {"absent", "torn", "written"}
           /\ UNCHANGED <<brokers, agents, keepers, netns, address>>
           /\ UNCHANGED <<runtime, endpoint, manifest, lease, last, faults>>
<1> USE DEF BridgeSteps, At, Quiet, kernel, files, TypeOK
<1>1. CASE CheckBridge(c)
  <2>1. CASE bridge /\ owner = "absent"
    <3>1. Becomes(c, Failed(cli[c]))
      BY <1>1, <2>1, Zenon DEF CheckBridge
    <3> QED
      BY <1>1, <3>1 DEF CheckBridge
  <2>2. CASE bridge /\ owner # "absent"
    <3>1. Goto(c, "setAddress")
      BY <1>1, <2>2 DEF CheckBridge, Goto
    <3> QED
      BY <1>1, <3>1 DEF CheckBridge
  <2>3. CASE ~ bridge
    <3>1. Goto(c, "addBridge")
      BY <1>1, <2>3 DEF CheckBridge, Goto
    <3> QED
      BY <1>1, <3>1 DEF CheckBridge
  <2> QED
    BY <2>1, <2>2, <2>3
<1>2. CASE AddBridge(c)
  <2>1. CASE bridge
    <3>1. Becomes(c, Failed(cli[c]))
      BY <1>2, <2>1, Zenon DEF AddBridge
    <3> QED
      BY <1>2, <3>1 DEF AddBridge
  <2>2. CASE ~ bridge
    <3>1. Goto(c, "openOwner")
      BY <1>2, <2>2, Zenon DEF AddBridge, Goto
    <3> QED
      BY <1>2, <3>1 DEF AddBridge
  <2> QED
    BY <2>1, <2>2
<1>3. CASE OpenOwner(c)
  BY <1>3 DEF OpenOwner
<1>4. CASE WriteOwner(c)
  BY <1>4 DEF WriteOwner
<1>5. CASE SetBridgeAddress(c)
  <2>1. CASE bridge
    <3>1. Goto(c, "prepare")
      BY <1>5, <2>1, Zenon DEF SetBridgeAddress, Goto
    <3> QED
      BY <1>5, <3>1 DEF SetBridgeAddress
  <2>2. CASE ~ bridge
    <3>1. Becomes(c, Failed(cli[c]))
      BY <1>5, <2>2, Zenon DEF SetBridgeAddress
    <3> QED
      BY <1>5, <3>1 DEF SetBridgeAddress
  <2> QED
    BY <2>1, <2>2
<1> QED
  BY <1>1, <1>2, <1>3, <1>4, <1>5 DEF EnsureBridge

LEMMA DeletingBridge ==
    ASSUME TypeOK, NEW c \in Cli, DeleteBridge(c)
    PROVE  /\ cli[c].pc \in {"deleteBridge", "unlinkOwner"}
           /\ \E p \in {"unlinkOwner", "unlink"} : Goto(c, p)
           /\ bridge' \in BOOLEAN /\ owner' \in {"absent", "torn", "written"}
           /\ UNCHANGED <<brokers, agents, keepers, netns, address>>
           /\ UNCHANGED <<runtime, endpoint, manifest, lease, last, faults>>
BY DEF DeleteBridge, DeleteLink, ForgetOwner, At, Quiet, kernel, files, TypeOK

(* A step of down that raises ends it, or leaves it to recover to go on. *)
LEMMA DownFailing ==
    ASSUME NEW c \in Cli, DownStepFails(c)
    PROVE  /\ \/ /\ Goto(c, "check") /\ last' = last
                 /\ cli[c].cmd = "recover" /\ cli[c].then = "return"
              \/ Over(c, "none")
           /\ cli[c].pc # "idle"
           /\ UNCHANGED <<kernel, files>>
           /\ Fault("down")
BY DEF DownStepFails

(* What stays behind is a namespace or the bridge; the command goes on, or, *)
(* where it creates an endpoint, fails.                                    *)
LEMMA StayingBehind ==
    ASSUME TypeOK, NEW c \in Cli, StaysBehind(c)
    PROVE  LET m == cli[c]  r == cli'[c] IN
           /\ Fault("silent")
           /\ cli' \in [Cli -> Memory] /\ r.cmd = m.cmd
           /\ \/ m.pc \in {"deleteBridge", "cleanup"} /\ r.pc \in {"unlinkOwner", "cleanup"}
                 /\ r.then = m.then
              \/ m.pc = "netns" /\ r.pc = "stopAgents" /\ r.then = "raise"
           /\ agents' \subseteq agents /\ keepers' \subseteq keepers
           /\ address' \in [Slot -> Address]
           /\ UNCHANGED <<brokers, netns, bridge, files, last>>
<1> DEFINE m == cli[c]
           r == cli'[c]
<1>0. m \in Memory /\ m.at \in Slot /\ address \in [Slot -> Address] /\ None \in Address
  BY BoundsAssumption DEF TypeOK, Memory, Address, None
<1>1. Fault("silent") /\ UNCHANGED <<brokers, netns, bridge, files, last>>
  BY DEF StaysBehind
<1>2. CASE m.pc = "deleteBridge"
  <2>1. Goto(c, "unlinkOwner") /\ "unlinkOwner" \in Steps /\ UNCHANGED <<agents, keepers, address>>
    BY <1>2 DEF StaysBehind, At, Steps
  <2> QED
    BY <1>0, <1>1, <1>2, <2>1, GoingTo DEF Same
<1>3. CASE m.pc = "cleanup"
  <2>1. PICK s \in Pending(m) :
            /\ agents' = {a \in agents : a.slot # s}
            /\ keepers' = {k \in keepers : k.slot # s}
            /\ address' = [address EXCEPT ![s] = None]
            /\ Becomes(c, [m EXCEPT !.endpoints[s] = NoEndpoint])
    BY <1>3 DEF StaysBehind, At
  <2> DEFINE x == [m EXCEPT !.endpoints[s] = NoEndpoint]
  <2>2. s \in Slot
    BY DEF Pending
  <2>3. x \in Memory /\ x.pc = m.pc /\ Same(x, m)
    BY <1>0, <2>2, NoEndpointTyped DEF Memory, Same
  <2>4. Becomes(c, x)
    BY <2>1
  <2> HIDE DEF x
  <2>5. cli' \in [Cli -> Memory] /\ r = x
    BY <2>3, <2>4, Becoming
  <2>6. address' \in [Slot -> Address]
    BY <1>0, <2>1
  <2> QED
    BY <1>1, <1>3, <2>1, <2>3, <2>5, <2>6 DEF Same
<1>4. CASE m.pc = "netns"
  <2>1. /\ Becomes(c, Failed(Appended(m)))
        /\ address' = [address EXCEPT ![m.at] = None] /\ UNCHANGED <<agents, keepers>>
    BY <1>4 DEF StaysBehind, At
  <2>2. address' \in [Slot -> Address]
    BY <1>0, <2>1
  <2> QED
    BY <1>1, <1>4, <2>1, <2>2, FailingUp
<1> QED
  BY <1>2, <1>3, <1>4 DEF StaysBehind, At

-----------------------------------------------------------------------------
(* A fault is counted, and its kind kept. *)
LEMMA FaultType ==
    ASSUME TypeOK, NEW kind, Fault(kind)
    PROVE  faults' \in [count : 0 .. MaxFaults, kinds : SUBSET FaultKinds]
BY BoundsAssumption, FaultsAssumption DEF Fault, TypeOK

LEMMA TypedInit == Init => TypeOK
<1> SUFFICES ASSUME Init PROVE TypeOK
  OBVIOUS
<1>1. cli \in [Cli -> Memory]
  BY IdleTyped DEF Init
<1>2. endpoint \in [Slot -> Endpoint]
  BY NoEndpointTyped DEF Init, NoEndpoints
<1>3. faults \in [count : 0 .. MaxFaults, kinds : SUBSET FaultKinds]
  BY BoundsAssumption DEF Init
<1>4. lease \in [Slot -> Address] /\ address \in [Slot -> Address]
  BY BoundsAssumption DEF Init, Address, None
<1>5. runtime \in [broker : Id \cup {None}, agents : [Slot -> Id \cup {None}]]
  BY DEF Init, NoRuntime, NoAgents
<1>6. netns \in [Slot -> Id \cup {None}] /\ manifest \in (SUBSET Slot) \cup {NoManifest}
  BY DEF Init
<1>7. /\ brokers \subseteq [pid : Id, map : [Slot -> Id \cup {None}]]
      /\ agents \subseteq [pid : Id, slot : Slot, ns : Id]
      /\ keepers \subseteq [pid : Id, slot : Slot]
      /\ bridge \in BOOLEAN /\ owner \in {"absent", "torn", "written"}
      /\ last \in {"none", "up_ok", "up_failed", "down_ok", "restart_ok"}
  BY DEF Init
<1> QED
  BY <1>1, <1>2, <1>3, <1>4, <1>5, <1>6, <1>7, Zenon DEF TypeOK

(* The steps of up, of down and of restart keep the types. *)
LEMMA TypedUp ==
    ASSUME TypeOK, NEW c \in Cli, UpStep(c)
    PROVE  TypeOK'
<1> DEFINE m == cli[c]
<1>0. /\ m \in Memory /\ m.at \in Slot /\ m.count \in Slot
      /\ m.runtime \in RuntimeFile /\ m.endpoints \in [Slot -> Endpoint]
  BY DEF TypeOK, Memory, RuntimeFile
<1>1. CASE Check(c)
  <2>1. CASE ~ BrokerAlive(runtime.broker)
    BY <1>1, <2>1, Checking DEF Check, TypeOK, kernel, files
  <2>2. CASE BrokerAlive(runtime.broker)
    <3>1. (Becomes(c, Loaded(m)) /\ last' = last) \/ Over(c, "none")
      BY <1>1, <2>2 DEF Check
    <3> QED
      BY <1>0, <1>1, <3>1, Loading, Ending DEF Check, TypeOK, kernel, files
  <2> QED
    BY <2>1, <2>2
<1>2. CASE EnsureBridge(c)
  <2>1. CASE \E p \in (BridgeSteps \ {"bridge"}) \cup {"prepare"} : Goto(c, p)
    BY <1>2, <2>1, EnsuringBridge, GoingTo DEF TypeOK, BridgeSteps, Steps
  <2>2. CASE Becomes(c, Failed(m))
    BY <1>0, <1>2, <2>2, EnsuringBridge, Failing DEF TypeOK
  <2> QED
    BY <1>2, <2>1, <2>2, EnsuringBridge
<1>3. CASE Prepare(c)
  <2>1. endpoint' \in [Slot -> Endpoint]
    <3>1. PICK e \in Endpoint : endpoint' = [endpoint EXCEPT ![m.at] = e]
      BY <1>3, Preparing
    <3> QED
      BY <1>0, <3>1 DEF TypeOK
  <2> QED
    BY <1>3, <2>1, Preparing DEF TypeOK, kernel
<1>4. CASE CreateNetns(c)
  <2>1. netns' \in [Slot -> Id \cup {None}]
    <3>1. PICK ns \in FreshNs : netns' = [netns EXCEPT ![m.at] = ns]
      BY <1>4 DEF CreateNetns
    <3>2. ns \in Id
      BY DEF FreshNs, Fresh
    <3> QED
      BY <1>0, <3>1, <3>2 DEF TypeOK
  <2>2. address' \in [Slot -> Address]
    BY <1>0, <1>4 DEF CreateNetns, TypeOK, Endpoint
  <2> QED
    BY <1>4, <2>1, <2>2, GoingTo DEF CreateNetns, TypeOK, files, Quiet, Steps
<1>5. CASE StartKeeper(c)
  <2>1. keepers' \subseteq [pid : Id, slot : Slot]
    BY <1>0, <1>5, CreatingKeeper DEF FreshKeeper, Fresh, TypeOK
  <2> QED
    BY <1>5, <2>1, CreatingKeeper DEF TypeOK, files
<1>6. CASE RecordEndpoint(c)
  <2>1. CASE netns[m.at] = None
    <3>1. Becomes(c, Failed(Appended(m))) /\ UNCHANGED endpoint
      BY <1>6, <2>1 DEF RecordEndpoint
    <3> QED
      BY <1>6, <3>1, FailingUp DEF RecordEndpoint, TypeOK, kernel, Quiet
  <2>2. CASE netns[m.at] # None
    <3>1. endpoint' \in [Slot -> Endpoint]
      BY <1>6, <2>2, RecordingEndpoint DEF TypeOK
    <3> QED
      BY <1>6, <2>2, <3>1, RecordingEndpoint DEF TypeOK, kernel
  <2> QED
    BY <2>1, <2>2
<1>7. CASE SaveKeeper(c)
  BY <1>0, <1>7, Advancing DEF SaveKeeper, TypeOK, kernel, Quiet, Steps, RuntimeFile
<1>8. CASE Enroll(c)
  BY <1>8, GoingTo DEF Enroll, TypeOK, kernel, files, Quiet, Steps
<1>9. CASE StartBroker(c)
  <2>1. [s \in Slot |-> m.endpoints[s].ns] \in [Slot -> Id \cup {None}]
    BY <1>0 DEF Endpoint
  <2>2. brokers' \subseteq [pid : Id, map : [Slot -> Id \cup {None}]]
    BY <1>9, <2>1, CreatingBroker DEF FreshBroker, Fresh, TypeOK
  <2> QED
    BY <1>9, <2>2, CreatingBroker DEF TypeOK, files
<1>10. CASE SaveBroker(c)
  BY <1>0, <1>10, GoingTo DEF SaveBroker, TypeOK, kernel, Quiet, Steps, RuntimeFile
<1>11. CASE AwaitBroker(c)
  <2>1. CASE BrokerAlive(m.runtime.broker)
    BY <1>11, <2>1, Awaiting DEF AwaitBroker, TypeOK, kernel, files, Quiet
  <2>2. CASE ~ BrokerAlive(m.runtime.broker)
    <3>1. Becomes(c, Failed(m))
      BY <1>11, <2>2, Zenon DEF AwaitBroker
    <3> QED
      BY <1>0, <1>11, <3>1, Failing DEF AwaitBroker, TypeOK, kernel, files, Quiet
  <2> QED
    BY <2>1, <2>2
<1>12. CASE StartAgent(c)
  <2>1. agents' \subseteq [pid : Id, slot : Slot, ns : Id]
    <3>1. PICK pid \in FreshAgent :
              agents' = IF CanEnter(m.at, m.endpoints[m.at])
                        THEN agents \cup {[pid |-> pid, slot |-> m.at, ns |-> netns[m.at]]}
                        ELSE agents
      BY <1>12, CreatingAgent
    <3>2. pid \in Id
      BY DEF FreshAgent, Fresh
    <3> QED
      BY <1>0, <3>1, <3>2 DEF TypeOK, CanEnter
  <2>2. /\ cli' \in [Cli -> Memory]
        /\ UNCHANGED <<brokers, keepers, netns, address, bridge, files, last, faults>>
    BY <1>12, CreatingAgent
  <2> QED
    BY <2>1, <2>2 DEF TypeOK, files
<1>13. CASE SaveAgent(c)
  <2>1. endpoint' \in [Slot -> Endpoint]
    BY <1>0, <1>13 DEF SaveAgent, TypeOK
  <2> QED
    BY <1>0, <1>13, <2>1, GoingTo DEF SaveAgent, TypeOK, kernel, Quiet, Steps, RuntimeFile
<1>14. CASE CheckAgent(c)
  <2>1. CASE Becomes(c, Advance(m, "agent", "manifest")) /\ UNCHANGED last
    BY <1>14, <2>1, Advancing DEF CheckAgent, TypeOK, kernel, files, Steps
  <2>2. CASE Over(c, "restart_ok") \/ Over(c, "none")
    BY <1>14, <2>2, Ending DEF CheckAgent, TypeOK, kernel, files
  <2>3. CASE Becomes(c, Failed(m)) /\ UNCHANGED last
    BY <1>0, <1>14, <2>3, Failing DEF CheckAgent, TypeOK, kernel, files
  <2> QED
    BY <1>14, <2>1, <2>2, <2>3 DEF CheckAgent
<1>15. CASE WriteManifest(c)
  <2>1. manifest' \in SUBSET Slot
    BY <1>0, <1>15, SlotAssumption DEF WriteManifest, Slot
  <2>2. CASE Goto(c, "scenario") /\ UNCHANGED last
    BY <1>15, <2>1, <2>2, GoingTo DEF WriteManifest, TypeOK, kernel, Steps
  <2>3. CASE Over(c, "up_ok")
    BY <1>15, <2>1, <2>3, Ending DEF WriteManifest, TypeOK, kernel
  <2> QED
    BY <1>15, <2>2, <2>3 DEF WriteManifest
<1>16. CASE RunScenario(c)
  BY <1>0, <1>16, Loading DEF RunScenario, TypeOK, kernel, files, Quiet
<1> QED
  BY <1>1, <1>2, <1>3, <1>4, <1>5, <1>6, <1>7, <1>8, <1>9, <1>10, <1>11, <1>12, <1>13,
     <1>14, <1>15, <1>16 DEF UpStep

(* The types of the state after a step of down. *)
LEMMA TypedDown ==
    ASSUME TypeOK, NEW c \in Cli, DownStep(c)
    PROVE  TypeOK'
<1>1. CASE StopAgents(c)
  BY <1>1, GoingTo DEF StopAgents, TypeOK, files, Quiet, Steps
<1>2. CASE StopBroker(c)
  BY <1>2, GoingTo DEF StopBroker, TypeOK, files, Quiet, Steps
<1>3. CASE CleanEndpoint(c)
  <2>1. PICK s \in Slot : /\ agents' = {a \in agents : a.slot # s}
                          /\ keepers' = {k \in keepers : k.slot # s}
                          /\ netns' = [netns EXCEPT ![s] = None]
                          /\ address' = [address EXCEPT ![s] = None]
    BY <1>3, CleaningEndpoint
  <2>2. /\ netns' \in [Slot -> Id \cup {None}] /\ address' \in [Slot -> Address]
        /\ agents' \subseteq [pid : Id, slot : Slot, ns : Id]
        /\ keepers' \subseteq [pid : Id, slot : Slot]
    BY <2>1, BoundsAssumption DEF TypeOK, Address, None
  <2> QED
    BY <1>3, <2>2, CleaningEndpoint DEF TypeOK, files
<1>4. CASE EndpointsClean(c)
  BY <1>4, GoingTo DEF EndpointsClean, TypeOK, kernel, files, Quiet, Steps
<1>5. CASE DeleteBridge(c)
  BY <1>5, DeletingBridge, GoingTo DEF TypeOK, Steps
<1>6. CASE UnlinkRuntime(c)
  <2>1. runtime' \in [broker : Id \cup {None}, agents : [Slot -> Id \cup {None}]]
    BY <1>6 DEF UnlinkRuntime, NoRuntime, NoAgents
  <2>2. endpoint' \in [Slot -> Endpoint]
    BY <1>6, NoEndpointTyped DEF UnlinkRuntime, TypeOK, NoEndpoints
  <2>3. /\ lease' \in [Slot -> Address] /\ manifest' \in (SUBSET Slot) \cup {NoManifest}
        /\ owner' \in {"absent", "torn", "written"}
    BY <1>6, BoundsAssumption DEF UnlinkRuntime, TypeOK, Address, None
  <2>4. faults' \in [count : 0 .. MaxFaults, kinds : SUBSET FaultKinds]
    BY <1>6 DEF UnlinkRuntime, TypeOK, FaultKinds
  <2>5. cli' \in [Cli -> Memory]
        /\ last' \in {"none", "up_ok", "up_failed", "down_ok", "restart_ok"}
    BY <1>6, GoingTo, Ending DEF UnlinkRuntime, TypeOK, Steps
  <2> QED
    BY <1>6, <2>1, <2>2, <2>3, <2>4, <2>5 DEF UnlinkRuntime, TypeOK, kernel
<1> QED
  BY <1>1, <1>2, <1>3, <1>4, <1>5, <1>6 DEF DownStep

LEMMA TypedRestart ==
    ASSUME TypeOK, NEW c \in Cli, RestartStep(c)
    PROVE  TypeOK'
<1> DEFINE m == cli[c]
<1>0. /\ m \in Memory /\ m.at \in Slot /\ m.endpoints \in [Slot -> Endpoint]
      /\ 0 \in Address
  BY BoundsAssumption DEF TypeOK, Memory, Address
<1>1. CASE StopAgent(c)
  BY <1>1, StoppingAgent DEF TypeOK, files
<1>2. CASE RotateLease(c)
  <2>1. CASE lease[m.at] < MaxLease
    BY <1>2, <2>1, RotatingLease DEF TypeOK, kernel
  <2>2. CASE ~ (lease[m.at] < MaxLease)
    <3>1. Over(c, "none") /\ UNCHANGED lease
      BY <1>2, <2>2 DEF RotateLease
    <3> QED
      BY <1>2, <3>1, Ending DEF RotateLease, TypeOK, kernel
  <2> QED
    BY <2>1, <2>2
<1>3. CASE FlushAddress(c)
  <2>1. address' \in [Slot -> Address]
    BY <1>0, <1>3 DEF FlushAddress, TypeOK, None
  <2>2. cli' \in [Cli -> Memory]
        /\ last' \in {"none", "up_ok", "up_failed", "down_ok", "restart_ok"}
    BY <1>3, GoingTo, Ending DEF FlushAddress, TypeOK, Steps
  <2> QED
    BY <1>3, <2>1, <2>2 DEF FlushAddress, TypeOK, files
<1>4. CASE AddAddress(c)
  <2>1. address' \in [Slot -> Address]
    BY <1>0, <1>4 DEF AddAddress, TypeOK, Endpoint
  <2>2. cli' \in [Cli -> Memory]
        /\ last' \in {"none", "up_ok", "up_failed", "down_ok", "restart_ok"}
    BY <1>4, GoingTo, Ending DEF AddAddress, TypeOK, Steps
  <2> QED
    BY <1>4, <2>1, <2>2 DEF AddAddress, TypeOK, files
<1>5. CASE SaveAddress(c)
  <2>1. endpoint' \in [Slot -> Endpoint]
    BY <1>0, <1>5 DEF SaveAddress, TypeOK
  <2> QED
    BY <1>5, <2>1, GoingTo DEF SaveAddress, TypeOK, kernel, Quiet, Steps
<1>6. CASE NoKeeper(c)
  BY <1>6, Ending DEF NoKeeper, TypeOK, kernel, files
<1> QED
  BY <1>1, <1>2, <1>3, <1>4, <1>5, <1>6 DEF RestartStep

LEMMA TypedNext == TypeOK /\ [Next]_vars => TypeOK'
<1> SUFFICES ASSUME TypeOK, [Next]_vars
             PROVE  TypeOK'
  OBVIOUS
<1>1. ASSUME NEW c \in Cli, StartUp(c) PROVE TypeOK'
  BY <1>1, StartingUp DEF TypeOK, kernel, files
<1>2. ASSUME NEW c \in Cli, StartDown(c) PROVE TypeOK'
  BY <1>2, StartingDown DEF TypeOK, kernel, files
<1>3. ASSUME NEW c \in Cli, StartRestart(c) PROVE TypeOK'
  BY <1>3, StartingRestart DEF TypeOK, kernel, files
<1>4. ASSUME NEW c \in Cli, UpStepFails(c) PROVE TypeOK'
  <2>1. cli[c].at \in Slot /\ 0 \in Address
    BY BoundsAssumption DEF TypeOK, Memory, Address
  <2>2. netns' \in [Slot -> Id \cup {None}] /\ address' \in [Slot -> Address]
    BY <1>4, <2>1 DEF UpStepFails, TypeOK, None
  <2>3. faults' \in [count : 0 .. MaxFaults, kinds : SUBSET FaultKinds]
    BY <1>4, FaultType DEF UpStepFails
  <2> QED
    BY <1>4, <2>2, <2>3, FailingUp DEF UpStepFails, TypeOK, files
<1>5. ASSUME NEW c \in Cli, RestartStepFails(c) PROVE TypeOK'
  <2>1. faults' \in [count : 0 .. MaxFaults, kinds : SUBSET FaultKinds]
    BY <1>5, FaultType DEF RestartStepFails
  <2> QED
    BY <1>5, <2>1, Ending DEF RestartStepFails, TypeOK, kernel, files
<1>6. ASSUME NEW c \in Cli, Kill(c) PROVE TypeOK'
  <2>1. faults' \in [count : 0 .. MaxFaults, kinds : SUBSET FaultKinds]
    BY <1>6, FaultType DEF Kill
  <2> QED
    BY <1>6, <2>1, Ending DEF Kill, TypeOK, kernel, files
<1>11. ASSUME NEW c \in Cli, DownStepFails(c) PROVE TypeOK'
  <2>1. faults' \in [count : 0 .. MaxFaults, kinds : SUBSET FaultKinds]
    BY <1>11, DownFailing, FaultType
  <2>2. /\ cli' \in [Cli -> Memory] /\ UNCHANGED <<kernel, files>>
        /\ last' \in {"none", "up_ok", "up_failed", "down_ok", "restart_ok"}
    BY <1>11, DownFailing, GoingTo, Ending DEF TypeOK, Steps
  <2> QED
    BY <2>1, <2>2 DEF TypeOK, kernel, files
<1>12. ASSUME NEW c \in Cli, StaysBehind(c) PROVE TypeOK'
  <2>1. faults' \in [count : 0 .. MaxFaults, kinds : SUBSET FaultKinds]
    BY <1>12, StayingBehind, FaultType
  <2> QED
    BY <1>12, <2>1, StayingBehind DEF TypeOK, files
<1>7. CASE Reboot
  <2>1. faults' \in [count : 0 .. MaxFaults, kinds : SUBSET FaultKinds]
    BY <1>7, FaultType DEF Reboot
  <2>2. cli' \in [Cli -> Memory]
    BY <1>7, IdleTyped DEF Reboot
  <2>3. netns' \in [Slot -> Id \cup {None}] /\ address' \in [Slot -> Address]
    BY <1>7, BoundsAssumption DEF Reboot, Address, None
  <2>4. runtime' \in [broker : Id \cup {None}, agents : [Slot -> Id \cup {None}]]
    BY <1>7 DEF Reboot, NoRuntime, NoAgents
  <2> QED
    BY <1>7, <2>1, <2>2, <2>3, <2>4 DEF Reboot, TypeOK
<1>8. CASE AgentDies
  <2>1. faults' \in [count : 0 .. MaxFaults, kinds : SUBSET FaultKinds]
    BY <1>8, FaultType DEF AgentDies
  <2> QED
    BY <1>8, <2>1 DEF AgentDies, TypeOK, files
<1>9. CASE BrokerDies
  <2>1. faults' \in [count : 0 .. MaxFaults, kinds : SUBSET FaultKinds]
    BY <1>9, FaultType DEF BrokerDies
  <2> QED
    BY <1>9, <2>1 DEF BrokerDies, TypeOK, files
<1>10. CASE UNCHANGED vars
  BY <1>10 DEF vars, kernel, files, TypeOK
<1> QED
  BY <1>1, <1>2, <1>3, <1>4, <1>5, <1>6, <1>7, <1>8, <1>9, <1>10, <1>11, <1>12,
     TypedUp, TypedDown, TypedRestart DEF Next, Step

(* Every step of every command keeps the types, and so does every fault,    *)
(* whatever number of commands runs at the same time.                       *)
THEOREM TypeCorrect == Spec => []TypeOK
BY TypedInit, TypedNext, PTL DEF Spec

-----------------------------------------------------------------------------
(***************************************************************************)
(* From here on one command runs at a time.                                *)
(***************************************************************************)
OneCommand == \A c, d \in Cli : c = d

BeforeBroker == {"enroll", "broker"} \cup BridgeSteps \cup Creating
WithBroker == {"saveBroker", "awaitBroker", "manifest"}
AgentLoop == {"agent", "saveAgent", "checkAgent"}
Rotation == {"stopAgent", "lease", "flush", "addAddress", "saveAddress"}
Undoing == {"stopAgents", "stopBroker", "cleanup", "deleteBridge", "unlinkOwner", "unlink"}
Restarts == {"restart", "rotate"}

(* Which command is at which steps, and where the loops of up are. *)
Control(m) ==
    /\ m.pc = "idle" => m.cmd = "none"
    /\ m.pc = "check" => m.then = "return"
    /\ m.pc \in BeforeBroker \cup WithBroker \cup {"check"} => m.cmd \in Ups
    /\ m.pc = "scenario" => m.cmd = "acceptance" /\ m.then = "return"
    /\ m.pc \in Rotation => m.cmd \in Restarts
    /\ m.pc \in AgentLoop => m.cmd \in Ups \cup Restarts
    /\ m.pc \in Undoing => m.cmd \in Ups \cup {"down", "purge"}
    /\ m.pc \in Undoing /\ m.cmd = "up" => m.then = "raise"
    /\ m.pc \in BeforeBroker \cup WithBroker \cup AgentLoop /\ m.cmd \in Ups =>
          m.then = "return" /\ m.at <= m.count
    /\ m.pc \in BridgeSteps \cup {"enroll", "broker", "saveBroker", "awaitBroker"} => m.at = 1

Controlled ==
    /\ \A c \in Cli : Control(cli[c])
    /\ last # "none" => \A c \in Cli : cli[c].pc = "idle"

LEMMA ControlledNext ==
    ASSUME OneCommand, TypeOK, Controlled, [Next]_vars
    PROVE  Controlled'
<1>0. CASE UNCHANGED vars
  BY <1>0 DEF vars, Controlled
<1>1. CASE Reboot
  BY <1>1, IdleTyped DEF Reboot, Controlled, Control, BeforeBroker, BridgeSteps, Creating, WithBroker,
     AgentLoop, Rotation, Undoing
<1>2. CASE AgentDies \/ BrokerDies
  BY <1>2 DEF AgentDies, BrokerDies, Controlled
<1>3. ASSUME NEW c \in Cli,
             StartUp(c) \/ StartDown(c) \/ StartRestart(c) \/ Step(c)
                \/ UpStepFails(c) \/ RestartStepFails(c) \/ DownStepFails(c) \/ StaysBehind(c)
                \/ Kill(c)
      PROVE  Controlled'
  <2> DEFINE m == cli[c]
             r == cli'[c]
  <2>0. /\ \A d \in Cli : d = c
        /\ Control(m) /\ (m.pc # "idle" => last = "none")
        /\ m \in Memory /\ m.at \in Nat /\ m.count \in Nat /\ m.count >= 1
    BY DEF OneCommand, Controlled, TypeOK, Memory, Slot
  <2>a. ASSUME Control(r), r.pc = "idle" \/ last' = "none" PROVE Controlled'
    BY <2>0, <2>a DEF Controlled
  <2>b. ASSUME r.pc = "idle", r.cmd = "none" PROVE Controlled'
    BY <2>a, <2>b DEF Control, BeforeBroker, BridgeSteps, Creating, WithBroker, AgentLoop, Rotation, Undoing
  <2>c. ASSUME last' = last, m.pc # "idle", Control(r) PROVE Controlled'
    BY <2>0, <2>a, <2>c
  <2> USE DEF Control, BeforeBroker, BridgeSteps, Creating, WithBroker, AgentLoop, Rotation, Undoing,
          Ups, Restarts, Same
  <2>1. CASE StartUp(c)
    BY <2>0, <2>1, <2>a, StartingUp
  <2>2. CASE StartDown(c)
    BY <2>0, <2>2, <2>a, StartingDown
  <2>3. CASE StartRestart(c)
    BY <2>0, <2>3, <2>a, StartingRestart
  <2>4. ASSUME NEW how, Over(c, how) PROVE Controlled'
    BY <2>4, <2>b, Ending
  <2>5. CASE Check(c)
    <3>0. m.pc = "check"
      BY <2>5 DEF Check, At
    <3>1. CASE ~ BrokerAlive(runtime.broker)
      BY <2>0, <2>5, <2>c, <3>0, <3>1, Checking
    <3>2. CASE BrokerAlive(runtime.broker)
      <4>1. CASE m.cmd = "acceptance"
        <5>1. Becomes(c, Loaded(m)) /\ last' = last
          BY <2>5, <3>2, <4>1 DEF Check
        <5> QED
          BY <2>0, <2>c, <3>0, <4>1, <5>1, Loading
      <4>2. CASE m.cmd # "acceptance"
        <5>1. Over(c, "none")
          BY <2>5, <3>2, <4>2 DEF Check
        <5> QED
          BY <2>4, <5>1
      <4> QED
        BY <4>1, <4>2
    <3> QED
      BY <3>1, <3>2
  <2>6. ASSUME NEW p \in Steps, Goto(c, p), last' = last, m.pc # "idle",
               r.cmd = m.cmd /\ r.then = m.then /\ r.at = m.at /\ r.count = m.count /\ r.pc = p
                 => Control(r)
        PROVE  Controlled'
    BY <2>6, <2>c, GoingTo
  <2>7. CASE EnsureBridge(c)
    <3>1. m.pc \in BridgeSteps /\ last' = last
      BY <2>7, EnsuringBridge
    <3>2. ASSUME NEW p \in (BridgeSteps \ {"bridge"}) \cup {"prepare"}, Goto(c, p)
          PROVE  Controlled'
      <4>1. p \in Steps
        BY DEF Steps
      <4> QED
        BY <2>0, <2>6, <3>1, <3>2, <4>1
    <3>3. CASE Becomes(c, Failed(m))
      BY <2>0, <2>c, <3>1, <3>3, Failing
    <3> QED
      BY <2>7, <3>2, <3>3, EnsuringBridge
  <2>8. CASE CreateNetns(c)
    <3>1. Goto(c, "keeper") /\ last' = last /\ m.pc = "netns" /\ "keeper" \in Steps
      BY <2>8 DEF CreateNetns, At, Quiet, Steps
    <3> QED
      BY <2>0, <2>6, <3>1
  <2>9. CASE Enroll(c)
    <3>1. Goto(c, "broker") /\ last' = last /\ m.pc = "enroll" /\ "broker" \in Steps
      BY <2>9 DEF Enroll, At, Quiet, Steps
    <3> QED
      BY <2>0, <2>6, <3>1
  <2>10. CASE SaveBroker(c)
    <3>1. Goto(c, "awaitBroker") /\ last' = last /\ m.pc = "saveBroker" /\ "awaitBroker" \in Steps
      BY <2>10 DEF SaveBroker, At, Quiet, Steps
    <3> QED
      BY <2>0, <2>6, <3>1
  <2>11. CASE SaveAgent(c)
    <3>1. Goto(c, "checkAgent") /\ last' = last /\ m.pc = "saveAgent" /\ "checkAgent" \in Steps
      BY <2>11 DEF SaveAgent, At, Quiet, Steps
    <3> QED
      BY <2>0, <2>6, <3>1
  <2>12. CASE StopAgents(c)
    <3>1. Goto(c, "stopBroker") /\ last' = last /\ m.pc = "stopAgents" /\ "stopBroker" \in Steps
      BY <2>12 DEF StopAgents, At, Quiet, Steps
    <3> QED
      BY <2>0, <2>6, <3>1
  <2>13. CASE StopBroker(c)
    <3>1. Goto(c, "cleanup") /\ last' = last /\ m.pc = "stopBroker" /\ "cleanup" \in Steps
      BY <2>13 DEF StopBroker, At, Quiet, Steps
    <3> QED
      BY <2>0, <2>6, <3>1
  <2>14. CASE EndpointsClean(c)
    <3>1. Goto(c, "deleteBridge") /\ last' = last /\ m.pc = "cleanup" /\ "deleteBridge" \in Steps
      BY <2>14 DEF EndpointsClean, At, Quiet, Steps
    <3> QED
      BY <2>0, <2>6, <3>1
  <2>15. CASE DeleteBridge(c)
    <3>1. m.pc \in Undoing /\ last' = last /\ "unlink" \in Steps /\ "unlinkOwner" \in Steps
          /\ \E p \in {"unlinkOwner", "unlink"} : Goto(c, p)
      BY <2>15, DeletingBridge DEF Steps
    <3> QED
      BY <2>0, <2>6, <3>1
  <2>16. CASE SaveAddress(c)
    <3>1. Goto(c, "agent") /\ last' = last /\ m.pc = "saveAddress" /\ "agent" \in Steps
      BY <2>16 DEF SaveAddress, At, Quiet, Steps
    <3> QED
      BY <2>0, <2>6, <3>1
  <2>17. CASE Prepare(c)
    BY <2>0, <2>17, <2>c, Preparing
  <2>18. CASE StartKeeper(c)
    BY <2>0, <2>18, <2>c, CreatingKeeper
  <2>19. CASE StartBroker(c)
    BY <2>0, <2>19, <2>c, CreatingBroker
  <2>20. CASE StartAgent(c)
    BY <2>0, <2>20, <2>c, CreatingAgent
  <2>21. CASE StopAgent(c)
    BY <2>0, <2>21, <2>c, StoppingAgent
  <2>22. CASE CleanEndpoint(c)
    BY <2>0, <2>22, <2>c, CleaningEndpoint
  <2>23. CASE RecordEndpoint(c)
    <3>1. CASE netns[m.at] # None
      BY <2>0, <2>23, <2>c, <3>1, RecordingEndpoint
    <3>2. CASE netns[m.at] = None
      <4>1. Becomes(c, Failed(Appended(m))) /\ last' = last /\ m.pc = "endpoint"
        BY <2>23, <3>2 DEF RecordEndpoint, At, Quiet
      <4> QED
        BY <2>0, <2>c, <4>1, FailingUp
    <3> QED
      BY <3>1, <3>2
  <2>24. CASE SaveKeeper(c)
    <3>1. Becomes(c, Advance(m, "prepare", "enroll")) /\ last' = last /\ m.pc = "saveKeeper"
          /\ "prepare" \in Steps /\ "enroll" \in Steps
      BY <2>24 DEF SaveKeeper, At, Quiet, Steps
    <3> QED
      BY <2>0, <2>c, <3>1, Advancing
  <2>25. CASE AwaitBroker(c)
    <3>0. m.pc = "awaitBroker" /\ last' = last
      BY <2>25 DEF AwaitBroker, At, Quiet
    <3>1. CASE BrokerAlive(m.runtime.broker)
      BY <2>0, <2>25, <2>c, <3>0, <3>1, Awaiting
    <3>2. CASE ~ BrokerAlive(m.runtime.broker)
      <4>1. Becomes(c, Failed(m))
        BY <2>25, <3>2, Zenon DEF AwaitBroker
      <4> QED
        BY <2>0, <2>c, <3>0, <4>1, Failing
    <3> QED
      BY <3>1, <3>2
  <2>26. CASE CheckAgent(c)
    <3>0. m.pc = "checkAgent" /\ "agent" \in Steps /\ "manifest" \in Steps
      BY <2>26 DEF CheckAgent, At, Steps
    <3>1. CASE m.cmd \in Ups /\ last' = last /\ Becomes(c, Advance(m, "agent", "manifest"))
      BY <2>0, <2>c, <3>0, <3>1, Advancing
    <3>2. CASE m.cmd \in Ups /\ last' = last /\ Becomes(c, Failed(m))
      BY <2>0, <2>c, <3>0, <3>2, Failing
    <3>3. CASE Over(c, "restart_ok") \/ Over(c, "none")
      BY <2>4, <3>3
    <3> QED
      BY <2>26, <3>1, <3>2, <3>3 DEF CheckAgent
  <2>27. CASE WriteManifest(c)
    <3>1. CASE m.cmd = "acceptance"
      <4>1. Goto(c, "scenario") /\ last' = last /\ m.pc = "manifest" /\ "scenario" \in Steps
        BY <2>27, <3>1 DEF WriteManifest, At, Steps
      <4> QED
        BY <2>0, <2>6, <3>1, <4>1
    <3>2. CASE m.cmd # "acceptance"
      BY <2>27, <2>4, <3>2 DEF WriteManifest
    <3> QED
      BY <3>1, <3>2
  <2>28. CASE RunScenario(c)
    <3>1. Becomes(c, Loaded(m)) /\ last' = last /\ m.pc = "scenario"
      BY <2>28 DEF RunScenario, At, Quiet
    <3> QED
      BY <2>0, <2>c, <3>1, Loading
  <2>29. CASE UnlinkRuntime(c)
    <3>1. CASE m.cmd = "recover" /\ m.then = "return"
      <4>1. Goto(c, "check") /\ last' = last /\ m.pc = "unlink" /\ "check" \in Steps
        BY <2>29, <3>1 DEF UnlinkRuntime, At, Steps
      <4> QED
        BY <2>0, <2>6, <3>1, <4>1
    <3>2. CASE ~ (m.cmd = "recover" /\ m.then = "return")
      BY <2>29, <2>4, <3>2 DEF UnlinkRuntime
    <3> QED
      BY <3>1, <3>2
  <2>30. CASE RotateLease(c)
    <3>1. CASE lease[m.at] < MaxLease
      BY <2>0, <2>30, <2>c, <3>1, RotatingLease
    <3>2. CASE ~ (lease[m.at] < MaxLease)
      BY <2>30, <2>4, <3>2 DEF RotateLease
    <3> QED
      BY <3>1, <3>2
  <2>31. CASE FlushAddress(c)
    <3>1. CASE netns[m.at] = None
      BY <2>31, <2>4, <3>1 DEF FlushAddress
    <3>2. CASE netns[m.at] # None
      <4>1. Goto(c, "addAddress") /\ last' = last /\ m.pc = "flush" /\ "addAddress" \in Steps
        BY <2>31, <3>2 DEF FlushAddress, At, Steps
      <4> QED
        BY <2>0, <2>6, <4>1
    <3> QED
      BY <3>1, <3>2
  <2>32. CASE AddAddress(c)
    <3>1. CASE netns[m.at] = None
      BY <2>32, <2>4, <3>1 DEF AddAddress
    <3>2. CASE netns[m.at] # None
      <4>1. Goto(c, "saveAddress") /\ last' = last /\ m.pc = "addAddress" /\ "saveAddress" \in Steps
        BY <2>32, <3>2 DEF AddAddress, At, Steps
      <4> QED
        BY <2>0, <2>6, <4>1
    <3> QED
      BY <3>1, <3>2
  <2>33. CASE NoKeeper(c) \/ RestartStepFails(c) \/ Kill(c)
    BY <2>33, <2>4 DEF NoKeeper, RestartStepFails, Kill
  <2>34. CASE UpStepFails(c)
    <3>1. Becomes(c, Failed(Appended(m))) /\ last' = last /\ m.cmd \in Ups
      BY <2>34 DEF UpStepFails
    <3>2. m.pc # "idle"
      BY <2>0, <3>1
    <3> QED
      BY <2>0, <2>c, <3>1, <3>2, FailingUp
  <2>35. CASE DownStepFails(c)
    <3>1. CASE Over(c, "none")
      BY <2>4, <3>1
    <3>2. CASE ~ Over(c, "none")
      <4>1. /\ Goto(c, "check") /\ last' = last /\ m.pc # "idle" /\ "check" \in Steps
            /\ m.cmd = "recover" /\ m.then = "return"
        BY <2>35, <3>2, DownFailing DEF Steps
      <4> QED
        BY <2>0, <2>6, <4>1
    <3> QED
      BY <3>1, <3>2
  <2>36. CASE StaysBehind(c)
    <3>1. /\ r.cmd = m.cmd /\ last' = last
          /\ \/ m.pc \in {"deleteBridge", "cleanup"} /\ r.pc \in {"unlinkOwner", "cleanup"}
                /\ r.then = m.then
             \/ m.pc = "netns" /\ r.pc = "stopAgents" /\ r.then = "raise"
      BY <2>36, StayingBehind
    <3> QED
      BY <2>0, <2>c, <3>1
  <2> QED
    BY <1>3, <2>1, <2>2, <2>3, <2>5, <2>7, <2>8, <2>9, <2>10, <2>11, <2>12, <2>13, <2>14, <2>15, <2>16, <2>17, <2>18, <2>19, <2>20, <2>21, <2>22, <2>23, <2>24, <2>25, <2>26, <2>27, <2>28, <2>29, <2>30, <2>31, <2>32, <2>33, <2>34, <2>35, <2>36
       DEF Step, UpStep, DownStep, RestartStep
<1> QED
  BY <1>0, <1>1, <1>2, <1>3 DEF Next

LEMMA ControlledInit == Init => Controlled
BY IdleTyped DEF Init, Controlled, Control, BeforeBroker, BridgeSteps, Creating, WithBroker, AgentLoop,
   Rotation, Undoing

-----------------------------------------------------------------------------
(***************************************************************************)
(* BrokerMapCurrent is not inductive: up gives slots new namespaces, and   *)
(* it starts a broker with a map it made from its own list before it       *)
(* records that broker.  It gives a slot a namespace only while no         *)
(* recorded broker runs, its list follows the namespaces, and a command    *)
(* that saves runtime.json afterwards has the recorded broker in memory.   *)
(***************************************************************************)
Attribution(m) ==
    /\ m.pc \in BeforeBroker => m.runtime.broker = None /\ ~ BrokerAlive(runtime.broker)
    /\ m.pc \in BeforeBroker \cup {"saveBroker"} =>
          \A s \in Slot : m.endpoints[s].ns # None => netns[s] \in {m.endpoints[s].ns, None}
    /\ m.pc = "netns" => m.endpoints[m.at].ns = None
    /\ m.pc = "saveBroker" =>
          \A b \in brokers : b.pid = m.runtime.broker =>
              \A s \in Slot : b.map[s] = m.endpoints[s].ns
    /\ m.pc \in {"awaitBroker", "manifest"} \cup AgentLoop \cup Rotation =>
          m.runtime.broker = runtime.broker

Attributed == BrokerMapCurrent /\ \A c \in Cli : Attribution(cli[c])

(* A step that takes brokers, namespaces or the record of the broker away. *)
Shrinks ==
    /\ brokers' \subseteq brokers
    /\ \A s \in Slot : netns'[s] \in {netns[s], None}
    /\ runtime'.broker \in {runtime.broker, None}

LEMMA ShrinkKeepsMap ==
    ASSUME TypeOK, BrokerMapCurrent, Shrinks
    PROVE  BrokerMapCurrent'
<1> SUFFICES ASSUME NEW b \in brokers', b.pid = runtime'.broker,
                    NEW s \in Slot, b.map[s] # None
             PROVE  netns'[s] \in {b.map[s], None}
  BY DEF BrokerMapCurrent
<1>1. b \in brokers /\ b.pid # None
  BY DEF Shrinks, TypeOK, Id, None
<1> QED
  BY <1>1 DEF Shrinks, BrokerMapCurrent

LEMMA ShrinkKeepsDead ==
    ASSUME TypeOK, Shrinks, ~ BrokerAlive(runtime.broker)
    PROVE  ~ BrokerAlive(runtime.broker)'
BY DEF Shrinks, BrokerAlive, Pids, TypeOK, Id, None

LEMMA AttributedNext ==
    ASSUME OneCommand, TypeOK, Controlled, Attributed, [Next]_vars
    PROVE  Attributed'
<1>0. CASE UNCHANGED vars
  BY <1>0 DEF vars, kernel, files, Attributed, Attribution, BrokerMapCurrent, BrokerAlive
<1>1. CASE Reboot
  BY <1>1, IdleTyped DEF Reboot, Attributed, Attribution, BrokerMapCurrent,
     BeforeBroker, BridgeSteps, Creating, AgentLoop, Rotation
<1>2. CASE AgentDies
  BY <1>2 DEF AgentDies, files, Attributed, Attribution, BrokerMapCurrent, BrokerAlive
<1>3. CASE BrokerDies
  <2>1. Shrinks /\ runtime' = runtime /\ netns' = netns /\ cli' = cli /\ brokers' \subseteq brokers
    BY <1>3 DEF BrokerDies, Shrinks, files
  <2> QED
    BY <2>1, ShrinkKeepsMap, ShrinkKeepsDead DEF Attributed, Attribution
<1>4. ASSUME NEW c \in Cli,
             StartUp(c) \/ StartDown(c) \/ StartRestart(c) \/ Step(c)
                \/ UpStepFails(c) \/ RestartStepFails(c) \/ DownStepFails(c) \/ StaysBehind(c)
                \/ Kill(c)
      PROVE  Attributed'
  <2> DEFINE m == cli[c]
             r == cli'[c]
  <2>0. /\ \A d \in Cli : d = c
        /\ Control(m) /\ Attribution(m) /\ BrokerMapCurrent
        /\ m \in Memory /\ m.at \in Slot
    BY DEF OneCommand, Controlled, Attributed, TypeOK, Memory
  <2>a. ASSUME BrokerMapCurrent', Attribution(m)' PROVE Attributed'
    BY <2>0, <2>a DEF Attributed
  (* A step that ends the command, or leaves it taking the fleet down. *)
  <2>b. ASSUME Shrinks, r.pc \in Undoing \cup {"idle", "check", "scenario"}
        PROVE  Attributed'
    BY <2>0, <2>a, <2>b, ShrinkKeepsMap
       DEF Attribution, BeforeBroker, BridgeSteps, Creating, AgentLoop, Rotation, Undoing
  <2>c. ASSUME Shrinks, Attribution(m)' PROVE Attributed'
    BY <2>0, <2>a, <2>c, ShrinkKeepsMap
  <2>d. ASSUME UNCHANGED <<brokers, netns, runtime>> PROVE Shrinks
    BY <2>d DEF Shrinks
  <2> USE DEF Attribution, BeforeBroker, BridgeSteps, Creating, AgentLoop, Rotation, Same
  <2>1. CASE StartUp(c)
    <3>1. Shrinks /\ r.pc = "check"
      BY <2>1, <2>d, StartingUp DEF kernel, files
    <3> QED
      BY <2>b, <3>1 DEF Undoing
  <2>2. CASE StartDown(c)
    <3>1. Shrinks /\ r.pc = "stopAgents"
      BY <2>2, <2>d, StartingDown DEF kernel, files
    <3> QED
      BY <2>b, <3>1 DEF Undoing
  <2>3. CASE StartRestart(c)
    <3>1. Shrinks /\ r.pc = "stopAgent" /\ r.runtime = runtime /\ runtime' = runtime
      BY <2>3, <2>d, StartingRestart DEF kernel, files
    <3> QED
      BY <2>c, <3>1
  <2>4. ASSUME NEW how, Over(c, how), Shrinks PROVE Attributed'
    BY <2>4, <2>b, Ending DEF Undoing
  <2>5. CASE Check(c)
    <3>0. m.pc = "check" /\ UNCHANGED <<brokers, netns, runtime>> /\ Shrinks
      BY <2>5, <2>d DEF Check, At, kernel, files
    <3>1. CASE ~ BrokerAlive(runtime.broker)
      <4>1. r.pc = "bridge" /\ r.runtime.broker = None /\ \A s \in Slot : r.endpoints[s].ns = None
        BY <2>5, <3>1, Checking DEF NoRuntime, NoEndpoints, NoEndpoint
      <4>2. ~ BrokerAlive(runtime.broker)'
        BY <3>0, <3>1 DEF BrokerAlive
      <4> QED
        BY <2>c, <3>0, <4>1, <4>2
    <3>2. CASE BrokerAlive(runtime.broker)
      <4>1. Becomes(c, Loaded(m)) \/ Over(c, "none")
        BY <2>5, <3>2 DEF Check
      <4> QED
        BY <2>0, <2>b, <2>4, <3>0, <4>1, Loading DEF Undoing
    <3> QED
      BY <3>1, <3>2
  <2>6. CASE EnsureBridge(c)
    <3>1. m.pc \in BridgeSteps /\ UNCHANGED <<brokers, netns, runtime>>
      BY <2>6, EnsuringBridge
    <3>2. Shrinks /\ ~ BrokerAlive(runtime.broker)'
      BY <2>0, <2>d, <3>1 DEF BrokerAlive
    <3>3. ASSUME NEW p \in (BridgeSteps \ {"bridge"}) \cup {"prepare"}, Goto(c, p)
          PROVE  Attributed'
      <4>1. p \in Steps
        BY DEF Steps
      <4> QED
        BY <2>0, <2>c, <3>1, <3>2, <3>3, <4>1, GoingTo
    <3>4. CASE Becomes(c, Failed(m))
      BY <2>0, <2>b, <3>2, <3>4, Failing DEF Undoing
    <3> QED
      BY <2>6, <3>3, <3>4, EnsuringBridge
  <2>7. CASE Prepare(c)
    <3>1. PICK e \in Endpoint : e.ns = None /\ r.endpoints = [m.endpoints EXCEPT ![m.at] = e]
      BY <2>7, Preparing
    <3>2. /\ m.pc = "prepare" /\ r.pc = "netns" /\ r.at = m.at /\ r.runtime = m.runtime
          /\ UNCHANGED <<brokers, netns, runtime>>
      BY <2>7, Preparing DEF kernel
    <3>3. Shrinks /\ ~ BrokerAlive(runtime.broker)'
      BY <2>0, <2>d, <3>2 DEF BrokerAlive
    <3>4. r.endpoints[m.at].ns = None
          /\ \A s \in Slot \ {m.at} : r.endpoints[s].ns = m.endpoints[s].ns
      BY <2>0, <3>1 DEF Memory
    <3> QED
      BY <2>0, <2>c, <3>2, <3>3, <3>4
  <2>8. CASE CreateNetns(c)
    <3>1. Goto(c, "keeper") /\ m.pc = "netns" /\ "keeper" \in Steps
          /\ UNCHANGED <<brokers, runtime>>
      BY <2>8 DEF CreateNetns, At, Steps, files
    <3>2. \A s \in Slot \ {m.at} : netns'[s] = netns[s]
      BY <2>8, <2>0 DEF CreateNetns, TypeOK
    <3>3. ~ BrokerAlive(runtime.broker)' /\ BrokerMapCurrent'
      BY <2>0, <3>1 DEF BrokerAlive, Pids, BrokerMapCurrent
    <3> QED
      BY <2>0, <2>a, <3>1, <3>2, <3>3, GoingTo
  <2>9. CASE StartKeeper(c)
    <3>1. /\ m.pc = "keeper" /\ r.pc = "endpoint" /\ r.runtime = m.runtime
          /\ \A s \in Slot : r.endpoints[s].ns = m.endpoints[s].ns
          /\ UNCHANGED <<brokers, netns, runtime>>
      BY <2>9, CreatingKeeper DEF files
    <3>2. Shrinks /\ ~ BrokerAlive(runtime.broker)'
      BY <2>0, <2>d, <3>1 DEF BrokerAlive
    <3> QED
      BY <2>0, <2>c, <3>1, <3>2
  <2>10. CASE RecordEndpoint(c)
    <3>1. CASE netns[m.at] # None
      <4>1. PICK e \in Endpoint : e.ns = netns[m.at] /\ r.endpoints = [m.endpoints EXCEPT ![m.at] = e]
        BY <2>10, <3>1, RecordingEndpoint
      <4>2. /\ m.pc = "endpoint" /\ r.pc = "saveKeeper" /\ r.runtime = m.runtime
            /\ UNCHANGED <<brokers, netns, runtime>>
        BY <2>10, <3>1, RecordingEndpoint DEF kernel
      <4>3. Shrinks /\ ~ BrokerAlive(runtime.broker)'
        BY <2>0, <2>d, <4>2 DEF BrokerAlive
      <4>4. r.endpoints[m.at].ns = netns[m.at]
            /\ \A s \in Slot \ {m.at} : r.endpoints[s].ns = m.endpoints[s].ns
        BY <2>0, <4>1 DEF Memory
      <4> QED
        BY <2>0, <2>c, <4>2, <4>3, <4>4
    <3>2. CASE netns[m.at] = None
      <4>1. Becomes(c, Failed(Appended(m))) /\ Shrinks
        BY <2>10, <2>d, <3>2 DEF RecordEndpoint, kernel
      <4> QED
        BY <2>b, <4>1, FailingUp DEF Undoing
    <3> QED
      BY <3>1, <3>2
  <2>11. CASE SaveKeeper(c)
    <3>1. /\ Becomes(c, Advance(m, "prepare", "enroll")) /\ m.pc = "saveKeeper"
          /\ "prepare" \in Steps /\ "enroll" \in Steps
          /\ UNCHANGED <<brokers, netns>> /\ runtime' = m.runtime
      BY <2>11 DEF SaveKeeper, At, Steps, kernel
    <3>2. Shrinks
      <4>1. m.runtime.broker = None
        BY <2>0, <3>1
      <4> QED
        BY <3>1, <4>1 DEF Shrinks
    <3>3. ~ BrokerAlive(runtime.broker)'
      BY <2>0, <3>1, <3>2, ShrinkKeepsDead
    <3>4. r.pc \in {"prepare", "enroll"} /\ r.runtime = m.runtime /\ r.endpoints = m.endpoints
      BY <3>1, Advancing
    <3> QED
      BY <2>0, <2>c, <3>1, <3>2, <3>3, <3>4
  <2>12. CASE Enroll(c)
    <3>1. Goto(c, "broker") /\ m.pc = "enroll" /\ "broker" \in Steps
          /\ UNCHANGED <<brokers, netns, runtime>>
      BY <2>12 DEF Enroll, At, Steps, kernel, files
    <3>2. Shrinks /\ ~ BrokerAlive(runtime.broker)'
      BY <2>0, <2>d, <3>1 DEF BrokerAlive
    <3> QED
      BY <2>0, <2>c, <3>1, <3>2, GoingTo
  <2>13. CASE StartBroker(c)
    <3>1. PICK pid \in FreshBroker :
             /\ m.pc = "broker" /\ r.pc = "saveBroker" /\ r.runtime.broker = pid
             /\ r.endpoints = m.endpoints
             /\ brokers' = brokers
                    \cup {[pid |-> pid, map |-> [s \in Slot |-> m.endpoints[s].ns]]}
             /\ UNCHANGED <<netns, runtime>>
      BY <2>13, CreatingBroker DEF files
    <3>2. pid # runtime.broker /\ pid \notin Pids(brokers)
      BY DEF FreshBroker, Fresh
    <3>3. BrokerMapCurrent'
      BY <2>0, <3>1, <3>2 DEF BrokerMapCurrent
    <3>4. \A b \in brokers' : b.pid = pid => \A s \in Slot : b.map[s] = m.endpoints[s].ns
      BY <3>1, <3>2 DEF Pids
    <3> QED
      BY <2>0, <2>a, <3>1, <3>3, <3>4
  <2>14. CASE SaveBroker(c)
    <3>1. Goto(c, "awaitBroker") /\ m.pc = "saveBroker" /\ "awaitBroker" \in Steps
          /\ UNCHANGED <<brokers, netns>> /\ runtime' = m.runtime
      BY <2>14 DEF SaveBroker, At, Steps, kernel
    <3>2. BrokerMapCurrent'
      BY <2>0, <3>1 DEF BrokerMapCurrent
    <3> QED
      BY <2>0, <2>a, <3>1, <3>2, GoingTo
  <2>15. CASE AwaitBroker(c)
    <3>1. m.pc = "awaitBroker" /\ Shrinks /\ runtime' = runtime
      BY <2>15, <2>d DEF AwaitBroker, At, kernel, files
    <3>2. CASE BrokerAlive(m.runtime.broker)
      BY <2>15, <2>0, <2>c, <3>1, <3>2, Awaiting
    <3>3. CASE ~ BrokerAlive(m.runtime.broker)
      <4>1. Becomes(c, Failed(m))
        BY <2>15, <3>3, Zenon DEF AwaitBroker
      <4> QED
        BY <2>0, <2>b, <3>1, <4>1, Failing DEF Undoing
    <3> QED
      BY <3>2, <3>3
  <2>16. CASE StartAgent(c)
    <3>1. /\ m.pc = "agent" /\ r.pc = "saveAgent" /\ r.runtime.broker = m.runtime.broker
          /\ UNCHANGED <<brokers, netns, runtime>>
      BY <2>16, CreatingAgent DEF files
    <3> QED
      BY <2>0, <2>c, <2>d, <3>1
  <2>17. CASE SaveAgent(c)
    <3>1. Goto(c, "checkAgent") /\ m.pc = "saveAgent" /\ "checkAgent" \in Steps
          /\ UNCHANGED <<brokers, netns>> /\ runtime' = m.runtime
      BY <2>17 DEF SaveAgent, At, Steps, kernel
    <3>2. Shrinks
      BY <2>0, <3>1 DEF Shrinks
    <3> QED
      BY <2>0, <2>c, <3>1, <3>2, GoingTo
  <2>18. CASE CheckAgent(c)
    <3>0. m.pc = "checkAgent" /\ "agent" \in Steps /\ "manifest" \in Steps
          /\ Shrinks /\ runtime' = runtime
      BY <2>18, <2>d DEF CheckAgent, At, Steps, kernel, files
    <3>1. CASE Becomes(c, Advance(m, "agent", "manifest"))
      BY <2>0, <2>c, <3>0, <3>1, Advancing
    <3>2. CASE Becomes(c, Failed(m))
      BY <2>0, <2>b, <3>0, <3>2, Failing DEF Undoing
    <3>3. CASE Over(c, "restart_ok") \/ Over(c, "none")
      BY <2>4, <3>0, <3>3
    <3> QED
      BY <2>18, <3>1, <3>2, <3>3 DEF CheckAgent
  <2>19. CASE WriteManifest(c)
    <3>1. Shrinks /\ "scenario" \in Steps
      BY <2>19, <2>d DEF WriteManifest, kernel, Steps
    <3>2. CASE Goto(c, "scenario")
      BY <2>b, <3>1, <3>2, GoingTo
    <3>3. CASE Over(c, "up_ok")
      BY <2>4, <3>1, <3>3
    <3> QED
      BY <2>19, <3>2, <3>3 DEF WriteManifest
  <2>20. CASE RunScenario(c)
    <3>1. Becomes(c, Loaded(m)) /\ Shrinks
      BY <2>20, <2>d DEF RunScenario, kernel, files
    <3> QED
      BY <2>0, <2>b, <3>1, Loading DEF Undoing
  <2>21. CASE StopAgents(c)
    <3>1. Goto(c, "stopBroker") /\ "stopBroker" \in Steps /\ Shrinks
      BY <2>21, <2>d DEF StopAgents, Steps, kernel, files
    <3> QED
      BY <2>b, <3>1, GoingTo DEF Undoing
  <2>22. CASE EndpointsClean(c)
    <3>1. Goto(c, "deleteBridge") /\ "deleteBridge" \in Steps /\ Shrinks
      BY <2>22, <2>d DEF EndpointsClean, Steps, kernel, files
    <3> QED
      BY <2>b, <3>1, GoingTo DEF Undoing
  <2>23. CASE DeleteBridge(c)
    <3>1. /\ \E p \in {"unlinkOwner", "unlink"} : Goto(c, p)
          /\ "unlink" \in Steps /\ "unlinkOwner" \in Steps /\ Shrinks
      BY <2>23, <2>d, DeletingBridge DEF Steps
    <3> QED
      BY <2>b, <3>1, GoingTo DEF Undoing
  <2>24. CASE StopBroker(c)
    <3>1. Goto(c, "cleanup") /\ "cleanup" \in Steps /\ Shrinks
      BY <2>24 DEF StopBroker, Steps, files, Shrinks
    <3> QED
      BY <2>b, <3>1, GoingTo DEF Undoing
  <2>25. CASE CleanEndpoint(c)
    <3>1. PICK s \in Slot : netns' = [netns EXCEPT ![s] = None]
      BY <2>25, CleaningEndpoint
    <3>2. r.pc = "cleanup" /\ UNCHANGED <<brokers, runtime>>
      BY <2>25, CleaningEndpoint DEF files
    <3>3. Shrinks
      BY <3>1, <3>2 DEF Shrinks, TypeOK
    <3> QED
      BY <2>b, <3>2, <3>3 DEF Undoing
  <2>26. CASE UnlinkRuntime(c)
    <3>1. Shrinks /\ "check" \in Steps
      BY <2>26 DEF UnlinkRuntime, kernel, Shrinks, NoRuntime, Steps
    <3>2. CASE Goto(c, "check")
      BY <2>b, <3>1, <3>2, GoingTo
    <3>3. CASE ~ Goto(c, "check")
      BY <2>26, <2>4, <3>1, <3>3 DEF UnlinkRuntime
    <3> QED
      BY <3>2, <3>3
  <2>27. CASE StopAgent(c)
    <3>1. /\ m.pc = "stopAgent" /\ r.pc \in {"lease", "agent"}
          /\ r.runtime.broker = m.runtime.broker /\ UNCHANGED <<brokers, netns, runtime>>
      BY <2>27, StoppingAgent DEF files
    <3> QED
      BY <2>0, <2>c, <2>d, <3>1
  <2>28. CASE RotateLease(c)
    <3>1. UNCHANGED <<brokers, netns, runtime>>
      BY <2>28 DEF RotateLease, kernel
    <3>2. CASE lease[m.at] < MaxLease
      <4>1. m.pc = "lease" /\ r.pc = "flush" /\ r.runtime = m.runtime
        BY <2>28, <3>2, RotatingLease
      <4> QED
        BY <2>0, <2>c, <2>d, <3>1, <4>1
    <3>3. CASE ~ (lease[m.at] < MaxLease)
      BY <2>28, <2>d, <2>4, <3>1, <3>3 DEF RotateLease
    <3> QED
      BY <3>2, <3>3
  <2>29. CASE FlushAddress(c)
    <3>1. UNCHANGED <<brokers, netns, runtime>> /\ m.pc = "flush" /\ "addAddress" \in Steps
      BY <2>29 DEF FlushAddress, files, At, Steps
    <3>2. CASE Goto(c, "addAddress")
      BY <2>0, <2>c, <2>d, <3>1, <3>2, GoingTo
    <3>3. CASE Over(c, "none")
      BY <2>d, <2>4, <3>1, <3>3
    <3> QED
      BY <2>29, <3>2, <3>3 DEF FlushAddress
  <2>30. CASE AddAddress(c)
    <3>1. UNCHANGED <<brokers, netns, runtime>> /\ m.pc = "addAddress" /\ "saveAddress" \in Steps
      BY <2>30 DEF AddAddress, files, At, Steps
    <3>2. CASE Goto(c, "saveAddress")
      BY <2>0, <2>c, <2>d, <3>1, <3>2, GoingTo
    <3>3. CASE Over(c, "none")
      BY <2>d, <2>4, <3>1, <3>3
    <3> QED
      BY <2>30, <3>2, <3>3 DEF AddAddress
  <2>31. CASE SaveAddress(c)
    <3>1. Goto(c, "agent") /\ m.pc = "saveAddress" /\ "agent" \in Steps
          /\ UNCHANGED <<brokers, netns, runtime>>
      BY <2>31 DEF SaveAddress, At, Steps, kernel
    <3> QED
      BY <2>0, <2>c, <2>d, <3>1, GoingTo
  <2>32. CASE NoKeeper(c) \/ RestartStepFails(c) \/ Kill(c)
    <3>1. UNCHANGED <<brokers, netns, runtime>> /\ Over(c, "none")
      BY <2>32 DEF NoKeeper, RestartStepFails, Kill, kernel, files
    <3> QED
      BY <2>d, <2>4, <3>1
  <2>33. CASE UpStepFails(c)
    <3>1. Becomes(c, Failed(Appended(m))) /\ Shrinks
      BY <2>33, <2>0 DEF UpStepFails, files, Shrinks, TypeOK
    <3> QED
      BY <2>b, <3>1, FailingUp DEF Undoing
  <2>34. CASE DownStepFails(c)
    <3>1. UNCHANGED <<brokers, netns, runtime>> /\ "check" \in Steps
      BY <2>34, DownFailing DEF kernel, files, Steps
    <3>2. CASE Over(c, "none")
      BY <2>d, <2>4, <3>1, <3>2
    <3>3. CASE Goto(c, "check")
      BY <2>b, <2>d, <3>1, <3>3, GoingTo
    <3> QED
      BY <2>34, <3>2, <3>3, DownFailing
  <2>35. CASE StaysBehind(c)
    <3>1. UNCHANGED <<brokers, netns, runtime>> /\ r.pc \in Undoing
      BY <2>35, StayingBehind DEF files, Undoing
    <3> QED
      BY <2>b, <2>d, <3>1
  <2> QED
    BY <1>4, <2>1, <2>2, <2>3, <2>5, <2>6, <2>7, <2>8, <2>9, <2>10, <2>11, <2>12, <2>13, <2>14, <2>15, <2>16, <2>17, <2>18, <2>19, <2>20, <2>21, <2>22, <2>23, <2>24, <2>25, <2>26, <2>27, <2>28, <2>29, <2>30, <2>31, <2>32, <2>33, <2>34, <2>35
       DEF Step, UpStep, DownStep, RestartStep
<1> QED
  BY <1>0, <1>1, <1>2, <1>3, <1>4 DEF Next

(* Whatever fails, dies or is killed: while the recorded broker runs, its   *)
(* map gives each slot the namespace its name stands for, or one that is    *)
(* gone (sensor broker --map, fleet_manager.py up and restart).             *)
THEOREM BrokerMapAlwaysCurrent ==
    ASSUME OneCommand
    PROVE  Spec => []BrokerMapCurrent
<1>1. Init => Attributed
  BY IdleTyped DEF Init, Attributed, BrokerMapCurrent, Attribution, BeforeBroker, BridgeSteps, Creating,
     AgentLoop, Rotation
<1>2. TypeOK /\ Controlled /\ Attributed /\ [Next]_vars => Controlled' /\ Attributed'
  BY ControlledNext, AttributedNext
<1>3. Attributed => BrokerMapCurrent
  BY DEF Attributed
<1> QED
  BY <1>1, <1>2, <1>3, ControlledInit, TypeCorrect, PTL DEF Spec

=============================================================================
