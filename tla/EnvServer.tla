----------------------------- MODULE EnvServer ------------------------------
(***************************************************************************)
(* The environment daemon as processes: environment/daemon.py and          *)
(* server.py around the core of EnvService, with client.py at the other    *)
(* end of the Unix socket.  Several processes may be started; each reads   *)
(* the policy file, takes the owner lock, clears away a stale socket,      *)
(* binds its own and serves, until it is told to stop or dies.  A client   *)
(* waits for its answer for a while only: the request it gave up is served *)
(* all the same.                                                           *)
(***************************************************************************)
EXTENDS EnvService

CONSTANTS
  Instances,   \* daemon processes that may exist at the same time
  Clients,
  ClientSettings, ClientModes,  \* what they ask for
  Requests,    \* places for requests under way
  None,
  Setups       \* setups [boot, requests, polls, left]: see MCEnvServer

ServerCounters == {"starts", "stops", "reads", "calls"}

ASSUME SetupsAssumption ==
  \A s \in Setups : /\ s.boot \in InitPolicies
                    /\ s.requests \in {"any", "power", "none"} /\ s.polls \in {"any", "steady", "none"}
                    /\ s.left \in [ServerCounters -> Nat]
ASSUME PeersAssumption ==
  /\ Instances # {} /\ None \notin Instances \cup Clients
  /\ ClientModes \subseteq Modes
  /\ ClientSettings \subseteq [start : Int, stop : Int, minOn : Nat, minOff : Nat]

VARIABLES
  setup,       \* what anonymous requests come in, and whether the sensor
               \* never fails or is never polled (bounds of the model)
  left,        \* what may still happen (a bound of the model)
  daemon,      \* the processes: where they are, the policy they read
  owner,       \* who holds the lock on the .owner.lock file
  path,        \* the socket path: "absent", "stale", or who listens on it
  req,         \* the requests under way
  known        \* the policy each client has read last

process == <<daemon, owner, path>>
traffic == <<req, known>>
serverVars == <<vars, setup, left, process, traffic>>

NoRequest == [client |-> None]

First == CHOOSE i \in Instances : TRUE

ServerInit ==
  /\ Init
  /\ \E s \in Setups :
       /\ setup = [requests |-> s.requests, polls |-> s.polls]
       /\ disk = s.boot /\ left = s.left
  /\ owner = First
  /\ daemon = [i \in Instances |-> [at |-> IF i = First THEN "serving" ELSE "none",
                                    policy |-> None]]
  /\ path = owner
  /\ req = [r \in Requests |-> NoRequest]
  /\ known = [c \in Clients |-> [policy |-> disk, fresh |-> TRUE]]

Take(counter) == left[counter] > 0 /\ left' = [left EXCEPT ![counter] = @ - 1]

-----------------------------------------------------------------------------
(* A daemon starts.                                                         *)

Goto(i, place) == daemon' = [daemon EXCEPT ![i].at = place]

Serving(i) == daemon[i].at = "serving"

\* from_config builds the core with the policy of the file, before it asks
\* for the lock.  The service manager starts a daemon when there is none,
\* anyone may start another one beside it.
Load(i) ==
  /\ daemon[i].at = "none"
  /\ IF \A j \in Instances : daemon[j].at = "none"
     THEN i = First /\ UNCHANGED left
     ELSE Take("starts")
  /\ daemon' = [daemon EXCEPT ![i] = [at |-> "loaded", policy |-> disk]]
  /\ UNCHANGED <<vars, setup, owner, path, traffic>>

Withdraw(i) ==
  /\ daemon' = [daemon EXCEPT ![i] = [at |-> "none", policy |-> None]]
  /\ owner' = IF owner = i THEN None ELSE owner

\* Mutant: the lock file is unlinked at exit, so another one can be locked.
AnotherInode == TRUE

NobodyHoldsIt == owner = None

LockGranted == NobodyHoldsIt

Lock(i) ==
  /\ daemon[i].at = "loaded"
  /\ IF LockGranted THEN owner' = i /\ Goto(i, "probe")
                    ELSE Withdraw(i)
  /\ UNCHANGED <<vars, setup, left, path, traffic>>

\* Connecting tells a stale socket (refused) from a live one.
Probe(i) ==
  /\ daemon[i].at = "probe"
  /\ CASE path = "absent"    -> Goto(i, "bind") /\ UNCHANGED owner
       [] path = "stale"     -> Goto(i, "recheck") /\ UNCHANGED owner
       [] path \in Instances -> Withdraw(i)
  /\ UNCHANGED <<vars, setup, left, path, traffic>>

\* Is it still the socket that was probed?
Reinspect(i) ==
  /\ daemon[i].at = "recheck"
  /\ IF path = "stale" THEN Goto(i, "unlink") /\ UNCHANGED owner ELSE Withdraw(i)
  /\ UNCHANGED <<vars, setup, left, path, traffic>>

Unlink(i) ==
  /\ daemon[i].at = "unlink"
  /\ path' = "absent" /\ Goto(i, "bind")
  /\ UNCHANGED <<vars, setup, left, owner, traffic>>

\* What clients knew no longer counts when the policy the process before
\* had in memory is not the one this process has read.
Remembered(p) ==
  /\ known' = [c \in Clients |->
                 [known[c] EXCEPT !.fresh = @ /\ p = ctl.policy]]
  /\ req' = [r \in Requests |->
               IF req[r] = NoRequest THEN NoRequest
               ELSE [req[r] EXCEPT !.op.fresh = @ /\ p = ctl.policy]]

\* The socket is bound and listens, the polling thread runs.
Bind(i) ==
  /\ daemon[i].at = "bind"
  /\ IF path = "absent"
     THEN /\ path' = i /\ UNCHANGED owner
          /\ daemon' = [daemon EXCEPT ![i] = [at |-> "serving", policy |-> None]]
          /\ NewProcess(daemon[i].policy, "running")
          /\ Remembered(daemon[i].policy)
     ELSE Withdraw(i) /\ UNCHANGED <<vars, path, traffic>>
  /\ UNCHANGED <<setup, left>>

-----------------------------------------------------------------------------
(* A daemon ends: it is told to stop, or it dies wherever it is.            *)

\* The core first; requests being served are not waited for.
Stop(i) ==
  /\ Serving(i)
  /\ Take("stops") /\ Shutdown /\ Goto(i, "closed")
  /\ UNCHANGED <<setup, owner, path, traffic>>

CloseSocket(i) ==
  /\ daemon[i].at = "closed"
  /\ path' = IF path = i THEN "stale" ELSE path
  /\ Goto(i, "unbound")
  /\ UNCHANGED <<vars, setup, left, owner, traffic>>

UnlinkOwn(i) ==
  /\ daemon[i].at = "unbound"
  /\ path' = IF path = "stale" THEN "absent" ELSE path
  /\ Goto(i, "unlinked")
  /\ UNCHANGED <<vars, setup, left, owner, traffic>>

\* The answers of a process go with it.
Broken(i) ==
  /\ req' = [r \in Requests |->
               IF req[r] # NoRequest /\ req[r].inst = i THEN NoRequest ELSE req[r]]
  /\ UNCHANGED known

Exit(i) ==
  /\ daemon[i].at = "unlinked"
  /\ Withdraw(i) /\ Broken(i)
  /\ UNCHANGED <<vars, setup, left, path>>

\* A crash, or a start-up that raises: the kernel takes the lock and the
\* socket back, the path stays.
Dies(i) ==
  /\ daemon[i].at # "none"
  /\ Withdraw(i) /\ Broken(i)
  /\ path' = IF path = i THEN "stale" ELSE path
  /\ IF daemon[i].at \in {"serving", "closed", "unbound", "unlinked"}
     THEN NewProcess(ctl.policy, "closed")
     ELSE UNCHANGED vars
  /\ UNCHANGED <<setup, left>>

-----------------------------------------------------------------------------
(* Clients *)

Operations(c) ==
  [kind : {"update"}, settings : ClientSettings, read : {known[c].policy}, fresh : {known[c].fresh}]
  \cup [kind : {"mode"}, mode : ClientModes, fresh : {TRUE}]

ReadPolicy(c) ==
  /\ path \in Instances /\ Serving(path) /\ todo = {} /\ Take("reads")
  /\ \A r \in Requests : req[r].client # c
  /\ known' = [known EXCEPT ![c] = [policy |-> ctl.policy, fresh |-> TRUE]]
  /\ UNCHANGED <<vars, setup, process, req>>

\* One call at a time; one that was given up may still be on its way.
Awaited(r) == req[r] # NoRequest /\ req[r].awaited

Send(c) ==
  /\ path \in Instances /\ Take("calls")
  /\ \A r \in Requests : req[r].client = c => ~ Awaited(r)
  /\ \E r \in Requests : req[r] = NoRequest
  /\ \E op \in Operations(c) :
       LET r == CHOOSE s \in Requests : req[s] = NoRequest
       IN req' = [req EXCEPT ![r] = [client |-> c, inst |-> path, op |-> op,
                                     answer |-> None, awaited |-> TRUE]]
  /\ UNCHANGED <<vars, setup, process, known>>

\* Mutant: the generation the client expects is not compared.
AnyGeneration(op) == FALSE

OtherGeneration(op) == op.kind = "update" /\ op.read.gen # ctl.policy.gen

Conflicts(op) == OtherGeneration(op)

Asked(op) ==
  [gen |-> ctl.policy.gen + 1, mode |-> ctl.policy.mode, start |-> op.settings.start,
   stop |-> op.settings.stop, minOn |-> op.settings.minOn, minOff |-> op.settings.minOff]

Invalid(op) == op.kind = "update" /\ ~ ValidPolicy(Asked(op))

\* handle, with the code of its answer.
Handled(op, code) ==
  CASE Held          -> code = "BUSY" /\ UNCHANGED vars
    [] ~ Held /\ Conflicts(op) -> code = "POLICY_GENERATION_CONFLICT" /\ UNCHANGED vars
    [] ~ Held /\ ~ Conflicts(op) /\ Invalid(op) -> code = "POLICY_INVALID" /\ UNCHANGED vars
    [] OTHER ->
         /\ Serve /\ UNCHANGED hold
         /\ IF op.kind = "update"
            THEN Command(UpdatePolicy(ctl, Asked(op))) /\ UNCHANGED chosen
            ELSE Command(SetMode(ctl, op.mode)) /\ chosen' = chosen \cup {op.mode}
         /\ code = IF disk' = ctl'.policy THEN "ok" ELSE "failed"

Codes == {"ok", "failed", "BUSY", "POLICY_GENERATION_CONFLICT", "POLICY_INVALID"}

\* One handler thread per request; an answer nobody waits for is lost.
Answer(r) ==
  /\ req[r] # NoRequest /\ req[r].answer = None /\ Serving(req[r].inst) /\ todo = {}
  /\ \E code \in Codes :
       /\ Handled(req[r].op, code)
       /\ req' = [req EXCEPT ![r] =
                    IF @.awaited THEN [@ EXCEPT !.answer = [code |-> code, policy |-> ctl'.policy]]
                                 ELSE NoRequest]
  /\ UNCHANGED <<setup, left, process, known>>

\* An accepted update comes back with the policy it made.
Receive(r) ==
  /\ Awaited(r) /\ req[r].answer # None
  /\ req' = [req EXCEPT ![r] = NoRequest]
  /\ known' = IF req[r].answer.code = "ok"
              THEN [known EXCEPT ![req[r].client] =
                      [policy |-> req[r].answer.policy, fresh |-> req[r].op.fresh]]
              ELSE known
  /\ UNCHANGED <<vars, setup, left, process>>

TimeOut(r) ==
  /\ Awaited(r)
  /\ req' = [req EXCEPT ![r] = IF @.answer = None THEN [@ EXCEPT !.awaited = FALSE]
                                                  ELSE NoRequest]
  /\ UNCHANGED <<vars, setup, left, process, known>>

-----------------------------------------------------------------------------
Outside == UNCHANGED <<setup, left, process, traffic>>

CorePoll ==
  /\ setup.polls # "none" /\ Poll /\ Outside
  /\ setup.polls = "steady" => ctl'.quality \notin BadQualities
CoreTick == TickJob /\ Outside
CoreElapse == setup.polls # "none" /\ Elapse /\ Outside

PowerRequest == PowerPrepare \/ PowerRelease

Anonymous ==
  /\ \/ setup.requests = "any" /\ Request
     \/ setup.requests = "power" /\ PowerRequest
  /\ Outside

Lifecycle(i) ==
  \/ Load(i) \/ Lock(i) \/ Probe(i) \/ Reinspect(i) \/ Unlink(i) \/ Bind(i)
  \/ Stop(i) \/ CloseSocket(i) \/ UnlinkOwn(i) \/ Exit(i) \/ Dies(i)

ServerNext ==
  \/ CorePoll \/ CoreTick \/ CoreElapse \/ Anonymous
  \/ \E i \in Instances : Lifecycle(i)
  \/ \E c \in Clients : ReadPolicy(c) \/ Send(c)
  \/ \E r \in Requests : Answer(r) \/ Receive(r) \/ TimeOut(r)

ServerSpec == ServerInit /\ [][ServerNext]_serverVars

ServerFairSpec ==
  /\ ServerSpec
  /\ WF_serverVars(CorePoll) /\ WF_serverVars(CoreTick) /\ SF_serverVars(CoreElapse)

-----------------------------------------------------------------------------
(* However daemons are started, stopped and killed against each other, at   *)
(* most one serves, and the socket path leads to it: no process that starts *)
(* or ends takes the socket of another one away (server.py, the owner lock  *)
(* around probe, unlink and bind, and until the own socket is unlinked).    *)
OneDaemon ==
  \A i \in Instances : Serving(i) =>
    path = i /\ \A j \in Instances \ {i} : ~ Serving(j)

(* An update that names the generation its client has read is made against  *)
(* exactly the policy that client read, whatever other clients, requests    *)
(* given up for lost and clean restarts have done in between; unless a      *)
(* daemon has started with another policy than the one before it had in     *)
(* memory, which reuses generations (policy.py updated, client.py call).    *)
Accepted(r) ==
  /\ req[r] # NoRequest /\ req[r].answer = None /\ ctl'.policy.gen > ctl.policy.gen
  /\ req'[r] = NoRequest \/ req'[r].answer # None

NoLostUpdate ==
  [][\A r \in Requests :
       Accepted(r) /\ req[r].op.kind = "update" /\ req[r].op.fresh
         => ctl.policy = req[r].op.read]_serverVars
=============================================================================
