---------------------------- MODULE ServiceManager ----------------------------
(***************************************************************************)
(* The boot-network services and their supervisor                          *)
(* (internal/service/manager.go, cmd/helboot/{main,services}.go, the Run   *)
(* methods of internal/network/{tftp,proxydhcp,dhcpserver}.go): which ones *)
(* are started, how each opens its sockets, fails, waits and starts again, *)
(* and how the process shuts down.                                         *)
(*                                                                         *)
(* A supervisor is a goroutine per service.  Time shows only in what it    *)
(* does: a wait ends, a service has run for more than a minute, the ten    *)
(* seconds of a shutdown are over.                                         *)
(***************************************************************************)
EXTENDS Naturals, Sequences

CONSTANTS
  InitialBackoff, MaxBackoff,   \* seconds
  MaxRapid                      \* bound: failures in a row that are counted

(* A wait that has been doubled k times. *)
Doubled[k \in Nat] == IF k = 0 THEN InitialBackoff ELSE 2 * Doubled[k - 1]

ASSUME ServiceAssumption ==
  /\ InitialBackoff \in Nat \ {0}
  /\ MaxBackoff \in Nat /\ MaxBackoff >= InitialBackoff
  /\ MaxRapid \in Nat /\ Doubled[MaxRapid] >= MaxBackoff

VARIABLES
  main,         \* what run() does
  cancelled,    \* ctx is done
  expired,      \* shutdownCtx is done
  sup,          \* what the supervisor of a service does
  socks,        \* the ports a service has open
  late,         \* a TFTP listener whose Run has returned before it was open
  delay,        \* a supervisor's backoff
  rapid,        \* history: its waits since the service last ran for a minute
  foreign       \* ports that other programs on the host have open

svc  == <<sup, socks, late, delay, rapid>>
vars == <<main, cancelled, expired, sup, socks, late, delay, rapid, foreign>>

Services == {"tftp", "dhcp", "proxydhcp"}
PortsOf == [tftp |-> <<69>>, dhcp |-> <<67>>, proxydhcp |-> <<67, 4011>>]
Ports == {67, 69, 4011}
PortSet(s) == {PortsOf[s][i] : i \in DOMAIN PortsOf[s]}
Least(a, b) == IF a <= b THEN a ELSE b

TypeOK ==
  /\ main \in {"building", "serving", "draining", "joining", "exited"}
  /\ cancelled \in BOOLEAN /\ expired \in BOOLEAN
  /\ sup \in [Services -> {"off", "starting", "binding", "running", "backoff", "done"}]
  /\ socks \in [Services -> SUBSET Ports]
  /\ late \in {"none", "opening", "open"}
  /\ delay \in [Services -> InitialBackoff..MaxBackoff]
  /\ rapid \in [Services -> 0..MaxRapid]
  /\ foreign \subseteq Ports

Init ==
  /\ main = "building" /\ cancelled = FALSE /\ expired = FALSE
  /\ sup = [s \in Services |-> "off"] /\ socks = [s \in Services |-> {}] /\ late = "none"
  /\ delay = [s \in Services |-> InitialBackoff] /\ rapid = [s \in Services |-> 0]
  /\ foreign \in SUBSET Ports

Alive == main # "exited"

-----------------------------------------------------------------------------
(* buildNetworkServices: none before setup or without an address, and      *)
(* ProxyDHCP unless DHCP is asked for by name; buildDHCPServer refuses an  *)
(* invalid range.                                                          *)
Built(completed, serverIP, mode, rangeOK) ==
  IF ~ completed \/ ~ serverIP THEN {}
  ELSE {"tftp"} \cup (IF mode # "dhcp" THEN {"proxydhcp"}
                      ELSE IF rangeOK THEN {"dhcp"} ELSE {})

(* Manager.Add and the start of Manager.Run. *)
Build(services) ==
  /\ main = "building"
  /\ main' = "serving"
  /\ sup' = [s \in Services |-> IF s \in services THEN "starting" ELSE "off"]
  /\ UNCHANGED <<cancelled, expired, socks, late, delay, rapid, foreign>>

-----------------------------------------------------------------------------
(* supervise, and the Run methods it calls *)

Become(s, from, to) == Alive /\ sup[s] = from /\ sup' = [sup EXCEPT ![s] = to]

Launch(s) ==
  /\ Become(s, "starting", "binding")
  /\ UNCHANGED <<main, cancelled, expired, socks, late, delay, rapid, foreign>>

NextPort(s) == CHOOSE port \in PortSet(s) \ socks[s] :
  \A i, j \in DOMAIN PortsOf[s] :
    port = PortsOf[s][i] /\ j < i => PortsOf[s][j] \in socks[s]
Taken(port) == port \in foreign \/ (Alive /\ \E s \in Services : port \in socks[s])

(* Listeners are opened one after the other. *)
Bind(s) ==
  /\ sup[s] = "binding" /\ PortSet(s) # socks[s]
  /\ ~ Taken(NextPort(s))
  /\ socks' = [socks EXCEPT ![s] = @ \cup {NextPort(s)}]
  /\ Become(s, "binding", IF socks'[s] = PortSet(s) THEN "running" ELSE "binding")
  /\ UNCHANGED <<main, cancelled, expired, late, delay, rapid, foreign>>

(* Mutant: a service that ran well keeps its backoff. *)
NoFreshStart(s, long) ==
  /\ Alive
  /\ sup' = [sup EXCEPT ![s] = IF cancelled THEN "done" ELSE "backoff"]
  /\ rapid' = IF long THEN [rapid EXCEPT ![s] = 0] ELSE rapid
  /\ UNCHANGED <<main, cancelled, expired, late, delay, foreign>>

(* Mutant: a service that fails is not started again. *)
FailedForGood(s, long) ==
  /\ Alive
  /\ sup' = [sup EXCEPT ![s] = "done"]
  /\ UNCHANGED <<main, cancelled, expired, late, delay, rapid, foreign>>

(* Run has returned an error.  long: after more than a minute. *)
Failed(s, long) ==
  /\ Alive
  /\ sup' = [sup EXCEPT ![s] = IF cancelled THEN "done" ELSE "backoff"]
  /\ delay' = IF long THEN [delay EXCEPT ![s] = InitialBackoff] ELSE delay
  /\ rapid' = IF long THEN [rapid EXCEPT ![s] = 0] ELSE rapid
  /\ UNCHANGED <<main, cancelled, expired, late, foreign>>

(* Mutant: the first listener is left open when the second fails. *)
BindFailsOpen(s) ==
  /\ sup[s] = "binding" /\ PortSet(s) # socks[s]
  /\ Taken(NextPort(s))
  /\ UNCHANGED socks
  /\ Failed(s, FALSE)

BindFails(s) ==
  /\ sup[s] = "binding" /\ PortSet(s) # socks[s]
  /\ Taken(NextPort(s))
  /\ socks' = [socks EXCEPT ![s] = {}]
  /\ Failed(s, FALSE)

(* errCh: a listener failed; all are closed. *)
Crash(s, long) ==
  /\ sup[s] = "running"
  /\ socks' = [socks EXCEPT ![s] = {}]
  /\ Failed(s, long)

(* ctx is done: Run closes its listeners and returns ctx.Err(). *)
Return(s) ==
  /\ cancelled
  /\ Become(s, "running", "done")
  /\ socks' = [socks EXCEPT ![s] = {}]
  /\ UNCHANGED <<main, cancelled, expired, late, delay, rapid, foreign>>

(* TFTP's ListenAndServe is a goroutine of its own, so its Run may return  *)
(* before the port is open, ...                                            *)
ReturnEarly ==
  /\ cancelled
  /\ Become("tftp", "binding", "done")
  /\ late' = "opening"
  /\ UNCHANGED <<main, cancelled, expired, socks, delay, rapid, foreign>>

(* ... and the goroutine opens it after that, or fails with nobody to      *)
(* hear, ...                                                               *)
OpenLate ==
  /\ Alive /\ late = "opening"
  /\ IF Taken(69) THEN late' = "none" /\ UNCHANGED socks
     ELSE late' = "open" /\ socks' = [socks EXCEPT !["tftp"] = {69}]
  /\ UNCHANGED <<main, cancelled, expired, sup, delay, rapid, foreign>>

(* ... and closes it when it finds that it has been shut down.             *)
CloseLate ==
  /\ Alive /\ late = "open"
  /\ late' = "none" /\ socks' = [socks EXCEPT !["tftp"] = {}]
  /\ UNCHANGED <<main, cancelled, expired, sup, delay, rapid, foreign>>

(* Mutant: the wait doubles without end. *)
ElapseUncapped(s) ==
  /\ Become(s, "backoff", "starting")
  /\ delay' = [delay EXCEPT ![s] = @ * 2]
  /\ rapid' = [rapid EXCEPT ![s] = Least(@ + 1, MaxRapid)]
  /\ UNCHANGED <<main, cancelled, expired, socks, late, foreign>>

(* The select after a failure: when both are ready, either is taken, so a  *)
(* service may be started once more after ctx is done.                     *)
Elapse(s) ==
  /\ Become(s, "backoff", "starting")
  /\ delay' = [delay EXCEPT ![s] = Least(@ * 2, MaxBackoff)]
  /\ rapid' = [rapid EXCEPT ![s] = Least(@ + 1, MaxRapid)]
  /\ UNCHANGED <<main, cancelled, expired, socks, late, foreign>>

GiveUp(s) ==
  /\ cancelled
  /\ Become(s, "backoff", "done")
  /\ UNCHANGED <<main, cancelled, expired, socks, late, delay, rapid, foreign>>

-----------------------------------------------------------------------------
(* run() *)

(* A signal, or the HTTP server fails: then run returns at once. *)
Signal ==
  /\ main = "serving"
  /\ main' = "draining" /\ cancelled' = TRUE
  /\ UNCHANGED <<expired, svc, foreign>>

ListenFails ==
  /\ main = "serving"
  /\ main' = "exited" /\ cancelled' = TRUE
  /\ UNCHANGED <<expired, svc, foreign>>

Expire ==
  /\ main \in {"draining", "joining"}
  /\ expired' = TRUE
  /\ UNCHANGED <<main, cancelled, svc, foreign>>

(* httpServer.Shutdown: no request is left, or the time is over. *)
Drained ==
  /\ main = "draining"
  /\ main' = "joining"
  /\ UNCHANGED <<cancelled, expired, svc, foreign>>

AllDone == \A s \in Services : sup[s] \in {"off", "done"}

(* Mutant: the services are not waited for. *)
ExitAtOnce ==
  /\ main = "joining"
  /\ main' = "exited"
  /\ UNCHANGED <<cancelled, expired, svc, foreign>>

(* Mutant: the services are waited for without a limit. *)
ExitWhenDone ==
  /\ main = "joining"
  /\ AllDone
  /\ main' = "exited"
  /\ UNCHANGED <<cancelled, expired, svc, foreign>>

(* managerDone or shutdownCtx. *)
Exit ==
  /\ main = "joining"
  /\ AllDone \/ expired
  /\ main' = "exited"
  /\ UNCHANGED <<cancelled, expired, svc, foreign>>

Restart ==
  /\ main = "exited"
  /\ main' = "building" /\ cancelled' = FALSE /\ expired' = FALSE
  /\ sup' = [s \in Services |-> "off"]
  /\ socks' = [s \in Services |-> {}] /\ late' = "none"
  /\ delay' = [s \in Services |-> InitialBackoff] /\ rapid' = [s \in Services |-> 0]
  /\ UNCHANGED foreign

(* Another DHCP or TFTP server on the host starts or stops. *)
Neighbour ==
  /\ \E port \in Ports :
       \/ ~ Taken(port) /\ foreign' = foreign \cup {port}
       \/ foreign' = foreign \ {port}
  /\ UNCHANGED <<main, cancelled, expired, svc>>

Supervise(s) ==
  \/ Launch(s) \/ Bind(s) \/ BindFails(s) \/ Elapse(s) \/ GiveUp(s) \/ Return(s)
  \/ \E long \in BOOLEAN : Crash(s, long)

Next ==
  \/ \E completed, serverIP, rangeOK \in BOOLEAN, mode \in {"dhcp", "proxy_dhcp"} :
       Build(Built(completed, serverIP, mode, rangeOK))
  \/ \E s \in Services : Supervise(s)
  \/ ReturnEarly \/ OpenLate \/ CloseLate
  \/ Signal \/ ListenFails \/ Expire \/ Drained \/ Exit \/ Restart \/ Neighbour

(* Goroutines are scheduled and timers fire.  No service has to fail or to *)
(* return when told to, no request has to end, nobody has to send a        *)
(* signal, start HELBOOT again or free a port.                             *)
Fairness ==
  /\ \A s \in Services : /\ WF_vars(Launch(s))
                         /\ WF_vars(Bind(s) \/ BindFails(s))
                         /\ WF_vars(Elapse(s))
  /\ WF_vars(Expire)
  /\ WF_vars(expired /\ Drained)
  /\ WF_vars(Exit)

Spec == Init /\ [][Next]_vars /\ Fairness

-----------------------------------------------------------------------------
(* Properties *)

(* A service that is not up holds no port: each failed start closes what   *)
(* it opened, or every later start would fail on its own leftover (Run).   *)
(* Only a TFTP listener that was told to stop before it was open may have  *)
(* its port open then, and no later start follows.                         *)
LateListener(s) == s = "tftp" /\ late = "open" /\ cancelled

PortsReleased ==
  \A s \in Services :
    sup[s] \notin {"binding", "running"} /\ ~ LateListener(s) => socks[s] = {}

(* supervise: after k failures in a row the next wait is the first one     *)
(* doubled k times, at most MaxBackoff; a minute of service starts over.   *)
WaitsDouble ==
  \A s \in Services :
    delay[s] = Least(Doubled[rapid[s]], MaxBackoff)

(* "restarted with exponential backoff; one bad service never takes the    *)
(* others down" (Manager.Run): whatever the others do, a service that was  *)
(* started and has failed runs again once other programs keep off its      *)
(* ports, until the server is told to stop.                                *)
RunsAgain ==
  \A s \in Services :
    <>[](PortSet(s) \cap foreign = {})
      => (sup[s] # "off" ~> sup[s] = "running" \/ cancelled)

(* run: by the time a stop ends the process and its database, every        *)
(* listener has been closed, unless the time for that was over, but for a  *)
(* TFTP listener opened after Run had returned ...                         *)
StopsClean ==
  [][ main = "joining" /\ main' = "exited"
        => expired \/ \A s \in Services : socks[s] = {} \/ LateListener(s) ]_vars

(* ... and no service and no request can hold a stop up for longer.        *)
StopCompletes == main = "draining" ~> main = "exited"
=============================================================================
