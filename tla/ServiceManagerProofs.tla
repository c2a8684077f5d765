------------------------ MODULE ServiceManagerProofs --------------------------
(***************************************************************************)
(* The service supervisor, for any backoffs and however often services     *)
(* fail and the server is started: who holds ports when.                   *)
(***************************************************************************)
EXTENDS ServiceManager, WellFoundedInduction, TLAPS

(* Ports are held only by services that are starting or up, and only their *)
(* own.                                                                    *)
SvcInv ==
  /\ TypeOK
  /\ PortsReleased
  /\ \A s \in Services : socks[s] \subseteq PortSet(s)
  /\ \A s \in Services : sup[s] = "binding" => socks[s] # PortSet(s)
  /\ main = "building" => late = "none" /\ \A s \in Services : sup[s] = "off"
  /\ late # "none" => cancelled /\ sup["tftp"] = "done"
  /\ late = "opening" => socks["tftp"] = {}

-----------------------------------------------------------------------------
LEMMA Backoffs ==
  /\ InitialBackoff \in Nat \ {0} /\ MaxBackoff \in Nat /\ MaxBackoff >= InitialBackoff
  /\ MaxRapid \in Nat
  BY ServiceAssumption

LEMMA PortsAreKnown ==
  ASSUME NEW s \in Services
  PROVE  PortSet(s) \subseteq Ports
  <1>1. CASE s = "tftp"
    BY <1>1 DEF PortSet, PortsOf, Ports
  <1>2. CASE s = "dhcp"
    BY <1>2 DEF PortSet, PortsOf, Ports
  <1>3. CASE s = "proxydhcp"
    BY <1>3 DEF PortSet, PortsOf, Ports
  <1> QED BY <1>1, <1>2, <1>3 DEF Services

(* The next listener is one of the service's own (Run). *)
LEMMA NextPortIsOwn ==
  ASSUME NEW s \in Services, socks[s] \subseteq PortSet(s), PortSet(s) # socks[s]
  PROVE  NextPort(s) \in PortSet(s)
  <1> DEFINE First(port) == \A i, j \in DOMAIN PortsOf[s] :
        port = PortsOf[s][i] /\ j < i => PortsOf[s][j] \in socks[s]
  <1>1. \E port \in PortSet(s) \ socks[s] : First(port)
    <2>1. CASE PortsOf[s][1] \notin socks[s]
      <3>1. PortsOf[s][1] \in PortSet(s) /\ \A i \in DOMAIN PortsOf[s] :
              PortsOf[s][i] = PortsOf[s][1] => i = 1
        BY DEF PortSet, PortsOf, Services
      <3>2. \A i \in DOMAIN PortsOf[s] : i \in {1, 2}
        BY DEF PortsOf, Services
      <3> QED BY <2>1, <3>1, <3>2
    <2>2. CASE PortsOf[s][1] \in socks[s]
      <3>1. PICK port \in PortSet(s) : port \notin socks[s]
        OBVIOUS
      <3>2. PICK k \in DOMAIN PortsOf[s] : port = PortsOf[s][k]
        BY <3>1 DEF PortSet
      <3>3. \A i, j \in DOMAIN PortsOf[s] : j < i => j = 1
        BY DEF PortsOf, Services
      <3>4. First(port)
        BY <2>2, <3>3
      <3> QED BY <3>1, <3>4
    <2> QED BY <2>1, <2>2
  <1>2. NextPort(s) = CHOOSE port \in PortSet(s) \ socks[s] : First(port)
    BY DEF NextPort
  <1> HIDE DEF First
  <1> QED BY <1>1, <1>2

(* The supervisors of a process that has just been started. *)
LEMMA FreshTypes ==
  /\ FALSE \in BOOLEAN
  /\ [s \in Services |-> "off"]
       \in [Services -> {"off", "starting", "binding", "running", "backoff", "done"}]
  /\ [s \in Services |-> {}] \in [Services -> SUBSET Ports]
  /\ [s \in Services |-> InitialBackoff] \in [Services -> InitialBackoff..MaxBackoff]
  /\ [s \in Services |-> 0] \in [Services -> 0..MaxRapid]
  <1>1. InitialBackoff \in InitialBackoff..MaxBackoff /\ 0 \in 0..MaxRapid
    BY Backoffs
  <1> QED BY <1>1

LEMMA SvcInitInv ==
  ASSUME Init
  PROVE  SvcInv
  <1>1. TypeOK
    BY FreshTypes DEF Init, TypeOK
  <1>2. PortsReleased /\ \A s \in Services : socks[s] \subseteq PortSet(s)
    BY DEF Init, PortsReleased
  <1>3. late = "none" /\ \A s \in Services : sup[s] = "off"
    BY DEF Init
  <1> QED BY <1>1, <1>2, <1>3 DEF SvcInv

(* A step of a supervisor touches one service. *)
LEMMA OneService ==
  ASSUME SvcInv, main # "building", NEW s \in Services,
         NEW to \in {"starting", "binding", "running", "backoff", "done"}, sup[s] # "done",
         sup' = [sup EXCEPT ![s] = to],
         \A t \in Services \ {s} : socks'[t] = socks[t],
         socks'[s] \subseteq PortSet(s), to \notin {"binding", "running"} => socks'[s] = {},
         to = "binding" => socks'[s] # PortSet(s),
         socks' = [t \in Services |-> socks'[t]],
         delay' \in [Services -> InitialBackoff..MaxBackoff], rapid' \in [Services -> 0..MaxRapid],
         UNCHANGED <<main, cancelled, expired, late, foreign>>
  PROVE  SvcInv'
  <1>1. socks'[s] \subseteq Ports
    BY PortsAreKnown
  <1>2. TypeOK'
    <2>1. sup' \in [Services -> {"off", "starting", "binding", "running", "backoff", "done"}]
      BY DEF SvcInv, TypeOK
    <2>2. socks' \in [Services -> SUBSET Ports]
      BY <1>1 DEF SvcInv, TypeOK
    <2> QED BY <2>1, <2>2 DEF SvcInv, TypeOK
  <1>3. PortsReleased'
    BY DEF SvcInv, TypeOK, PortsReleased, LateListener
  <1>4. \A t \in Services : socks'[t] \subseteq PortSet(t)
    BY DEF SvcInv, TypeOK
  <1>5. \A t \in Services : PortSet(t)' = PortSet(t)
    BY DEF PortSet, PortsOf
  <1>6. main' # "building"
    OBVIOUS
  <1>7. late # "none" => s # "tftp" /\ cancelled /\ sup["tftp"] = "done"
    BY DEF SvcInv
  <1>8. late' # "none" => cancelled' /\ sup'["tftp"] = "done"
    BY <1>7 DEF SvcInv, TypeOK, Services
  <1>9. late' = "opening" => socks'["tftp"] = {}
    BY <1>7 DEF SvcInv, Services
  <1>10. \A t \in Services : sup'[t] = "binding" => socks'[t] # PortSet(t)
    BY DEF SvcInv, TypeOK
  <1> QED BY <1>2, <1>3, <1>4, <1>5, <1>6, <1>8, <1>9, <1>10 DEF SvcInv

LEMMA SuperviseInv ==
  ASSUME SvcInv, NEW s \in Services, Supervise(s)
  PROVE  SvcInv'
  <1>0. /\ sup \in [Services -> {"off", "starting", "binding", "running", "backoff", "done"}]
        /\ socks \in [Services -> SUBSET Ports] /\ socks[s] \subseteq PortSet(s)
        /\ delay \in [Services -> InitialBackoff..MaxBackoff]
        /\ rapid \in [Services -> 0..MaxRapid]
        /\ sup[s] \notin {"binding", "running", "done"} => socks[s] = {}
        /\ socks = [t \in Services |-> socks[t]]
    BY DEF SvcInv, TypeOK, PortsReleased, LateListener
  <1>a. main # "building" /\ sup[s] # "done"
    <2>1. sup[s] # "off" /\ sup[s] # "done"
      BY DEF Supervise, Launch, Bind, BindFails, Elapse, GiveUp, Return, Crash, Become
    <2> QED BY <2>1 DEF SvcInv
  <1>1. CASE Launch(s)
    <2>1. PortSet(s) # {}
      BY DEF PortSet, PortsOf, Services
    <2> QED BY <1>0, <1>a, <1>1, <2>1, OneService DEF Launch, Become
  <1>2. CASE Bind(s)
    <2>1. NextPort(s) \in PortSet(s)
      BY <1>0, <1>2, NextPortIsOwn DEF Bind
    <2>2. \/ sup' = [sup EXCEPT ![s] = "binding"] /\ socks'[s] # PortSet(s)
          \/ sup' = [sup EXCEPT ![s] = "running"]
      BY <1>2 DEF Bind, Become
    <2>3. socks' = [socks EXCEPT ![s] = socks[s] \cup {NextPort(s)}]
      BY <1>2 DEF Bind
    <2>4. UNCHANGED <<main, cancelled, expired, late, delay, rapid, foreign>>
      BY <1>2 DEF Bind
    <2>7. /\ socks'[s] \subseteq PortSet(s) /\ \A t \in Services \ {s} : socks'[t] = socks[t]
          /\ socks' = [t \in Services |-> socks'[t]]
      BY <1>0, <2>1, <2>3
    <2>5. CASE sup' = [sup EXCEPT ![s] = "binding"] /\ socks'[s] # PortSet(s)
      BY <1>0, <1>a, <2>4, <2>5, <2>7, OneService
    <2>6. CASE sup' = [sup EXCEPT ![s] = "running"]
      BY <1>0, <1>a, <2>4, <2>6, <2>7, OneService
    <2> QED BY <2>2, <2>5, <2>6
  <1>3. ASSUME NEW long \in BOOLEAN, Failed(s, long), socks' = [socks EXCEPT ![s] = {}]
        PROVE  SvcInv'
    <2>1. \/ sup' = [sup EXCEPT ![s] = "backoff"]
          \/ sup' = [sup EXCEPT ![s] = "done"]
      BY <1>3 DEF Failed
    <2>2. delay' \in [Services -> InitialBackoff..MaxBackoff]
      BY <1>0, <1>3, Backoffs DEF Failed
    <2>3. rapid' \in [Services -> 0..MaxRapid]
      BY <1>0, <1>3, Backoffs DEF Failed
    <2>4. UNCHANGED <<main, cancelled, expired, late, foreign>>
      BY <1>3 DEF Failed
    <2>7. /\ socks'[s] = {} /\ \A t \in Services \ {s} : socks'[t] = socks[t]
          /\ socks' = [t \in Services |-> socks'[t]]
      BY <1>0, <1>3
    <2>5. CASE sup' = [sup EXCEPT ![s] = "backoff"]
      BY <1>a, <2>2, <2>3, <2>4, <2>5, <2>7, OneService
    <2>6. CASE sup' = [sup EXCEPT ![s] = "done"]
      BY <1>a, <2>2, <2>3, <2>4, <2>6, <2>7, OneService
    <2> QED BY <2>1, <2>5, <2>6
  <1>4. CASE BindFails(s)
    BY <1>3, <1>4 DEF BindFails
  <1>5. CASE \E long \in BOOLEAN : Crash(s, long)
    BY <1>3, <1>5 DEF Crash
  <1>6. CASE Elapse(s)
    <2>1. sup' = [sup EXCEPT ![s] = "starting"] /\ socks[s] = {}
      BY <1>0, <1>6 DEF Elapse, Become
    <2>2. delay' \in [Services -> InitialBackoff..MaxBackoff]
      BY <1>0, <1>6, Backoffs DEF Elapse, Least
    <2>3. rapid' \in [Services -> 0..MaxRapid]
      BY <1>0, <1>6, Backoffs DEF Elapse, Least
    <2>4. socks' = socks /\ UNCHANGED <<main, cancelled, expired, late, foreign>>
      BY <1>6 DEF Elapse
    <2> QED BY <1>0, <1>a, <2>1, <2>2, <2>3, <2>4, OneService
  <1>7. CASE GiveUp(s)
    BY <1>0, <1>a, <1>7, OneService DEF GiveUp, Become
  <1>8. CASE Return(s)
    <2>1. /\ sup' = [sup EXCEPT ![s] = "done"] /\ socks'[s] = {}
          /\ \A t \in Services \ {s} : socks'[t] = socks[t]
          /\ socks' = [t \in Services |-> socks'[t]]
      BY <1>0, <1>8 DEF Return, Become
    <2>2. UNCHANGED <<main, cancelled, expired, late, delay, rapid, foreign>>
      BY <1>8 DEF Return
    <2> QED BY <1>0, <1>a, <2>1, <2>2, OneService
  <1> QED BY <1>1, <1>2, <1>4, <1>5, <1>6, <1>7, <1>8 DEF Supervise

(* A TFTP listener that is opened after its Run has returned. *)
LEMMA LateStepInv ==
  ASSUME SvcInv, ReturnEarly \/ OpenLate \/ CloseLate
  PROVE  SvcInv'
  <1>0. /\ sup \in [Services -> {"off", "starting", "binding", "running", "backoff", "done"}]
        /\ socks \in [Services -> SUBSET Ports] /\ "tftp" \in Services
        /\ PortSet("tftp") = {69} /\ 69 \in Ports
    BY DEF SvcInv, TypeOK, Services, PortSet, PortsOf, Ports
  <1>1. /\ UNCHANGED <<main, cancelled, expired, delay, rapid, foreign>>
        /\ \A s \in Services \ {"tftp"} : sup'[s] = sup[s] /\ socks'[s] = socks[s]
        /\ sup' \in [Services -> {"off", "starting", "binding", "running", "backoff", "done"}]
        /\ socks' \in [Services -> SUBSET Ports]
        /\ late' \in {"none", "opening", "open"}
    BY <1>0 DEF ReturnEarly, OpenLate, CloseLate, Become
  <1>2. /\ main # "building" /\ cancelled /\ sup'["tftp"] = "done"
        /\ late' = "opening" \/ late' = "none" => socks'["tftp"] = {}
        /\ socks'["tftp"] \subseteq {69}
    <2>1. CASE ReturnEarly
      <3>1. socks["tftp"] = {}
        <4>1. socks["tftp"] \subseteq {69}
          BY <1>0 DEF SvcInv
        <4> QED BY <1>0, <2>1, <4>1 DEF SvcInv, ReturnEarly, Become
      <3> QED BY <1>0, <2>1, <3>1 DEF ReturnEarly, Become, SvcInv
    <2>2. CASE OpenLate
      BY <1>0, <2>2 DEF OpenLate, SvcInv
    <2>3. CASE CloseLate
      BY <1>0, <2>3 DEF CloseLate, SvcInv
    <2> QED BY <2>1, <2>2, <2>3
  <1>3. PortsReleased'
    BY <1>1, <1>2 DEF SvcInv, PortsReleased, LateListener
  <1>4. \A s \in Services : socks'[s] \subseteq PortSet(s) /\ PortSet(s)' = PortSet(s)
    BY <1>0, <1>1, <1>2 DEF SvcInv, PortSet, PortsOf
  <1>5. TypeOK'
    BY <1>1 DEF SvcInv, TypeOK
  <1>6. \A s \in Services : sup'[s] = "binding" => socks'[s] # PortSet(s)
    BY <1>1, <1>2 DEF SvcInv
  <1>7. /\ main' # "building"
        /\ late' # "none" => cancelled' /\ sup'["tftp"] = "done"
        /\ late' = "opening" => socks'["tftp"] = {}
    BY <1>1, <1>2
  <1> QED BY <1>3, <1>4, <1>5, <1>6, <1>7 DEF SvcInv

LEMMA SvcStepInv ==
  ASSUME SvcInv, [Next]_vars
  PROVE  SvcInv'
  <1>0. \A s \in Services : PortSet(s)' = PortSet(s)
    BY DEF PortSet, PortsOf
  <1>1. ASSUME NEW services, Build(services)
        PROVE  SvcInv'
    <2>1. TypeOK'
      BY <1>1 DEF Build, SvcInv, TypeOK
    <2>2. \A s \in Services : socks'[s] = {}
      BY <1>1 DEF Build, SvcInv, PortsReleased, LateListener
    <2>3. PortsReleased'
      BY <2>2 DEF PortsReleased
    <2> QED BY <1>0, <1>1, <2>1, <2>2, <2>3 DEF Build, SvcInv
  <1>2. CASE \E s \in Services : Supervise(s)
    BY <1>2, SuperviseInv
  <1>3. CASE Signal \/ ListenFails \/ Expire \/ Drained \/ Exit
    <2>1. UNCHANGED <<sup, socks, late, delay, rapid, foreign>> /\ (cancelled => cancelled')
      BY <1>3 DEF Signal, ListenFails, Expire, Drained, Exit, svc
    <2>a. main = "building" <=> main' = "building"
      BY <1>3 DEF Signal, ListenFails, Expire, Drained, Exit
    <2>2. /\ main' \in {"building", "serving", "draining", "joining", "exited"}
          /\ cancelled' \in BOOLEAN /\ expired' \in BOOLEAN
      BY <1>3 DEF Signal, ListenFails, Expire, Drained, Exit, SvcInv, TypeOK
    <2> QED BY <1>0, <2>1, <2>2, <2>a DEF SvcInv, TypeOK, PortsReleased, LateListener
  <1>4. CASE Restart
    <2>1. TypeOK'
      BY <1>4, FreshTypes DEF Restart, SvcInv, TypeOK
    <2>2. PortsReleased' /\ \A s \in Services : socks'[s] = {} /\ sup'[s] = "off"
      BY <1>4 DEF Restart, PortsReleased
    <2>3. late' = "none" /\ \A s \in Services : PortSet(s)' = PortSet(s)
      BY <1>0, <1>4 DEF Restart
    <2> QED BY <2>1, <2>2, <2>3 DEF SvcInv
  <1>5. CASE Neighbour
    BY <1>0, <1>5 DEF Neighbour, svc, SvcInv, TypeOK, PortsReleased, LateListener
  <1>6. CASE UNCHANGED vars
    BY <1>0, <1>6 DEF vars, svc, SvcInv, TypeOK, PortsReleased, LateListener
  <1>7. CASE ReturnEarly \/ OpenLate \/ CloseLate
    BY <1>7, LateStepInv
  <1> QED BY <1>1, <1>2, <1>3, <1>4, <1>5, <1>6, <1>7 DEF Next

(* Who holds which ports, for any backoffs and any number of failures and  *)
(* restarts (supervise, Run).                                              *)
THEOREM ServicesInductive == Spec => []SvcInv
  BY SvcInitInv, SvcStepInv, PTL DEF Spec

(* The state of the supervisors keeps its types; a delay never leaves its  *)
(* bounds (supervise).                                                     *)
THEOREM SupervisorsTypeCorrect == Spec => []TypeOK
  BY ServicesInductive, PTL DEF SvcInv

(* A service that is not up holds no port, but for a TFTP listener that    *)
(* was opened after its Run had returned (Run).                            *)
THEOREM PortsAlwaysReleased == Spec => []PortsReleased
  BY ServicesInductive, PTL DEF SvcInv

(* A stop that ends in time ends with every listener closed but one that   *)
(* was opened late (run).                                                  *)
THEOREM StopsAlwaysClean == Spec => StopsClean
  <1> DEFINE Clean == main = "joining" /\ main' = "exited"
                        => expired \/ \A s \in Services : socks[s] = {} \/ LateListener(s)
  <1>1. SvcInv /\ [Next]_vars => [Clean]_vars
    <2> SUFFICES ASSUME SvcInv, Next, main = "joining", main' = "exited", ~ expired
                 PROVE  \A s \in Services : socks[s] = {} \/ LateListener(s)
      BY Zenon DEF Clean
    <2>1. AllDone
      <3>1. ASSUME NEW s \in Services, Supervise(s)
            PROVE  main' = main
        BY <3>1 DEF Supervise, Launch, Bind, BindFails, Elapse, GiveUp, Return, Crash, Failed
      <3>2. Exit
        BY <3>1 DEF Next, Build, Signal, ListenFails, Expire, Drained, Restart, Neighbour,
                    ReturnEarly, OpenLate, CloseLate
      <3> QED BY <3>2 DEF Exit
    <2> QED BY <2>1 DEF AllDone, SvcInv, PortsReleased
  <1> QED BY <1>1, ServicesInductive, PTL DEF Spec, StopsClean

-----------------------------------------------------------------------------
(* How long a service is waited for *)

(* Every set of naturals has a least element: what is proved of doubling   *)
(* below is proved of a least counterexample.                              *)
LEMMA LeastNatural ==
  ASSUME NEW T \in SUBSET Nat, T # {}
  PROVE  \E n \in T : \A m \in T : n <= m
  <1> DEFINE R == OpToRel(<, Nat)
  <1>1. IsWellFoundedOn(R, Nat)
    BY NatLessThanWellFounded
  <1>2. \A m, n \in Nat : <<m, n>> \in R <=> m < n
    BY DEF OpToRel
  <1> HIDE DEF R
  <1>3. PICK n \in T : \A m \in T : ~ (<<m, n>> \in R)
    BY <1>1, WFMin
  <1>4. n \in Nat /\ \A m \in T : m \in Nat /\ ~ m < n
    BY <1>2, <1>3
  <1>5. \A m \in T : n <= m
    BY <1>4
  <1> QED BY <1>3, <1>5

(* The first n doublings. *)
Grown(f, n) == \A k \in 0..n : f[k] = IF k = 0 THEN InitialBackoff ELSE 2 * f[k - 1]

LEMMA GrownExists ==
  ASSUME NEW n \in Nat
  PROVE  \E f : Grown(f, n)
  <1> DEFINE Bad == {m \in Nat : ~ \E f : Grown(f, m)}
  <1> SUFFICES ASSUME Bad # {} PROVE FALSE
    OBVIOUS
  <1>1. PICK m \in Bad : \A k \in Bad : m <= k
    BY LeastNatural
  <1>2. CASE m = 0
    <2> DEFINE f == [k \in 0..0 |-> InitialBackoff]
    <2>1. Grown(f, 0)
      BY DEF Grown
    <2> QED BY <1>1, <1>2, <2>1
  <1>3. CASE m # 0
    <2>1. PICK f : Grown(f, m - 1)
      BY <1>1, <1>3
    <2> DEFINE g == [k \in 0..m |-> IF k = m THEN 2 * f[m - 1] ELSE f[k]]
    <2>2. Grown(g, m)
      BY <1>1, <1>3, <2>1 DEF Grown
    <2> QED BY <1>1, <2>2
  <1> QED BY <1>2, <1>3

LEMMA GrownAlike ==
  ASSUME NEW n \in Nat, NEW f, NEW g, Grown(f, n), NEW m \in Nat, m <= n, Grown(g, m)
  PROVE  f[m] = g[m]
  <1> DEFINE Bad == {k \in 0..m : f[k] # g[k]}
  <1> SUFFICES ASSUME Bad # {} PROVE FALSE
    OBVIOUS
  <1>0. Bad \in SUBSET Nat
    OBVIOUS
  <1>1. PICK k \in Bad : \A j \in Bad : k <= j
    BY <1>0, LeastNatural
  <1>2. k = 0 \/ f[k - 1] = g[k - 1]
    BY <1>1
  <1> QED BY <1>1, <1>2 DEF Grown

LEMMA DoublingExists ==
  \E f : f = [k \in Nat |-> IF k = 0 THEN InitialBackoff ELSE 2 * f[k - 1]]
  <1> DEFINE upto == [n \in Nat |-> CHOOSE f : Grown(f, n)]
             whole == [n \in Nat |-> upto[n][n]]
  <1>1. \A n \in Nat : Grown(upto[n], n)
    BY GrownExists
  <1>2. \A n \in Nat : whole[n] = upto[n][n]
    OBVIOUS
  <1> HIDE DEF upto
  <1>3. ASSUME NEW n \in Nat PROVE whole[n] = IF n = 0 THEN InitialBackoff ELSE 2 * whole[n - 1]
    <2>1. CASE n = 0
      BY <1>1, <1>2, <2>1 DEF Grown
    <2>2. CASE n # 0
      <3>1. upto[n][n] = 2 * upto[n][n - 1]
        BY <1>1, <2>2 DEF Grown
      <3>2. upto[n][n - 1] = upto[n - 1][n - 1]
        BY <1>1, <2>2, GrownAlike
      <3> QED BY <1>2, <2>2, <3>1, <3>2
    <2> QED BY <2>1, <2>2
  <1>4. whole = [k \in Nat |-> whole[k]]
    OBVIOUS
  <1> HIDE DEF whole
  <1>5. whole = [k \in Nat |-> IF k = 0 THEN InitialBackoff ELSE 2 * whole[k - 1]]
    BY <1>3, <1>4
  <1> QED BY <1>5

(* Doubled is what its definition says. *)
LEMMA DoubledIs ==
  /\ Doubled[0] = InitialBackoff
  /\ \A k \in Nat : Doubled[k + 1] = 2 * Doubled[k]
  /\ \A k \in Nat : Doubled[k] \in Nat
  <1>1. Doubled = [k \in Nat |-> IF k = 0 THEN InitialBackoff ELSE 2 * Doubled[k - 1]]
    BY DoublingExists DEF Doubled
  <1>2. \A k \in Nat : Doubled[k] = IF k = 0 THEN InitialBackoff ELSE 2 * Doubled[k - 1]
    BY <1>1
  <1>3. \A k \in Nat : Doubled[k] \in Nat
    <2> DEFINE Bad == {k \in Nat : Doubled[k] \notin Nat}
    <2> SUFFICES ASSUME Bad # {} PROVE FALSE
      OBVIOUS
    <2>1. PICK k \in Bad : \A j \in Bad : k <= j
      BY LeastNatural
    <2>2. k = 0 \/ Doubled[k - 1] \in Nat
      BY <2>1
    <2> QED BY Backoffs, <1>2, <2>1, <2>2
  <1> QED BY <1>2, <1>3

(* supervise doubles a limited wait: as good as limiting a doubled one. *)
LEMMA DoublingLimited ==
  ASSUME NEW r \in 0..MaxRapid
  PROVE  Least(Least(Doubled[r], MaxBackoff) * 2, MaxBackoff)
           = Least(Doubled[Least(r + 1, MaxRapid)], MaxBackoff)
  <1>1. /\ MaxBackoff \in Nat /\ MaxRapid \in Nat /\ Doubled[MaxRapid] >= MaxBackoff
    BY ServiceAssumption
  <1>2. CASE r = MaxRapid
    BY <1>1, <1>2, DoubledIs DEF Least
  <1>3. CASE r < MaxRapid
    <2>1. Doubled[r + 1] = 2 * Doubled[r] /\ Doubled[r] \in Nat
      BY <1>1, DoubledIs
    <2>2. Least(r + 1, MaxRapid) = r + 1
      BY <1>1, <1>3 DEF Least
    <2> QED BY <1>1, <2>1, <2>2 DEF Least
  <1> QED BY <1>1, <1>2, <1>3

LEMMA WaitsStart == Init => WaitsDouble
  <1>1. Least(Doubled[0], MaxBackoff) = InitialBackoff
    BY Backoffs, DoubledIs DEF Least
  <1> QED BY <1>1 DEF Init, WaitsDouble

LEMMA WaitsStep ==
  ASSUME SvcInv, WaitsDouble, [Next]_vars
  PROVE  WaitsDouble'
  <1>1. /\ delay \in [Services -> InitialBackoff..MaxBackoff]
        /\ rapid \in [Services -> 0..MaxRapid]
    BY DEF SvcInv, TypeOK
  <1>2. ASSUME delay' = delay, rapid' = rapid PROVE WaitsDouble'
    BY <1>2 DEF WaitsDouble
  <1>3. Least(Doubled[0], MaxBackoff) = InitialBackoff
    BY Backoffs, DoubledIs DEF Least
  <1>4. ASSUME NEW s \in Services, NEW long \in BOOLEAN, Failed(s, long) PROVE WaitsDouble'
    <2>1. CASE long
      <3>1. delay' = [delay EXCEPT ![s] = InitialBackoff] /\ rapid' = [rapid EXCEPT ![s] = 0]
        BY <1>4, <2>1 DEF Failed
      <3> QED BY <1>1, <1>3, <3>1 DEF WaitsDouble
    <2>2. CASE ~ long
      BY <1>2, <1>4, <2>2 DEF Failed
    <2> QED BY <2>1, <2>2
  <1>5. ASSUME NEW s \in Services, Elapse(s) PROVE WaitsDouble'
    <2>1. /\ delay' = [delay EXCEPT ![s] = Least(delay[s] * 2, MaxBackoff)]
          /\ rapid' = [rapid EXCEPT ![s] = Least(rapid[s] + 1, MaxRapid)]
      BY <1>5 DEF Elapse
    <2>2. Least(delay[s] * 2, MaxBackoff) = Least(Doubled[Least(rapid[s] + 1, MaxRapid)], MaxBackoff)
      BY <1>1, DoublingLimited DEF WaitsDouble
    <2> QED BY <1>1, <2>1, <2>2 DEF WaitsDouble
  <1>6. ASSUME NEW s \in Services, Launch(s) \/ Bind(s) \/ GiveUp(s) \/ Return(s)
        PROVE  WaitsDouble'
    BY <1>2, <1>6 DEF Launch, Bind, GiveUp, Return
  <1>7. ASSUME NEW s \in Services, Supervise(s) PROVE WaitsDouble'
    BY <1>4, <1>5, <1>6, <1>7 DEF Supervise, BindFails, Crash
  <1>8. CASE Restart
    BY <1>3, <1>8 DEF Restart, WaitsDouble
  <1>9. ASSUME NEW services, Build(services) PROVE WaitsDouble'
    BY <1>2, <1>9 DEF Build
  <1>10. CASE Signal \/ ListenFails \/ Expire \/ Drained \/ Exit \/ Neighbour \/ UNCHANGED vars
    BY <1>2, <1>10 DEF Signal, ListenFails, Expire, Drained, Exit, Neighbour, vars, svc
  <1>11. CASE ReturnEarly \/ OpenLate \/ CloseLate
    BY <1>2, <1>11 DEF ReturnEarly, OpenLate, CloseLate
  <1> QED BY <1>7, <1>8, <1>9, <1>10, <1>11 DEF Next

(* After k failures in a row the next wait is the first one doubled k      *)
(* times, at most MaxBackoff; a minute of service starts over (supervise). *)
THEOREM WaitsAlwaysDouble == Spec => []WaitsDouble
  BY WaitsStart, WaitsStep, ServicesInductive, PTL DEF Spec
=============================================================================
