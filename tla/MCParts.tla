-------------------------------- MODULE MCParts -------------------------------
(***************************************************************************)
(* Six small parts of the server that share no state, each explored on its *)
(* own: `part' names the one a behaviour is about, the others stay as they *)
(* start.                                                                  *)
(***************************************************************************)
EXTENDS LogRing, RateLimiter, DhcpObserver, LeaseScan, PxeBoot, ConfigSchema

VARIABLE part

Parts == {"ring", "limiter", "observer", "scan", "pxe", "config"}
all == <<part, ring, limiter, observer, scanning, booting, config>>

MCInit ==
  /\ part \in Parts
  /\ RingInit /\ LimiterInit /\ ObserverInit /\ ScanInit /\ PxeInit /\ ConfigInit

Others6(moving) ==
  /\ UNCHANGED part
  /\ moving # "ring" => UNCHANGED ring
  /\ moving # "limiter" => UNCHANGED limiter
  /\ moving # "observer" => UNCHANGED observer
  /\ moving # "scan" => UNCHANGED scanning
  /\ moving # "pxe" => UNCHANGED booting
  /\ moving # "config" => UNCHANGED config

Moves ==
  \/ part = "ring" /\ RingNext
  \/ part = "limiter" /\ LimiterNext
  \/ part = "observer" /\ ObserverNext
  \/ part = "scan" /\ ScanNext
  \/ part = "pxe" /\ PxeNext
  \/ part = "config" /\ ConfigNext

MCNext == Moves /\ Others6(part)

(* A loop goes on; a machine asks until it is answered, and not every      *)
(* answer is lost.                                                         *)
MCFairness ==
  /\ WF_all(part = "scan" /\ Turn /\ Others6(part))
  /\ WF_all(part = "pxe" /\ PxeAsks /\ Others6(part))
  /\ SF_all(part = "pxe" /\ Take /\ Others6(part))
  /\ WF_all(part = "pxe" /\ (FetchTFTP \/ FetchScript) /\ Others6(part))

MCSpec == MCInit /\ [][MCNext]_all /\ MCFairness

-----------------------------------------------------------------------------
MCZero == [id |-> 0, level |-> ""]
MCEntry == {[id |-> 1, level |-> "debug"], [id |-> 2, level |-> "info"],
            [id |-> 3, level |-> "warn"], [id |-> 4, level |-> "error"]}

Num(i) == [kind |-> "int", v |-> 2 * i]
Float(halves) == [kind |-> "float", v |-> halves]
Str(s) == [kind |-> "string", v |-> s]
Bool(b) == [kind |-> "bool", v |-> b]
List(items) == [kind |-> "list", v |-> items]

MCValues == {[kind |-> "nil", v |-> 0], Float(2), Float(3), Float(20), Str(""), Str("lvm"),
             Str("zfs"), Bool(TRUE), Bool(FALSE), List(<<"string">>), List(<<"string", "float">>)}

Field(key, type, default, required, dep, value) ==
  [key |-> key, type |-> type, default |-> default, required |-> required,
   options |-> IF type = "select" THEN {"lvm", "plain"} ELSE {}, min |-> 0, max |-> 8,
   dep |-> dep, value |-> value]
Absent == [kind |-> "nil", v |-> 0]

MCCandidates ==
  {Field("a", "int", Num(1), TRUE, "none", Absent),
   Field("a", "int", Num(9), FALSE, "none", Absent),
   Field("a", "bool", Bool(TRUE), FALSE, "none", Absent),
   Field("a", "select", Str("lvm"), TRUE, "b", Str("x")),
   [Field("a", "select", Absent, FALSE, "none", Absent) EXCEPT !.options = {}],
   Field("a", "date", Absent, TRUE, "none", Absent),
   Field("b", "string", Str(""), TRUE, "a", Num(1)),
   Field("b", "list", List(<<"string">>), TRUE, "a", Bool(TRUE)),
   Field("b", "string", Str("x"), FALSE, "none", Absent),
   Field("b", "bool", Absent, TRUE, "a", Str("lvm")),
   [Field("b", "int", Absent, FALSE, "none", Absent) EXCEPT !.min = 9]}
=============================================================================
