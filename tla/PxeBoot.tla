------------------------------- MODULE PxeBoot --------------------------------
(***************************************************************************)
(* A machine that boots from the network (internal/network/pxe.go,         *)
(* proxydhcp.go, dhcpserver.go, tftp.go): its firmware asks for a boot     *)
(* file, fetches iPXE over TFTP, and iPXE asks again and gets the URL of   *)
(* the boot script.  Packets may be lost; the machine then asks again.     *)
(***************************************************************************)
EXTENDS FiniteSets

CONSTANTS
  Installed   \* boot files present in the tftp assets directory

VARIABLES
  bootMode,   \* what runs: "dhcp" or "proxy_dhcp"
  arch,       \* option 93 of the machine, or "absent"
  stage,      \* what the machine runs: its firmware, iPXE or the boot script
  reply,      \* the answer on its way to the machine, or Nothing
  told        \* the boot file the machine was last told of

booting == <<bootMode, arch, stage, reply, told>>

Nothing == [type |-> "none"]
ScriptURL == "/boot/ipxe"
Known == [absent |-> "undionly.kpxe", x86pc |-> "undionly.kpxe", ia32 |-> "ipxe-i386.efi",
          x86_64 |-> "ipxe.efi", bc |-> "ipxe.efi", arm64 |-> "ipxe-arm64.efi"]
Archs == DOMAIN Known \cup {"arm32", "x86_64_http"}

PxeInit ==
  /\ bootMode = "proxy_dhcp" /\ arch = "absent"
  /\ stage = "off" /\ reply = Nothing /\ told = ""

(* A machine is switched on, in a network with either mode. *)
PowerOn(m, a) ==
  /\ stage = "off"
  /\ bootMode' = m /\ arch' = a
  /\ stage' = "firmware"
  /\ UNCHANGED <<reply, told>>

(* What the machine sends: its vendor class, and its user class.  A part   *)
(* of iPXE's builds has no vendor class.                                   *)
Classes == IF stage = "ipxe" THEN {"PXEClient", "none"} ELSE {"PXEClient"}
IsIPXE == stage = "ipxe"

(* Mutant: iPXE is told by its architecture as well. *)
BootFilenameByArch(ipxe, a) == IF a \in DOMAIN Known THEN Known[a] ELSE ""

(* The empty name is a client that cannot be served. *)
BootFilename(ipxe, a) ==
  IF ipxe THEN ScriptURL ELSE IF a \in DOMAIN Known THEN Known[a] ELSE ""

IsPXERequest(class, ipxe) == class \in {"PXEClient", "HTTPClient"} \/ ipxe

(* ProxyDHCP: the router assigns the address, so the offer carries none.   *)
ProxyReply(port, type, class, ipxe) ==
  LET file == BootFilename(ipxe, arch) IN
  IF ~ IsPXERequest(class, ipxe) \/ file = ""
     \/ <<port, type>> \notin {<<67, "DISCOVER">>, <<4011, "REQUEST">>}
  THEN Nothing
  ELSE [type |-> IF port = 67 THEN "OFFER" ELSE "ACK", address |-> FALSE, file |-> file]

(* The DHCP server, of a DISCOVER or a REQUEST it has an address for:      *)
(* whatever asks gets the address, with or without a boot file.            *)
DhcpReply(type, class, ipxe) ==
  [type |-> IF type = "DISCOVER" THEN "OFFER" ELSE "ACK",
   address |-> TRUE,
   file |-> IF IsPXERequest(class, ipxe) THEN BootFilename(ipxe, arch) ELSE ""]

(* The machine broadcasts to port 67; some firmware asks once more on port *)
(* 4011, and with a DHCP server it always asks once more.                  *)
Ask(port, type) ==
  /\ stage \in {"firmware", "ipxe"} /\ reply = Nothing
  /\ \E class \in Classes :
       reply' = IF bootMode = "proxy_dhcp" THEN ProxyReply(port, type, class, IsIPXE)
                ELSE IF port = 67 THEN DhcpReply(type, class, IsIPXE) ELSE Nothing
  /\ UNCHANGED <<bootMode, arch, stage, told>>

Lose ==
  /\ reply # Nothing
  /\ reply' = Nothing
  /\ UNCHANGED <<bootMode, arch, stage, told>>

(* The machine takes the file of the answer, if it names one. *)
Take ==
  /\ reply # Nothing
  /\ told' = reply.file
  /\ reply' = Nothing
  /\ UNCHANGED <<bootMode, arch, stage>>

(* readHandler: a file of the assets directory, or an error. *)
FetchTFTP ==
  /\ told \in Installed
  /\ stage' = "ipxe" /\ told' = ""
  /\ UNCHANGED <<bootMode, arch, reply>>

FetchScript ==
  /\ stage = "ipxe" /\ told = ScriptURL
  /\ stage' = "script"
  /\ UNCHANGED <<bootMode, arch, reply, told>>

Reboot ==
  /\ stage' = "off" /\ reply' = Nothing /\ told' = ""
  /\ stage = "script"
  /\ UNCHANGED <<bootMode, arch>>

PxeAsks ==
  \E sent \in {<<67, "DISCOVER">>, <<67, "REQUEST">>, <<4011, "REQUEST">>} :
    Ask(sent[1], sent[2])

PxeNext ==
  \/ \E m \in {"dhcp", "proxy_dhcp"}, a \in Archs : PowerOn(m, a)
  \/ PxeAsks \/ Lose \/ Take \/ FetchTFTP \/ FetchScript \/ Reboot

-----------------------------------------------------------------------------
(* In either mode and on every architecture whose boot file is installed,  *)
(* a machine gets from its firmware through iPXE to the boot script: iPXE  *)
(* is told the URL, not once more to load iPXE.                            *)
MachinesBoot ==
  stage = "firmware" /\ arch \in DOMAIN Known /\ Known[arch] \in Installed
    ~> stage = "script"
=============================================================================
