----------------------------- MODULE InstallPlan -----------------------------
(***************************************************************************)
(* What the code keeps of ADR-0013's promise, without hosts, statuses or   *)
(* requests: queueing an installation fixes the version it installs and    *)
(* the configuration of it, until its row is removed, and no later         *)
(* installation takes its id.  The image and the answer file are not       *)
(* fixed: they change with the profile's image and the version's override, *)
(* for every installation of that profile or version at once.              *)
(***************************************************************************)
EXTENDS Naturals

CONSTANTS Ids, Versions, Configs, Overrides, Images, NoImage

VARIABLES
  plan,         \* what each installation on record installs
  next          \* the id of the next one

Entry == [version: Versions, config: Configs, override: Overrides, image: Images]

Init == plan = [i \in {} |-> 0] /\ next = 1

(* What is queued of one version agrees, and what is queued of one profile *)
(* comes from one image.                                                   *)
Agree(entry, other) ==
  /\ entry.version = other.version
       => entry.config = other.config /\ entry.override = other.override
  /\ entry.version[1] = other.version[1] => entry.image = other.image

Queue(entry) ==
  /\ next \in Ids
  /\ \A i \in DOMAIN plan : Agree(entry, plan[i])
  /\ plan' = [i \in DOMAIN plan \cup {next} |-> IF i = next THEN entry ELSE plan[i]]
  /\ next' = next + 1

Remove(gone) ==
  /\ plan' = [i \in DOMAIN plan \ gone |-> plan[i]]
  /\ UNCHANGED next

(* A profile is given another image. *)
Reimage(profile, image) ==
  /\ plan' = [i \in DOMAIN plan |-> IF plan[i].version[1] = profile
                                    THEN [plan[i] EXCEPT !.image = image] ELSE plan[i]]
  /\ UNCHANGED next

(* An image is deleted. *)
DropImage(image) ==
  /\ plan' = [i \in DOMAIN plan |-> IF plan[i].image = image
                                    THEN [plan[i] EXCEPT !.image = NoImage] ELSE plan[i]]
  /\ UNCHANGED next

(* The answer file of a version is written by hand, or no longer. *)
Override(version, override) ==
  /\ plan' = [i \in DOMAIN plan |-> IF plan[i].version = version
                                    THEN [plan[i] EXCEPT !.override = override] ELSE plan[i]]
  /\ UNCHANGED next

Next ==
  \/ \E entry \in Entry : Queue(entry)
  \/ \E gone \in SUBSET Ids : Remove(gone)
  \/ \E version \in Versions, image \in Images : Reimage(version[1], image)
  \/ \E image \in Images : DropImage(image)
  \/ \E version \in Versions, override \in Overrides : Override(version, override)

Spec == Init /\ [][Next]_<<plan, next>>
=============================================================================
