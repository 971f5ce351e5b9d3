---------------------------- MODULE Customizations ----------------------------
(***************************************************************************)
(* What a blueprint asks of an image (internal/blueprint) and what a       *)
(* distribution reads of it.  Customizations that a manifest takes over as *)
(* they are, a host name or a time zone, are names in the set "has"; the   *)
(* others have a field: users and keys by name, mountpoints as sequences   *)
(* of path components.                                                     *)
(***************************************************************************)
EXTENDS Sequences, FiniteSets, SequencesExt

NoCustomizations == [has |-> {}, SSHKey |-> <<>>, User |-> <<>>, Group |-> {}, Filesystem |-> <<>>]

Names == {"hostname", "kernel-name", "kernel-append", "timezone", "ntpservers",
          "languages", "keyboard", "firewall", "services", "device"}

CheckAllowed(c, allowed) ==
    /\ c.has \subseteq allowed
    /\ [c EXCEPT !.has = {}] = NoCustomizations

HasLanguage(c) == "languages" \in c.has
HasKeyboard(c) == "keyboard" \in c.has
HasTimezone(c) == "timezone" \in c.has
HasNTPServers(c) == "ntpservers" \in c.has
HasHostname(c) == "hostname" \in c.has

\* mutant: the key of a user that has none of its own is left out
GetUsers_NoKeys(c) == [i \in DOMAIN c.SSHKey |-> [Name |-> c.SSHKey[i].User, Key |-> ""]] \o c.User

(***************************************************************************)
(* The users of the sshkey customization come first.  Their keys are taken *)
(* by the address of the loop variable, which in the end holds the last of *)
(* them.                                                                   *)
(***************************************************************************)
GetUsers(c) == [i \in DOMAIN c.SSHKey |-> [Name |-> c.SSHKey[i].User, Key |-> Last(c.SSHKey).Key]] \o c.User

GetGroups(c) ==
    c.Group \ ({c.User[i].Name : i \in DOMAIN c.User} \cup {c.SSHKey[i].User : i \in DOMAIN c.SSHKey})

(***************************************************************************)
(* The kernel package, and whether there are options to append.            *)
(***************************************************************************)
GetKernel(c) ==
    [Name |-> IF "kernel-name" \in c.has THEN "kernel-rt" ELSE "kernel", Append |-> "kernel-append" \in c.has]

HasFirewall(c) == "firewall" \in c.has

GetServices(c) == IF "services" \in c.has THEN {"httpd.service"} ELSE {}

GetFilesystems(c) == c.Filesystem

GetInstallationDevice(c) == IF "device" \in c.has THEN "/dev/vda" ELSE "/dev/sda"

(***************************************************************************)
(* The packages of a blueprint, with the kernel.                           *)
(***************************************************************************)
GetPackages(bp) == bp.packages \cup {GetKernel(bp.c).Name}
=============================================================================
