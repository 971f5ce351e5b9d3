----------------------------- MODULE OsbuildBuild -----------------------------
(***************************************************************************)
(* What the programs outside this repository do with a manifest: dnf, that *)
(* resolves a package set, and osbuild, whose stages are known from how    *)
(* the manifests use them: the tools a stage calls in the build root, what *)
(* it must find in its own tree and in its inputs, and what it leaves.     *)
(***************************************************************************)
EXTENDS Osbuild, SequencesExt

Kernels == {"kernel", "kernel-rt"}

(***************************************************************************)
(* Packages that come along with another one: the members of @core, which  *)
(* an exclude list may take out, and hard requirements.                    *)
(***************************************************************************)
Members == {"NetworkManager", "openssh-server", "firewalld", "policycoreutils", "selinux-policy-targeted", "dnf",
            "subscription-manager", "systemd", "plymouth", "rng-tools"}

Requires(p) ==
    CASE p = "authselect-compat" -> {"authselect"}
      [] p = "subscription-manager-cockpit" -> {"subscription-manager"}
      [] p \in Kernels -> {"systemd"}
      [] p \in {"nginx", "httpd"} -> {"systemd"}
      [] OTHER -> {}

\* a kernel is told from the others, and from its updates, by its version
VersionOf(p, version) ==
    CASE p = "kernel" -> version
      [] p = "kernel-rt" -> version \o ".rt"
      [] OTHER -> "1"

Resolve(include, exclude, version) ==
    LET direct == (include \ {"@core"}) \cup (IF "@core" \in include THEN Members \ exclude ELSE {})
    IN  {<<p, VersionOf(p, version)>> : p \in direct \cup UNION {Requires(q) : q \in direct}}

Units(p) ==
    CASE p = "NetworkManager" -> {"NetworkManager", "NetworkManager.service"}
      [] p = "NetworkManager-cloud-setup" -> {"nm-cloud-setup.service", "nm-cloud-setup.timer"}
      [] p = "openssh-server" -> {"sshd", "sshd.service"}
      [] p = "firewalld" -> {"firewalld.service"}
      [] p = "WALinuxAgent" -> {"waagent"}
      [] p = "cloud-init" -> {"cloud-init", "cloud-init-local", "cloud-config", "cloud-final"}
      [] p = "systemd" -> {"reboot.target", "multi-user.target"}
      [] p = "httpd" -> {"httpd.service"}
      [] p = "coreos-installer-bootinfra" -> {"coreos-installer"}
      [] p = "greenboot" -> {"greenboot-healthcheck", "greenboot-task-runner", "redboot-task-runner"}
      [] p = "greenboot-grub2" -> {"greenboot-grub2-set-counter", "greenboot-grub2-set-success"}
      [] p = "greenboot-rpm-ostree-grub2" -> {"greenboot-rpm-ostree-grub2-check-fallback"}
      [] p = "greenboot-status" -> {"greenboot-status"}
      [] p = "greenboot-reboot" -> {"redboot-auto-reboot"}
      [] OTHER -> {}

Installs(p, version) ==
    {Pkg(p)} \cup {Unit(u) : u \in Units(p)}
      \cup (IF p \in Kernels THEN {Kernel(version)} ELSE {})
      \cup (IF p = "nginx" THEN {File("/var/log/nginx")} ELSE {})

EFIPackages(arch) == IF arch = "x86_64" THEN {"grub2-efi-x64", "shim-x64"} ELSE {"grub2-efi-aa64", "shim-aa64"}

CDBootPackages(arch) ==
    IF arch = "x86_64" THEN {"grub2-efi-ia32-cdboot", "grub2-efi-x64-cdboot", "shim-ia32", "shim-x64"}
    ELSE {"grub2-efi-aa64-cdboot", "shim-aa64"}

LegacyPackages(platform) ==
    CASE platform = "i386-pc" -> {"grub2-pc"}
      [] platform = "powerpc-ieee1275" -> {"grub2-ppc64le-modules"}
      [] OTHER -> {}

Tools(s, arch) ==
    CASE s.type = "rpm" -> {"dnf"}
      [] s.type = "selinux" -> {"policycoreutils"}
      [] s.type \in {"locale", "timezone", "systemd"} -> {"systemd"}
      [] s.type = "cloud-init" -> {"python3-pyyaml"}
      [] s.type = "tar" -> {"tar"}
      [] s.type = "xz" -> {"xz"}
      [] s.type = "qemu" -> {"qemu-img"}
      [] s.type = "mkfs.xfs" -> {"xfsprogs"}
      [] s.type = "mkfs.fat" -> {"dosfstools"}
      [] s.type = "mkfs.ext4" -> {"e2fsprogs"}
      [] s.type = "grub2" -> LegacyPackages(s.options.legacy) \cup (IF s.options.install THEN EFIPackages(arch) ELSE {})
      [] s.type = "grub2.inst" -> LegacyPackages(s.options.platform)
      [] s.type \in {"ostree.init", "ostree.init-fs", "ostree.pull", "ostree.passwd", "ostree.preptree",
                     "ostree.commit", "ostree.os-init", "ostree.config", "ostree.deploy", "ostree.fillvar",
                     "ostree.selinux"} -> {"rpm-ostree"}
      [] s.type = "lorax-script" -> {"lorax-templates-generic"}
      [] s.type = "bootiso.mono" -> {"lorax-templates-rhel", "squashfs-tools"} \cup CDBootPackages(arch)
                                      \cup (IF s.options.isolinux THEN {"syslinux"} ELSE {})
      [] s.type = "grub.iso" -> CDBootPackages(arch)
      [] s.type = "xorrisofs" -> {"xorriso"} \cup (IF s.options.isolinux THEN {"syslinux"} ELSE {})
      [] s.type = "implantisomd5" -> {"isomd5sum"}
      [] OTHER -> {}

(***************************************************************************)
(* The packages that the modules of an initial ram disk come from.         *)
(***************************************************************************)
ModulePackage(module) ==
    CASE module = "rngd" -> "rng-tools"
      [] module = "nfs" -> "nfs-utils"
      [] module = "anaconda" -> "anaconda-dracut"
      [] module = "rdcore" -> "coreos-installer-bootinfra"
      [] OTHER -> module

Directory(filename) == IF filename = "images/efiboot.img" THEN {File("images")} ELSE {}

Needs(s, arch) ==
    CASE s.type = "selinux" -> {Pkg("selinux-policy-targeted")}
      [] s.type = "chrony" -> {Pkg("chrony")}
      [] s.type = "firewall" -> {Pkg("firewalld")}
      [] s.type \in {"systemd", "systemd.unit"} -> {Unit(u) : u \in s.options.units}
      [] s.type = "cloud-init" -> {Pkg("cloud-init")}
      [] s.type = "authselect" -> {Pkg("authselect")}
      [] s.type = "rhsm" -> {Pkg("subscription-manager")}
      [] s.type = "tuned" -> {Pkg("tuned-profiles-sap-hana")}
      [] s.type = "grub2" -> IF s.options.uefi # "" /\ ~s.options.install THEN {Pkg(p) : p \in EFIPackages(arch)} ELSE {}
      [] s.type = "truncate" -> Directory(s.options.filename)
      [] s.type \in {"sfdisk", "mkfs.xfs", "mkfs.fat", "mkfs.btrfs", "mkfs.ext4", "grub2.inst", "implantisomd5"} ->
            {File(s.options.filename)}
      [] s.type = "zipl.inst" -> {Kernel(s.options.kernel), Pkg("s390utils-base")}
      [] s.type \in {"ostree.pull", "ostree.config"} -> {Repo(s.options.repo)}
      [] s.type = "ostree.commit" -> {Repo("/repo")}
      [] s.type = "ostree.deploy" -> {Commit("/ostree/repo"), File("/ostree/deploy"), File("/boot/efi")}
      [] s.type \in {"ostree.fillvar", "ostree.selinux"} -> {File("/ostree/boot")}
      [] s.type = "chmod" -> {File(s.options.path)}
      [] s.type = "nginx.conf" -> {Pkg("nginx")}
      [] s.type = "anaconda" -> {Pkg("anaconda")}
      [] s.type = "dracut" -> {Kernel(s.options.kernel), File("/.buildstamp")}
                                \cup {Pkg(ModulePackage(module)) : module \in s.options.modules}
      [] OTHER -> {}

\* rpm-ostree makes a commit only of a tree with one kernel
Admits(s, tree) == s.type = "ostree.preptree" => Cardinality({fact \in tree : fact[1] = "kernel"}) = 1

(***************************************************************************)
(* What a stage reads from its inputs, given as pairs of pipeline and      *)
(* fact.                                                                   *)
(***************************************************************************)
Origins(s) == {input[1] : input \in s.inputs}

Reads(s) ==
    s.inputs \cup
    CASE s.type = "copy" -> {<<p, path[1]>> : p \in Origins(s), path \in s.options.paths}
      [] s.type = "bootiso.mono" ->
            {<<p, fact>> : p \in Origins(s), fact \in {Kernel(s.options.kernel), Initramfs(s.options.kernel)}}
      [] s.type = "xorrisofs" ->
            {<<p, File(f)>> : p \in Origins(s),
                              f \in {s.options.efi} \cup (IF s.options.isolinux THEN {"isolinux/isolinux.bin"} ELSE {})}
      [] s.type = "oci-archive" -> {<<p, Pkg(Head(s.options.cmd))>> : p \in Origins(s)}
      [] OTHER -> {}

(***************************************************************************)
(* A disk that a tree is copied to holds all that the tree holds.          *)
(***************************************************************************)
Makes(s, trees) ==
    CASE s.type = "rpm" -> UNION {Installs(input[2][2], input[2][3]) : input \in s.inputs}
      [] s.type \in {"truncate", "qemu", "xz", "tar", "oci-archive", "xorrisofs"} -> {File(s.options.filename)}
      [] s.type = "copy" -> {path[2] : path \in s.options.paths}
                              \cup (IF s.options.mounts = {} THEN {} ELSE UNION {trees[p] : p \in Origins(s)})
      [] s.type = "mkdir" -> {File(path) : path \in s.options.paths}
      [] s.type = "buildstamp" -> {File("/.buildstamp")}
      [] s.type = "nginx.conf" -> {File(s.options.path)}
      [] s.type = "dracut" -> {Initramfs(s.options.kernel)}
      [] s.type = "ostree.init" -> {Repo(s.options.path)}
      [] s.type = "ostree.init-fs" -> {Repo("/ostree/repo")}
      [] s.type = "ostree.pull" -> {Commit(s.options.repo)}
      [] s.type = "ostree.commit" -> {Commit("/repo")}
      [] s.type = "ostree.os-init" -> {File("/ostree/deploy")}
      [] s.type = "ostree.deploy" -> {File("/ostree/boot")}
      [] s.type = "kickstart" -> {File(s.options.path)}
      [] s.type = "grub.iso" -> {File("/EFI")}
      [] s.type = "bootiso.mono" ->
            {File("images/efiboot.img"), File("/images/pxeboot/vmlinuz"), File("/images/pxeboot/initrd.img")}
              \cup (IF s.options.isolinux THEN {File("isolinux/isolinux.bin")} ELSE {})
      [] OTHER -> {}

(***************************************************************************)
(* Stages run one after the other on the tree of their pipeline.  The      *)
(* pipeline "build" is built with the tools of the worker.                 *)
(***************************************************************************)
CanRun(s, p, tree, trees, arch) ==
    /\ p.Name # "build" => {Pkg(tool) : tool \in Tools(s, arch)} \subseteq trees["build"]
    /\ Needs(s, arch) \subseteq tree
    /\ Admits(s, tree)
    /\ \A input \in Reads(s) : input[1] \in DOMAIN trees /\ input[2] \in trees[input[1]]

RunStages(p, trees, arch) ==
    FoldLeft(LAMBDA run, s :
                IF run.failed # "" THEN run
                ELSE IF CanRun(s, p, run.tree, trees, arch) THEN [run EXCEPT !.tree = @ \cup Makes(s, trees)]
                ELSE [run EXCEPT !.failed = s.type],
             [tree |-> {Tree}, failed |-> ""], p.Stages)
=============================================================================
