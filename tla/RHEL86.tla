-------------------------------- MODULE RHEL86 --------------------------------
(***************************************************************************)
(* The distributions of internal/distro/rhel86: RHEL 8.6 and CentOS Stream *)
(* 8.  From the name of an image type: its package sets, the checks of a   *)
(* request and the pipelines of its manifest.                              *)
(*                                                                         *)
(* Of the packages in a set, the ones are kept that a stage, a unit, a     *)
(* tool of the build root or an exclude list asks for; the firmware of     *)
(* many packages stands under one name.                                    *)
(***************************************************************************)
EXTENDS Osbuild, Customizations

buildPkgsKey == "build"
osPkgsKey == "packages"
containerPkgsKey == "container"
installerPkgsKey == "installer"
blueprintPkgsKey == "blueprint"

X86_64 == "x86_64"
Aarch64 == "aarch64"
Ppc64le == "ppc64le"
S390x == "s390x"

PackageSet(include, exclude) == [Include |-> include, Exclude |-> exclude]

NoPackages == PackageSet({}, {})

AppendSet(ps, other) == PackageSet(ps.Include \cup other.Include, ps.Exclude \cup other.Exclude)

Includes(ps, packages) == AppendSet(ps, PackageSet(packages, {}))

distroMap ==
    [name \in {"rhel-86", "centos-8"} |->
        [name |-> name,
         vendor |-> IF name = "rhel-86" THEN "redhat" ELSE "centos",
         isolabelTmpl |-> IF name = "rhel-86" THEN "RHEL-8-6-0-BaseOS" ELSE "CentOS-Stream-8"]]

isRHEL(d) == d.name # "centos-8"

getBootType(t) == IF t.bootType # "" THEN t.bootType ELSE t.arch.bootType

supportsUEFI(t) == getBootType(t) \in {"hybrid", "uefi"}

-----------------------------------------------------------------------------
(***************************************************************************)
(* Package sets of the build root.                                         *)
(***************************************************************************)
x8664BuildPackageSet(t) == PackageSet({"grub2-pc"}, {})

ppc64leBuildPackageSet(t) == PackageSet({"grub2-ppc64le", "grub2-ppc64le-modules"}, {})

distroBuildPackageSet(t) ==
    AppendSet(
        PackageSet({"dnf", "dosfstools", "e2fsprogs", "lorax-templates-generic", "lorax-templates-rhel",
                    "policycoreutils", "qemu-img", "selinux-policy-targeted", "systemd", "tar", "xfsprogs", "xz"}, {}),
        CASE t.arch.name = X86_64 -> x8664BuildPackageSet(t)
          [] t.arch.name = Ppc64le -> ppc64leBuildPackageSet(t)
          [] OTHER -> NoPackages)

ec2BuildPackageSet(t) == Includes(distroBuildPackageSet(t), {"python3-pyyaml"})

edgeBuildPackageSet(t) == Includes(distroBuildPackageSet(t), {"rpm-ostree"})

anacondaBootPackageSet(t) ==
    Includes(PackageSet({"grub2-tools", "efibootmgr"}, {}),
        CASE t.arch.name = X86_64 ->
                {"grub2-efi-ia32-cdboot", "grub2-efi-x64", "grub2-efi-x64-cdboot", "grub2-pc", "grub2-pc-modules",
                 "shim-ia32", "shim-x64", "syslinux", "syslinux-nonlinux"}
          [] t.arch.name = Aarch64 -> {"grub2-efi-aa64-cdboot", "grub2-efi-aa64", "shim-aa64"})

installerBuildPackageSet(t) == Includes(distroBuildPackageSet(t), {"genisoimage", "isomd5sum", "xorriso"})

anacondaBuildPackageSet(t) ==
    Includes(AppendSet(installerBuildPackageSet(t), anacondaBootPackageSet(t)), {"squashfs-tools"})

edgeInstallerBuildPackageSet(t) == AppendSet(anacondaBuildPackageSet(t), edgeBuildPackageSet(t))

(***************************************************************************)
(* Package sets that make an image boot.                                   *)
(***************************************************************************)
x8664LegacyBootPackageSet(t) == PackageSet({"dracut-config-generic", "grub2-pc"}, {})

x8664UEFIBootPackageSet(t) == PackageSet({"dracut-config-generic", "efibootmgr", "grub2-efi-x64", "shim-x64"}, {})

aarch64UEFIBootPackageSet(t) ==
    PackageSet({"dracut-config-generic", "efibootmgr", "grub2-efi-aa64", "grub2-tools", "shim-aa64"}, {})

ppc64leLegacyBootPackageSet(t) ==
    PackageSet({"dracut-config-generic", "powerpc-utils", "grub2-ppc64le", "grub2-ppc64le-modules"}, {})

s390xLegacyBootPackageSet(t) == PackageSet({"dracut-config-generic", "s390utils-base"}, {})

bootPackageSet(t) ==
    LET legacy == IF getBootType(t) \in {"legacy", "hybrid"} THEN x8664LegacyBootPackageSet(t) ELSE NoPackages
        uefi == IF supportsUEFI(t) THEN x8664UEFIBootPackageSet(t) ELSE NoPackages
    IN  IF ~t.bootable THEN NoPackages
        ELSE CASE t.arch.name = X86_64 -> AppendSet(legacy, uefi)
               [] t.arch.name = Aarch64 -> aarch64UEFIBootPackageSet(t)
               [] t.arch.name = Ppc64le -> ppc64leLegacyBootPackageSet(t)
               [] t.arch.name = S390x -> s390xLegacyBootPackageSet(t)

edgeRawImageBuildPackageSet(t) == AppendSet(edgeBuildPackageSet(t), bootPackageSet(t))

(***************************************************************************)
(* Package sets of operating systems.                                      *)
(***************************************************************************)
distroSpecificPackageSet(t) == IF isRHEL(t.arch.distro) THEN PackageSet({"insights-client"}, {}) ELSE NoPackages

qcow2CommonPackageSet(t) ==
    AppendSet(AppendSet(
        PackageSet({"@core", "authselect-compat", "chrony", "cloud-init", "dnf", "dosfstools", "dracut-norescue",
                    "NetworkManager", "nfs-utils", "subscription-manager-cockpit", "tar"},
                   {"iwl-firmware", "libertas-firmware", "alsa-firmware", "alsa-lib", "biosdevname",
                    "dracut-config-rescue", "firewalld", "fwupd", "langpacks-en", "nss", "plymouth", "rng-tools",
                    "udisks2"}),
        bootPackageSet(t)), distroSpecificPackageSet(t))

vhdCommonPackageSet(t) ==
    AppendSet(PackageSet({"@core", "langpacks-en", "selinux-policy-targeted", "chrony", "WALinuxAgent",
                          "cloud-init", "gdisk"},
                         {"dracut-config-rescue", "rng-tools"}),
              bootPackageSet(t))

vmdkCommonPackageSet(t) ==
    AppendSet(PackageSet({"@core", "chrony", "firewalld", "langpacks-en", "selinux-policy-targeted"},
                         {"dracut-config-rescue", "rng-tools"}),
              bootPackageSet(t))

openstackCommonPackageSet(t) ==
    AppendSet(PackageSet({"@core", "langpacks-en", "selinux-policy-targeted", "cloud-init"},
                         {"dracut-config-rescue", "rng-tools"}),
              bootPackageSet(t))

ec2CommonPackageSet(t) ==
    AppendSet(AppendSet(
        PackageSet({"@core", "authselect-compat", "chrony", "cloud-init", "dracut-config-generic", "dracut-norescue",
                    "gdisk", "grub2", "langpacks-en", "NetworkManager", "NetworkManager-cloud-setup", "tar"},
                   {"iwl-firmware", "libertas-firmware", "alsa-firmware", "biosdevname", "firewalld", "plymouth"}),
        bootPackageSet(t)), distroSpecificPackageSet(t))

rhelEc2PackageSet(t) == AppendSet(ec2CommonPackageSet(t), PackageSet({"rh-amazon-rhui-client"}, {"alsa-lib"}))

rhelEc2HaPackageSet(t) ==
    AppendSet(ec2CommonPackageSet(t), PackageSet({"pacemaker", "rh-amazon-rhui-client-ha"}, {"alsa-lib"}))

rhelEc2SapPackageSet(t) ==
    Includes(ec2CommonPackageSet(t), {"nfs-utils", "tuned-profiles-sap-hana", "rh-amazon-rhui-client-sap-bundle-e4s"})

x8664EdgeCommitPackageSet(t) ==
    PackageSet({"grub2", "grub2-efi-x64", "efibootmgr", "shim-x64", "iwl-firmware"}, {})

aarch64EdgeCommitPackageSet(t) == PackageSet({"grub2-efi-aa64", "efibootmgr", "shim-aa64", "iwl-firmware"}, {})

edgeCommitPackageSet(t) ==
    AppendSet(AppendSet(
        PackageSet({"dracut-config-generic", "chrony", "systemd", "rpm-ostree", "dosfstools", "e2fsprogs", "firewalld",
                    "fwupd", "NetworkManager", "openssh-server", "policycoreutils", "selinux-policy-targeted", "tar",
                    "xz", "greenboot", "greenboot-grub2", "greenboot-rpm-ostree-grub2", "greenboot-reboot",
                    "greenboot-status"},
                   {"rng-tools"}),
        bootPackageSet(t)),
        CASE t.arch.name = X86_64 -> x8664EdgeCommitPackageSet(t)
          [] t.arch.name = Aarch64 -> aarch64EdgeCommitPackageSet(t)
          [] OTHER -> NoPackages)

bareMetalPackageSet(t) ==
    AppendSet(AppendSet(
        PackageSet({"@core", "authselect-compat", "chrony", "dnf", "dosfstools", "dracut-norescue", "iwl-firmware",
                    "NetworkManager", "nfs-utils", "policycoreutils", "selinux-policy-targeted",
                    "subscription-manager-cockpit", "tar"}, {}),
        bootPackageSet(t)), distroBuildPackageSet(t))

tarPackageSet(t) == PackageSet({"policycoreutils", "selinux-policy-targeted"}, {"rng-tools"})

containerPackageSet(t) == PackageSet({"nginx"}, {})

(***************************************************************************)
(* Package sets of installers.                                             *)
(***************************************************************************)
installerPackageSet(t) ==
    Includes(PackageSet({"anaconda-dracut", "dracut-config-generic", "dracut-network", "iwl-firmware", "kernel",
                         "nfs-utils", "ostree", "plymouth", "prefixdevname", "rng-tools", "selinux-policy-targeted",
                         "systemd", "tar", "xfsprogs", "xz"}, {}),
             IF t.arch.name = X86_64 THEN {"biosdevname"} ELSE {})

anacondaPackageSet(t) ==
    AppendSet(Includes(installerPackageSet(t),
                       {"alsa-firmware", "anaconda", "dnf", "gdisk", "libertas-firmware", "openssh-server",
                        "rpm-ostree", "udisks2"}),
              anacondaBootPackageSet(t))

edgeInstallerPackageSet(t) == anacondaPackageSet(t)

edgeSimplifiedInstallerPackageSet(t) ==
    AppendSet(Includes(installerPackageSet(t),
                       {"coreos-installer", "coreos-installer-bootinfra", "dosfstools", "e2fsprogs",
                        "policycoreutils"}),
              CASE t.arch.name = X86_64 -> x8664EdgeCommitPackageSet(t)
                [] t.arch.name = Aarch64 -> aarch64EdgeCommitPackageSet(t))

getPackages(t, name) ==
    LET getter == t.packageSets[name]
    IN  CASE getter = "distroBuild" -> distroBuildPackageSet(t)
          [] getter = "ec2Build" -> ec2BuildPackageSet(t)
          [] getter = "edgeBuild" -> edgeBuildPackageSet(t)
          [] getter = "edgeRawImageBuild" -> edgeRawImageBuildPackageSet(t)
          [] getter = "anacondaBuild" -> anacondaBuildPackageSet(t)
          [] getter = "edgeInstallerBuild" -> edgeInstallerBuildPackageSet(t)
          [] getter = "qcow2Common" -> qcow2CommonPackageSet(t)
          [] getter = "vhdCommon" -> vhdCommonPackageSet(t)
          [] getter = "vmdkCommon" -> vmdkCommonPackageSet(t)
          [] getter = "openstackCommon" -> openstackCommonPackageSet(t)
          [] getter = "ec2Common" -> ec2CommonPackageSet(t)
          [] getter = "rhelEc2" -> rhelEc2PackageSet(t)
          [] getter = "rhelEc2Ha" -> rhelEc2HaPackageSet(t)
          [] getter = "rhelEc2Sap" -> rhelEc2SapPackageSet(t)
          [] getter = "edgeCommit" -> edgeCommitPackageSet(t)
          [] getter = "bareMetal" -> bareMetalPackageSet(t)
          [] getter = "tar" -> tarPackageSet(t)
          [] getter = "container" -> containerPackageSet(t)
          [] getter = "anaconda" -> anacondaPackageSet(t)
          [] getter = "edgeInstaller" -> edgeInstallerPackageSet(t)
          [] getter = "edgeSimplifiedInstaller" -> edgeSimplifiedInstallerPackageSet(t)

(***************************************************************************)
(* The sets that are depsolved, each on its own.  The packages of the      *)
(* blueprint are a set that no exclude list restricts; its kernel is in    *)
(* the set of the operating system as well.                                *)
(***************************************************************************)
blueprintPackages(bp) == GetPackages(bp) \cup (IF HasTimezone(bp.c) THEN {"chrony"} ELSE {})

imagePackages(t, name) == IF name \in DOMAIN t.packageSets THEN getPackages(t, name) ELSE NoPackages

\* mutant: the packages of the blueprint are depsolved with the operating system
PackageSets_Together(t, bp) ==
    [name \in DOMAIN t.packageSets \cup {osPkgsKey, blueprintPkgsKey} |->
        CASE name = blueprintPkgsKey -> PackageSet(blueprintPackages(bp), {})
          [] name = osPkgsKey -> Includes(imagePackages(t, name), blueprintPackages(bp))
          [] OTHER -> getPackages(t, name)]

PackageSets(t, bp) ==
    [name \in DOMAIN t.packageSets \cup {osPkgsKey, blueprintPkgsKey} |->
        CASE name = blueprintPkgsKey -> PackageSet(blueprintPackages(bp), {})
          [] name = osPkgsKey -> Includes(imagePackages(t, name), {GetKernel(bp.c).Name})
          [] OTHER -> getPackages(t, name)]

-----------------------------------------------------------------------------
(***************************************************************************)
(* Base partition tables: which partitions, in which order.  Their sizes   *)
(* and places are the matter of PartitionTables.                           *)
(***************************************************************************)
Nowhere == <<"(none)">>
RootMount == <<>>
BootMount == <<"boot">>
EFIMount == <<"boot", "efi">>

BIOSBoot == [type |-> "bios", bootable |-> TRUE, fs |-> "", mount |-> Nowhere]
PReP == [type |-> "41", bootable |-> TRUE, fs |-> "", mount |-> Nowhere]
ESP == [type |-> "efi", bootable |-> FALSE, fs |-> "vfat", mount |-> EFIMount]
Data(mount) == [type |-> "data", bootable |-> FALSE, fs |-> "xfs", mount |-> mount]

defaultBasePartitionTables(arch) ==
    CASE arch = X86_64 -> <<BIOSBoot, ESP, Data(RootMount)>>
      [] arch = Aarch64 -> <<ESP, Data(RootMount)>>
      [] arch = Ppc64le -> <<PReP, Data(RootMount)>>
      [] arch = S390x -> <<[Data(RootMount) EXCEPT !.bootable = TRUE]>>

ec2BasePartitionTables(arch) ==
    CASE arch = X86_64 -> <<BIOSBoot, Data(RootMount)>>
      [] arch = Aarch64 -> <<ESP, Data(BootMount), Data(RootMount)>>

edgeBasePartitionTables(arch) ==
    CASE arch = X86_64 -> <<BIOSBoot, ESP, Data(BootMount), Data(RootMount)>>
      [] arch = Aarch64 -> <<ESP, Data(BootMount), Data(RootMount)>>

CreatePartitionTable(mountpoints, base) ==
    LET asked == SelectSeq(mountpoints, LAMBDA m : m # RootMount)
    IN  base \o [i \in DOMAIN asked |-> Data(asked[i])]

getPartitionTable(t, mountpoints) ==
    LET base == CASE t.basePartitionTables = "default" -> defaultBasePartitionTables(t.arch.name)
                  [] t.basePartitionTables = "ec2" -> ec2BasePartitionTables(t.arch.name)
                  [] t.basePartitionTables = "edge" -> edgeBasePartitionTables(t.arch.name)
    IN  CreatePartitionTable(mountpoints, base)

PartitionIndex(pt, mount) == SelectInSeq(pt, LAMBDA p : p.mount = mount)

HasBootPartition(pt) == PartitionIndex(pt, BootMount) # 0

BootPartitionIndex(pt) == IF HasBootPartition(pt) THEN PartitionIndex(pt, BootMount) ELSE PartitionIndex(pt, RootMount)

Mounted(pt) == SelectSeq(pt, LAMBDA p : p.fs # "")

FSTabStageOptionsV2(pt) == {p.mount : p \in ToSet(Mounted(pt))}

-----------------------------------------------------------------------------
(***************************************************************************)
(* Inputs of stages.                                                       *)
(***************************************************************************)
rpmStageInputs(specs) == {<<Source, Rpm(spec)>> : spec \in specs}

bootISOMonoStageInputs == NewTreeInput("anaconda-tree")

ostreePullStageInputs(origin, source) ==
    IF origin = Source THEN {<<Source, OSTreeCommit(source)>>} ELSE {<<source, Commit("/repo")>>}

xorrisofsStageInputs(pipeline) == NewTreeInput(pipeline)

copyPipelineTreeInputs(pipeline) == NewTreeInput(pipeline)

qemuStageInputs(pipeline, file) == {<<pipeline, File(file)>>}

(***************************************************************************)
(* Options of stages.                                                      *)
(***************************************************************************)
kspath == "/osbuild.ks"

selinuxStageOptions(labelcp) == IF labelcp THEN {"/usr/bin/cp", "/usr/bin/tar"} ELSE {}

(***************************************************************************)
(* A user that is listed twice gets what is listed last.                   *)
(***************************************************************************)
userStageOptions(users) ==
    [name \in {users[i].Name : i \in DOMAIN users} |-> users[SelectLastInSeq(users, LAMBDA u : u.Name = name)].Key]

systemdStageOptions(enabled, disabled, services, target) ==
    enabled \cup disabled \cup services \cup (IF target = "" THEN {} ELSE {target})

dracutStageOptions(kernelVer, arch, additionalModules) ==
    NewDracutStage(kernelVer, {"rngd", "plymouth", "prefixdevname", "nfs"}
                                \cup (IF arch = X86_64 THEN {"biosdevname"} ELSE {}) \cup additionalModules)

tarKickstartStageOptions(tarURL) == [path |-> kspath, payload |-> "liveimg", url |-> tarURL]

ostreeKickstartStageOptions(ostreeURL) == [path |-> kspath, payload |-> "ostree", url |-> ostreeURL]

\* the label of a template for an architecture
isolabel(tmpl, arch) == <<tmpl, arch>>

efiArchitectures(arch) == CASE arch = X86_64 -> {"IA32", "X64"} [] arch = Aarch64 -> {"AA64"}

bootISOMonoStageOptions(kernelVer, arch, vendor, label) ==
    [kernel |-> kernelVer, isolabel |-> label, label |-> label, ks |-> kspath,
     architectures |-> efiArchitectures(arch), vendor |-> vendor, isolinux |-> arch = X86_64]

grubISOStageOptions(installDevice, kernelVer, arch, vendor, label) ==
    [kernel |-> kernelVer, isolabel |-> label, label |-> label, device |-> installDevice,
     image |-> "/disk.img.xz", kernelpath |-> "/images/pxeboot/vmlinuz", initrdpath |-> "/images/pxeboot/initrd.img",
     architectures |-> efiArchitectures(arch), vendor |-> vendor]

xorrisofsStageOptions(filename, tmpl, arch, isolinux) ==
    [filename |-> filename, volid |-> isolabel(tmpl, arch), efi |-> "images/efiboot.img", isolinux |-> isolinux]

(***************************************************************************)
(* Without a kernel customization, as for commits, no entry is saved.      *)
(***************************************************************************)
NoCustomKernel == [Name |-> "", Append |-> FALSE]

grub2StageOptions(pt, kernel, kernelVer, uefi, legacy, vendor, install) ==
    [root |-> PartitionIndex(pt, RootMount), boot |-> PartitionIndex(pt, BootMount), legacy |-> legacy,
     uefi |-> IF uefi THEN vendor ELSE "", install |-> uefi /\ install,
     append |-> kernel.Append, saved |-> IF kernel = NoCustomKernel THEN NoKernel ELSE kernelVer]

sfdiskStageOptions(pt) == pt

(***************************************************************************)
(* A device is named for the last component of its mountpoint, and a later *)
(* partition replaces the device of an earlier one of the same name.       *)
(***************************************************************************)
deviceName(mount) == IF mount = RootMount THEN "root" ELSE Last(mount)

copyFSTreeOptions(pt) ==
    LET device(name) == SelectLastInSeq(pt, LAMBDA p : p.fs # "" /\ deviceName(p.mount) = name)
    IN  {[target |-> p.mount, partition |-> device(deviceName(p.mount))] : p \in ToSet(Mounted(pt))}

grub2InstStageOptions(filename, pt, platform) ==
    LET boot == BootPartitionIndex(pt)
    IN  [filename |-> filename, platform |-> platform, location |-> 1, number |-> boot,
         path |-> IF pt[boot].mount = BootMount THEN "/grub2" ELSE "/boot/grub2"]

ziplInstStageOptions(kernelVer, pt) == [kernel |-> kernelVer, location |-> BootPartitionIndex(pt)]

qemuStageOptions(filename, format) == [filename |-> filename, format |-> format]

-----------------------------------------------------------------------------
(***************************************************************************)
(* Pipelines that several image types have.                                *)
(***************************************************************************)
kernelVerStr(specs, kernelName) ==
    LET kernelPkg == {spec \in specs : spec[1] = kernelName}
    IN  IF kernelPkg = {} THEN "-." ELSE (CHOOSE spec \in kernelPkg : TRUE)[2]

buildPipeline(specs) ==
    Pipeline("build", <<NewRPMStage(rpmStageInputs(specs)), NewSELinuxStage(selinuxStageOptions(TRUE))>>)

(***************************************************************************)
(* The stages for what a blueprint customizes, that the trees of all kinds *)
(* have in this order.                                                     *)
(***************************************************************************)
usersStages(c) ==
    When(GetGroups(c) # {}, <<NewGroupsStage>>)
      \o When(GetUsers(c) # <<>>, <<NewUsersStage(userStageOptions(GetUsers(c)))>>)

systemdStages(t, c) ==
    When(GetServices(c) # {} \/ t.enabledServices # {} \/ t.disabledServices # {} \/ t.defaultTarget # "",
         <<NewSystemdStage(systemdStageOptions(t.enabledServices, t.disabledServices, GetServices(c), t.defaultTarget))>>)

osPackages(packages, bpPackages) == packages \cup bpPackages

osPipeline(t, c, options, packages, bpPackages) ==
    Pipeline("os",
        <<NewRPMStage(rpmStageInputs(osPackages(packages, bpPackages))), NewFixBLSStage("/boot"), NewLocaleStage>>
          \o When(HasKeyboard(c), <<NewKeymapStage>>)
          \o When(HasHostname(c), <<NewHostnameStage>>)
          \o <<NewTimezoneStage>>
          \o When(HasNTPServers(c), <<NewChronyStage>>)
          \o usersStages(c)
          \o systemdStages(t, c)
          \o When(HasFirewall(c), <<NewFirewallStage>>)
          \o <<NewSysconfigStage>>
          \o When(options.Subscription, <<NewFirstBootStage>>))

bootloaderConfigStage(t, pt, kernel, kernelVer, install) ==
    IF t.arch.name = S390x THEN NewZiplStage
    ELSE NewGRUB2Stage(grub2StageOptions(pt, kernel, kernelVer, supportsUEFI(t), t.arch.legacy,
                                         t.arch.distro.vendor, install))

bootloaderInstStage(filename, pt, arch, kernelVer) ==
    CASE arch.legacy # "" -> <<NewGrub2InstStage(grub2InstStageOptions(filename, pt, arch.legacy))>>
      [] arch.legacy = "" /\ arch.name = S390x -> <<NewZiplInstStage(ziplInstStageOptions(kernelVer, pt))>>
      [] OTHER -> <<>>

mkfsStages(pt, device) ==
    LET fs == Mounted(pt)
        stage(p) == CASE p.fs = "xfs" -> NewMkfsXfsStage(device)
                      [] p.fs = "vfat" -> NewMkfsFATStage(device)
                      [] p.fs = "btrfs" -> NewMkfsBtrfsStage(device)
                      [] p.fs = "ext4" -> NewMkfsExt4Stage(device)
    IN  [i \in DOMAIN fs |-> stage(fs[i])]

WholeTree == {<<Tree, Tree>>}

liveImagePipeline(input, filename, pt, arch, kernelVer) ==
    Pipeline("image",
        <<NewTruncateStage(filename), NewSfdiskStage(sfdiskStageOptions(pt), Loopback(filename))>>
          \o mkfsStages(pt, Loopback(filename))
          \o <<NewCopyStage(WholeTree, copyPipelineTreeInputs(input), copyFSTreeOptions(pt))>>
          \o bootloaderInstStage(filename, pt, arch, kernelVer))

xzArchivePipeline(input, inputFilename, filename) ==
    Pipeline("archive", <<NewXzStage(filename, NewFilesInputReferencesPipeline(input, inputFilename))>>)

qemuPipeline(input, inputFilename, filename, format) ==
    Pipeline(format, <<NewQEMUStage(filename, format, qemuStageInputs(input, inputFilename))>>)

tarStage(source, filename) == NewTarStage(filename, NewTreeInput(source))

(***************************************************************************)
(* Disk images: the tree, then the disk it is copied to, then its format.  *)
(* The SELinux stage labels what all others have written.                  *)
(***************************************************************************)
customKernel(c, specs) == kernelVerStr(specs[blueprintPkgsKey], GetKernel(c).Name)

bootableTree(t, c, specs, pt, tree) ==
    AddStages(tree, <<NewFSTabStage(FSTabStageOptionsV2(pt)),
                      bootloaderConfigStage(t, pt, GetKernel(c), customKernel(c, specs), FALSE),
                      NewSELinuxStage(selinuxStageOptions(FALSE))>>)

prependKernelCmdlineStage(p, t) ==
    [p EXCEPT !.Stages = When(t.arch.name = S390x, <<NewKernelCmdlineStage>>) \o @]

osTree(t, c, options, specs) == osPipeline(t, c, options, specs[osPkgsKey], specs[blueprintPkgsKey])

qemuImagePipelines(t, c, specs, pt, tree, format) ==
    <<buildPipeline(specs[buildPkgsKey]),
      bootableTree(t, c, specs, pt, tree),
      liveImagePipeline("os", "disk.img", pt, t.arch, customKernel(c, specs)),
      qemuPipeline("image", "disk.img", t.filename, format)>>

qcow2Pipelines(t, c, options, specs) ==
    LET pt == getPartitionTable(t, GetFilesystems(c))
        tree == AddStages(prependKernelCmdlineStage(osTree(t, c, options, specs), t),
                          When(~options.Subscription, <<NewRHSMStage>>))
    IN  qemuImagePipelines(t, c, specs, pt, tree, "qcow2")

vhdPipelines(t, c, options, specs) ==
    qemuImagePipelines(t, c, specs, getPartitionTable(t, GetFilesystems(c)), osTree(t, c, options, specs), "vpc")

vmdkPipelines(t, c, options, specs) ==
    qemuImagePipelines(t, c, specs, getPartitionTable(t, GetFilesystems(c)), osTree(t, c, options, specs), "vmdk")

openstackPipelines(t, c, options, specs) ==
    qemuImagePipelines(t, c, specs, getPartitionTable(t, GetFilesystems(c)), osTree(t, c, options, specs), "qcow2")

(***************************************************************************)
(* Images for EC2.                                                         *)
(***************************************************************************)
\* mutant: /boot is taken to be on the root partition
ec2FixBLSPrefix_Root(pt) == "/boot"

ec2FixBLSPrefix(pt) == IF HasBootPartition(pt) THEN "" ELSE "/boot"

ec2Services(t, c) ==
    systemdStages(t, c)
      \o When(HasFirewall(c), <<NewFirewallStage>>)
      \o <<NewSystemdLogindStage, NewSysconfigStage, NewCloudInitStage, NewModprobeStage, NewDracutConfStage,
           NewSystemdUnitStage("nm-cloud-setup.service"), NewAuthselectStage>>

ec2BaseTreePipeline(t, c, options, packages, bpPackages, pt) ==
    Pipeline("os",
        <<NewRPMStage(rpmStageInputs(osPackages(packages, bpPackages))), NewFixBLSStage(ec2FixBLSPrefix(pt)),
          NewLocaleStage, NewKeymapStage>>
          \o When(HasHostname(c), <<NewHostnameStage>>)
          \o <<NewTimezoneStage, NewChronyStage>>
          \o usersStages(c)
          \o ec2Services(t, c)
          \o When(isRHEL(t.arch.distro), <<IF options.Subscription THEN NewFirstBootStage ELSE NewRHSMStage>>))

ec2X86_64BaseTreePipeline(t, c, options, packages, bpPackages, pt) ==
    AddStages(ec2BaseTreePipeline(t, c, options, packages, bpPackages, pt), <<NewDracutConfStage>>)

ec2Tree(t, c, options, specs, pt) ==
    CASE t.arch.name = X86_64 -> ec2X86_64BaseTreePipeline(t, c, options, specs[osPkgsKey], specs[blueprintPkgsKey], pt)
      [] t.arch.name = Aarch64 -> ec2BaseTreePipeline(t, c, options, specs[osPkgsKey], specs[blueprintPkgsKey], pt)

ec2CommonPipelines(t, c, options, specs, diskfile) ==
    LET pt == getPartitionTable(t, GetFilesystems(c))
    IN  <<buildPipeline(specs[buildPkgsKey]),
          bootableTree(t, c, specs, pt, ec2Tree(t, c, options, specs, pt)),
          liveImagePipeline("os", diskfile, pt, t.arch, customKernel(c, specs))>>

sapStages ==
    <<NewSELinuxConfigStage, NewTunedStage("sap-hana"), NewTmpfilesdStage, NewPamLimitsConfStage, NewSysctldStage,
      NewDNFConfigStage>>

ec2SapPipelines(t, c, options, specs, diskfile) ==
    LET pt == getPartitionTable(t, GetFilesystems(c))
        tree == prependKernelCmdlineStage(AddStages(ec2Tree(t, c, options, specs, pt), sapStages), t)
    IN  <<buildPipeline(specs[buildPkgsKey]),
          bootableTree(t, c, specs, pt, tree),
          liveImagePipeline("os", diskfile, pt, t.arch, customKernel(c, specs))>>

ec2Pipelines(t, c, options, specs) == ec2CommonPipelines(t, c, options, specs, t.filename)

rhelEc2Pipelines(t, c, options, specs) ==
    LET pipelines == ec2CommonPipelines(t, c, options, specs, "image.raw")
    IN  Append(pipelines, xzArchivePipeline(Last(pipelines).Name, "image.raw", t.filename))

rhelEc2SapPipelines(t, c, options, specs) ==
    LET pipelines == ec2SapPipelines(t, c, options, specs, "image.raw")
    IN  Append(pipelines, xzArchivePipeline(Last(pipelines).Name, "image.raw", t.filename))

(***************************************************************************)
(* Archives, commits and containers.                                       *)
(***************************************************************************)
labelledTree(t, c, options, specs) ==
    AddStages(osTree(t, c, options, specs), <<NewSELinuxStage(selinuxStageOptions(FALSE))>>)

tarPipelines(t, c, options, specs) ==
    <<buildPipeline(specs[buildPkgsKey]),
      labelledTree(t, c, options, specs),
      Pipeline("root-tar", <<tarStage("os", "root.tar.xz")>>)>>

Pulls(options) == options.Parent # "" /\ options.URL # ""

ostreeTreePipeline(t, c, options, packages, bpPackages) ==
    Pipeline("ostree-tree",
        When(Pulls(options), <<NewOSTreePasswdStage(Source, options.Parent)>>)
          \o <<NewRPMStage(rpmStageInputs(osPackages(packages, bpPackages))), NewFixBLSStage("/boot"), NewLocaleStage>>
          \o When(HasKeyboard(c), <<NewKeymapStage>>)
          \o When(HasHostname(c), <<NewHostnameStage>>)
          \o <<NewTimezoneStage>>
          \o When(HasNTPServers(c), <<NewChronyStage>>)
          \o usersStages(c)
          \o When(GetUsers(c) # <<>>, <<NewFirstBootStage>>)
          \o systemdStages(t, c)
          \o When(HasFirewall(c), <<NewFirewallStage>>)
          \o <<NewSysconfigStage>>
          \o When(options.Subscription, <<NewFirstBootStage>>)
          \o <<NewSELinuxStage(selinuxStageOptions(FALSE)), NewOSTreePrepTreeStage>>)

ostreeCommitPipeline(options) ==
    Pipeline("ostree-commit",
        <<NewOSTreeInitStage("/repo"), NewOSTreeCommitStage(options.Parent, NewTreeInput("ostree-tree"))>>)

edgeCorePipelines(t, c, options, specs) ==
    <<buildPipeline(specs[buildPkgsKey]),
      ostreeTreePipeline(t, c, options, specs[osPkgsKey], specs[blueprintPkgsKey]),
      ostreeCommitPipeline(options)>>

edgeCommitPipelines(t, c, options, specs) ==
    Append(edgeCorePipelines(t, c, options, specs), Pipeline("commit-archive", <<tarStage("ostree-commit", t.filename)>>))

htmlRoot == "/usr/share/nginx/html"
htmlRepo == "/usr/share/nginx/html/repo"
nginxConfigPath == "/etc/nginx.conf"

containerTreePipeline(packages) ==
    Pipeline("container-tree",
        <<NewRPMStage(rpmStageInputs(packages)), NewLocaleStage, NewOSTreeInitStage(htmlRepo),
          NewOSTreePullStage(htmlRepo, ostreePullStageInputs("org.osbuild.pipeline", "ostree-commit")),
          NewChmodStage("/var/log/nginx"), NewNginxConfigStage(nginxConfigPath, htmlRoot)>>)

containerPipeline(t) ==
    Pipeline("container", <<NewOCIArchiveStage(t.filename, <<"nginx", nginxConfigPath>>, NewTreeInput("container-tree"))>>)

edgeContainerPipelines(t, c, options, specs) ==
    edgeCorePipelines(t, c, options, specs)
      \o <<containerTreePipeline(specs[containerPkgsKey]), containerPipeline(t)>>

(***************************************************************************)
(* Disk images of a commit.                                                *)
(***************************************************************************)
ostreeRepoPath == "/ostree/repo"

ostreeDeployPipeline(t, pt, options) ==
    Pipeline("image-tree",
        <<OSTreeInitFsStage,
          NewOSTreePullStage(ostreeRepoPath, ostreePullStageInputs(Source, options.Parent)),
          NewOSTreeOsInitStage("redhat"), NewOSTreeConfigStage(ostreeRepoPath), NewMkdirStage({"/boot/efi"}),
          NewOSTreeDeployStage("redhat", {"/boot", "/boot/efi"}), NewOSTreeFillvarStage("redhat"),
          NewFSTabStage(FSTabStageOptionsV2(pt)),
          bootloaderConfigStage(t, pt, NoCustomKernel, NoKernel, TRUE),
          NewOSTreeSelinuxStage("redhat")>>)

edgeImagePipelines(t, filename, options) ==
    LET pt == getPartitionTable(t, <<>>)
    IN  <<ostreeDeployPipeline(t, pt, options),
          liveImagePipeline("image-tree", "image.raw", pt, t.arch, NoKernel),
          xzArchivePipeline("image", "image.raw", filename)>>

edgeRawImagePipelines(t, c, options, specs) ==
    <<buildPipeline(specs[buildPkgsKey])>> \o edgeImagePipelines(t, t.filename, options)

(***************************************************************************)
(* Installers.  A URL of the kickstart file is a path on the medium, under *)
(* /run/install/repo, or in the tree that the installer runs from.         *)
(***************************************************************************)
\* mutant: the path is one of the tree that the installer runs from
makeISORootPath_Installer(path) == [on |-> "installer", path |-> path]

makeISORootPath(path) == [on |-> "medium", path |-> path]

ostreePayloadStages(options) ==
    <<NewOSTreeInitStage(ostreeRepoPath),
      NewOSTreePullStage(ostreeRepoPath, ostreePullStageInputs(Source, options.Parent))>>

anacondaTreePipeline(packages, kernelVer, arch) ==
    Pipeline("anaconda-tree",
        <<NewRPMStage(rpmStageInputs(packages)), NewBuildstampStage, NewLocaleStage,
          NewUsersStage([root |-> "", install |-> ""]), NewAnacondaStage, NewLoraxScriptStage,
          dracutStageOptions(kernelVer, arch, {"anaconda"})>>)

bootISOTreePipeline(kernelVer, arch, vendor, label, ksOptions, payloadStages) ==
    Pipeline("bootiso-tree",
        <<NewBootISOMonoStage(bootISOMonoStageOptions(kernelVer, arch, vendor, label), bootISOMonoStageInputs),
          NewKickstartStage(ksOptions), NewDiscinfoStage>>
          \o payloadStages)

bootISOPipeline(filename, tmpl, arch, isolinux) ==
    Pipeline("bootiso",
        <<NewXorrisofsStage(xorrisofsStageOptions(filename, tmpl, arch, isolinux), xorrisofsStageInputs("bootiso-tree")),
          NewImplantisomd5Stage(filename)>>)

installerKernel(specs) == kernelVerStr(specs[installerPkgsKey], "kernel")

edgeInstallerPipelines(t, c, options, specs) ==
    LET label == isolabel(t.arch.distro.isolabelTmpl, t.arch.name)
        kernelVer == installerKernel(specs)
    IN  <<buildPipeline(specs[buildPkgsKey]),
          anacondaTreePipeline(specs[installerPkgsKey], kernelVer, t.arch.name),
          bootISOTreePipeline(kernelVer, t.arch.name, t.arch.distro.vendor, label,
                              ostreeKickstartStageOptions(makeISORootPath(ostreeRepoPath)),
                              ostreePayloadStages(options)),
          bootISOPipeline(t.filename, t.arch.distro.isolabelTmpl, t.arch.name, FALSE)>>

tarPath == "/liveimg.tar"

tarInstallerPipelines(t, c, options, specs) ==
    LET label == isolabel(t.arch.distro.isolabelTmpl, t.arch.name)
        kernelVer == installerKernel(specs)
    IN  <<buildPipeline(specs[buildPkgsKey]),
          labelledTree(t, c, options, specs),
          anacondaTreePipeline(specs[installerPkgsKey], kernelVer, t.arch.name),
          bootISOTreePipeline(kernelVer, t.arch.name, t.arch.distro.vendor, label,
                              tarKickstartStageOptions(makeISORootPath(tarPath)),
                              <<tarStage("os", tarPath)>>),
          bootISOPipeline(t.filename, t.arch.distro.isolabelTmpl, t.arch.name, TRUE)>>

(***************************************************************************)
(* The simplified installer: an ISO that holds the disk image of a commit. *)
(***************************************************************************)
simplifiedInstallerTreePipeline(packages, kernelVer, arch) ==
    Pipeline("coi-tree",
        <<NewRPMStage(rpmStageInputs(packages)), NewBuildstampStage, NewLocaleStage,
          NewSystemdStage(systemdStageOptions({"coreos-installer"}, {}, {}, "")),
          dracutStageOptions(kernelVer, arch, {"rdcore"})>>)

simplifiedInstallerEFIBootTreePipeline(installDevice, kernelVer, arch, vendor, label) ==
    Pipeline("efiboot-tree", <<NewGrubISOStage(grubISOStageOptions(installDevice, kernelVer, arch, vendor, label))>>)

efibootTable == <<[Data(RootMount) EXCEPT !.fs = "vfat"]>>

efiboot == "images/efiboot.img"

simplifiedInstallerBootISOTreePipeline(archive, kver) ==
    Pipeline("bootiso-tree",
        <<NewCopyStageSimple({<<File("disk.img.xz"), File("/disk.img.xz")>>},
                             NewFilesInputReferencesPipeline(archive, "disk.img.xz")),
          NewMkdirStage({"images", "images/pxeboot"}),
          NewTruncateStage(efiboot)>>
          \o mkfsStages(efibootTable, Loopback(efiboot))
          \o <<NewCopyStage(WholeTree, copyPipelineTreeInputs("efiboot-tree"), copyFSTreeOptions(efibootTable)),
               NewCopyStageSimple({<<Kernel(kver), File("/images/pxeboot/vmlinuz")>>,
                                   <<Initramfs(kver), File("/images/pxeboot/initrd.img")>>},
                                  copyPipelineTreeInputs("coi-tree")),
               NewCopyStageSimple({<<File("/EFI"), File("/EFI")>>}, copyPipelineTreeInputs("efiboot-tree"))>>)

edgeSimplifiedInstallerPipelines(t, c, options, specs) ==
    LET label == isolabel(t.arch.distro.isolabelTmpl, t.arch.name)
        kernelVer == installerKernel(specs)
    IN  <<buildPipeline(specs[buildPkgsKey])>>
          \o edgeImagePipelines(t, "disk.img.xz", options)
          \o <<simplifiedInstallerTreePipeline(specs[installerPkgsKey], kernelVer, t.arch.name),
               simplifiedInstallerEFIBootTreePipeline(GetInstallationDevice(c), kernelVer, t.arch.name,
                                                      t.arch.distro.vendor, label),
               simplifiedInstallerBootISOTreePipeline("archive", kernelVer),
               bootISOPipeline(t.filename, t.arch.distro.isolabelTmpl, t.arch.name, FALSE)>>

-----------------------------------------------------------------------------
(***************************************************************************)
(* The image types of newDistro.                                           *)
(***************************************************************************)
architecture(d, name) ==
    [distro |-> d, name |-> name,
     legacy |-> CASE name = X86_64 -> "i386-pc" [] name = Ppc64le -> "powerpc-ieee1275" [] OTHER -> "",
     bootType |-> CASE name = X86_64 -> "hybrid" [] name = Aarch64 -> "uefi" [] OTHER -> "legacy"]

imageType ==
    [name |-> "", nameAliases |-> {}, filename |-> "", packageSets |-> [build |-> "distroBuild"],
     enabledServices |-> {}, disabledServices |-> {}, defaultTarget |-> "", exports |-> <<"assembler">>,
     pipelines |-> "", bootISO |-> FALSE, rpmOstree |-> FALSE, bootable |-> FALSE, bootType |-> "",
     basePartitionTables |-> ""]

edgeServices == {"NetworkManager.service", "firewalld.service", "sshd.service"}

edgeCommitImgType ==
    [imageType EXCEPT !.name = "edge-commit", !.nameAliases = {"rhel-edge-commit"}, !.filename = "commit.tar",
        !.packageSets = [build |-> "edgeBuild", packages |-> "edgeCommit"], !.enabledServices = edgeServices,
        !.rpmOstree = TRUE, !.pipelines = "edgeCommit", !.exports = <<"commit-archive">>]

edgeOCIImgType ==
    [imageType EXCEPT !.name = "edge-container", !.nameAliases = {"rhel-edge-container"}, !.filename = "container.tar",
        !.packageSets = [build |-> "edgeBuild", packages |-> "edgeCommit", container |-> "container"],
        !.enabledServices = edgeServices, !.rpmOstree = TRUE, !.pipelines = "edgeContainer",
        !.exports = <<"container">>]

edgeRawImgType ==
    [imageType EXCEPT !.name = "edge-raw-image", !.nameAliases = {"rhel-edge-raw-image"}, !.filename = "image.raw.xz",
        !.packageSets = [build |-> "edgeRawImageBuild"], !.rpmOstree = TRUE, !.bootable = TRUE,
        !.pipelines = "edgeRawImage", !.exports = <<"archive">>, !.basePartitionTables = "edge"]

edgeInstallerImgType ==
    [imageType EXCEPT !.name = "edge-installer", !.nameAliases = {"rhel-edge-installer"}, !.filename = "installer.iso",
        !.packageSets = [build |-> "edgeInstallerBuild", packages |-> "edgeCommit", installer |-> "edgeInstaller"],
        !.enabledServices = edgeServices, !.rpmOstree = TRUE, !.bootISO = TRUE, !.pipelines = "edgeInstaller",
        !.exports = <<"bootiso">>]

edgeSimplifiedInstallerImgType ==
    [imageType EXCEPT !.name = "edge-simplified-installer", !.nameAliases = {"rhel-edge-simplified-installer"},
        !.filename = "simplified-installer.iso",
        !.packageSets = [build |-> "edgeInstallerBuild", installer |-> "edgeSimplifiedInstaller"],
        !.enabledServices = edgeServices, !.rpmOstree = TRUE, !.bootable = TRUE, !.bootISO = TRUE,
        !.pipelines = "edgeSimplifiedInstaller", !.exports = <<"bootiso">>, !.basePartitionTables = "edge"]

diskImgType(name, filename, packages, export) ==
    [imageType EXCEPT !.name = name, !.filename = filename,
        !.packageSets = [build |-> "distroBuild", packages |-> packages], !.bootable = TRUE, !.pipelines = name,
        !.exports = <<export>>, !.basePartitionTables = "default"]

qcow2ImgType ==
    [diskImgType("qcow2", "disk.qcow2", "qcow2Common", "qcow2") EXCEPT !.defaultTarget = "multi-user.target"]

vhdImgType ==
    [diskImgType("vhd", "disk.vhd", "vhdCommon", "vpc") EXCEPT
        !.enabledServices = {"sshd", "waagent"}, !.defaultTarget = "multi-user.target"]

vmdkImgType == diskImgType("vmdk", "disk.vmdk", "vmdkCommon", "vmdk")

openstackImgType == diskImgType("openstack", "disk.qcow2", "openstackCommon", "qcow2")

ec2EnabledServices ==
    {"sshd", "NetworkManager", "nm-cloud-setup.service", "nm-cloud-setup.timer", "cloud-init", "cloud-init-local",
     "cloud-config", "cloud-final", "reboot.target"}

amiImgTypeAarch64 ==
    [imageType EXCEPT !.name = "ami", !.filename = "image.raw",
        !.packageSets = [build |-> "ec2Build", packages |-> "ec2Common"], !.defaultTarget = "multi-user.target",
        !.enabledServices = ec2EnabledServices, !.bootable = TRUE, !.pipelines = "ec2", !.exports = <<"image">>,
        !.basePartitionTables = "ec2"]

amiImgTypeX86_64 == [amiImgTypeAarch64 EXCEPT !.bootType = "legacy"]

ec2ImgTypeAarch64 ==
    [amiImgTypeAarch64 EXCEPT !.name = "ec2", !.filename = "image.raw.xz",
        !.packageSets = [build |-> "ec2Build", packages |-> "rhelEc2"], !.pipelines = "rhelEc2",
        !.exports = <<"archive">>]

ec2ImgTypeX86_64 == [ec2ImgTypeAarch64 EXCEPT !.bootType = "legacy"]

ec2HaImgTypeX86_64 ==
    [ec2ImgTypeX86_64 EXCEPT !.name = "ec2-ha", !.packageSets = [build |-> "ec2Build", packages |-> "rhelEc2Ha"]]

ec2SapImgTypeX86_64 ==
    [ec2ImgTypeX86_64 EXCEPT !.name = "ec2-sap", !.packageSets = [build |-> "ec2Build", packages |-> "rhelEc2Sap"],
        !.pipelines = "rhelEc2Sap"]

tarImgType ==
    [imageType EXCEPT !.name = "tar", !.filename = "root.tar.xz",
        !.packageSets = [build |-> "distroBuild", packages |-> "tar"], !.pipelines = "tar", !.exports = <<"root-tar">>]

tarInstallerImgTypeX86_64 ==
    [imageType EXCEPT !.name = "image-installer", !.filename = "installer.iso",
        !.packageSets = [build |-> "anacondaBuild", packages |-> "bareMetal", installer |-> "anaconda"],
        !.bootISO = TRUE, !.bootable = TRUE, !.pipelines = "tarInstaller", !.exports = <<"bootiso">>]

edgeImageTypes ==
    {edgeCommitImgType, edgeInstallerImgType, edgeOCIImgType, edgeRawImgType, edgeSimplifiedInstallerImgType}

imageTypes(d, arch) ==
    CASE arch = X86_64 ->
            {qcow2ImgType, vhdImgType, vmdkImgType, openstackImgType, amiImgTypeX86_64, tarImgType,
             tarInstallerImgTypeX86_64}
              \cup edgeImageTypes
              \cup (IF isRHEL(d) THEN {ec2ImgTypeX86_64, ec2HaImgTypeX86_64, ec2SapImgTypeX86_64} ELSE {})
      [] arch = Aarch64 ->
            {qcow2ImgType, openstackImgType, amiImgTypeAarch64, tarImgType} \cup edgeImageTypes
              \cup (IF isRHEL(d) THEN {ec2ImgTypeAarch64} ELSE {})
      [] arch = Ppc64le -> {qcow2ImgType, tarImgType}
      [] arch = S390x -> IF isRHEL(d) THEN {qcow2ImgType, tarImgType} ELSE {}

GetImageType(d, arch, name) ==
    LET t == CHOOSE t \in imageTypes(d, arch) : t.name = name \/ name \in t.nameAliases
    IN  [field \in DOMAIN t \cup {"arch"} |-> IF field = "arch" THEN architecture(d, arch) ELSE t[field]]

-----------------------------------------------------------------------------
(***************************************************************************)
(* The checks of a request, and the manifest of one that passes them.      *)
(***************************************************************************)
mountpointAllowList == {<<>>, <<"var">>, <<"opt">>, <<"srv">>, <<"usr">>, <<"app">>, <<"data">>, <<"home">>}

\* two slashes in a row leave an empty component that is not the last one
isMountpointAllowed(m) ==
    \/ m \in mountpointAllowList
    \/ /\ Len(m) > 1 /\ <<m[1]>> \in mountpointAllowList
       /\ \A i \in 1 .. Len(m) - 1 : m[i] # ""

checkOptions(t, c, options) ==
    /\ t.bootISO /\ t.rpmOstree =>
         /\ options.Parent # ""
         /\ IF t.name = "edge-simplified-installer" THEN CheckAllowed(c, {"device"}) ELSE c = NoCustomizations
    /\ t.name = "edge-raw-image" => options.Parent # ""
    /\ ~(GetKernel(c).Append /\ t.rpmOstree /\ (~t.bootable \/ t.bootISO))
    /\ ~(GetFilesystems(c) # <<>> /\ t.rpmOstree)
    /\ \A m \in ToSet(GetFilesystems(c)) : isMountpointAllowed(m)

pipelines(t, c, options, specs) ==
    CASE t.pipelines = "qcow2" -> qcow2Pipelines(t, c, options, specs)
      [] t.pipelines = "vhd" -> vhdPipelines(t, c, options, specs)
      [] t.pipelines = "vmdk" -> vmdkPipelines(t, c, options, specs)
      [] t.pipelines = "openstack" -> openstackPipelines(t, c, options, specs)
      [] t.pipelines = "ec2" -> ec2Pipelines(t, c, options, specs)
      [] t.pipelines = "rhelEc2" -> rhelEc2Pipelines(t, c, options, specs)
      [] t.pipelines = "rhelEc2Sap" -> rhelEc2SapPipelines(t, c, options, specs)
      [] t.pipelines = "tar" -> tarPipelines(t, c, options, specs)
      [] t.pipelines = "tarInstaller" -> tarInstallerPipelines(t, c, options, specs)
      [] t.pipelines = "edgeCommit" -> edgeCommitPipelines(t, c, options, specs)
      [] t.pipelines = "edgeContainer" -> edgeContainerPipelines(t, c, options, specs)
      [] t.pipelines = "edgeRawImage" -> edgeRawImagePipelines(t, c, options, specs)
      [] t.pipelines = "edgeInstaller" -> edgeInstallerPipelines(t, c, options, specs)
      [] t.pipelines = "edgeSimplifiedInstaller" -> edgeSimplifiedInstallerPipelines(t, c, options, specs)

(***************************************************************************)
(* Everything any set was depsolved to is a source, and the parent commit  *)
(* if a URL for it is known.                                               *)
(***************************************************************************)
sources(specs, commits) ==
    {Rpm(spec) : spec \in UNION {specs[name] : name \in DOMAIN specs}} \cup {OSTreeCommit(commit) : commit \in commits}

Manifest(t, c, options, specs) ==
    [pipelines |-> pipelines(t, c, options, specs),
     sources |-> sources(specs, IF Pulls(options) THEN {options.Parent} ELSE {})]
=============================================================================
