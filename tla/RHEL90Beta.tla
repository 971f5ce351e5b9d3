------------------------------ MODULE RHEL90Beta ------------------------------
(***************************************************************************)
(* The distribution of internal/distro/rhel90beta.  Its package sets are   *)
(* put together from those of the image type, the architecture and the     *)
(* distribution; an installer carries its payload in the tree that it runs *)
(* from; there are no disk images of commits.  What the code has in common *)
(* with rhel86, line by line, is taken from RHEL86.                        *)
(***************************************************************************)
EXTENDS Osbuild, Customizations

R86 == INSTANCE RHEL86

buildPkgsKey == "build"
bootLegacyPkgsKey == "boot.legacy"
bootUEFIPkgsKey == "boot.uefi"
osPkgsKey == "packages"
edgePkgsKey == "edge"
edgeBuildPkgsKey == "build.edge"
containerPkgsKey == "container"
installerPkgsKey == "installer"
blueprintPkgsKey == "blueprint"

X86_64 == "x86_64"
Aarch64 == "aarch64"
Ppc64le == "ppc64le"
S390x == "s390x"

isolabelTmpl == "RHEL-9-0-0-BaseOS"

Only(packages) == R86!PackageSet(packages, {})

-----------------------------------------------------------------------------
(***************************************************************************)
(* Package sets of the distribution and of the architectures.              *)
(***************************************************************************)
distroBuildPackageSet ==
    Only({"dnf", "dosfstools", "e2fsprogs", "lorax-templates-generic", "lorax-templates-rhel", "policycoreutils",
          "qemu-img", "selinux-policy-targeted", "systemd", "tar", "xfsprogs", "xz"})

x8664BuildPackageSet == Only({"grub2-pc"})

ppc64leBuildPackageSet == Only({"grub2-ppc64le", "grub2-ppc64le-modules"})

ec2BuildPackageSet == Only({"python3-pyyaml"})

edgeBuildPackageSet == Only({"rpm-ostree"})

x8664InstallerBuildPackageSet ==
    Only({"efibootmgr", "grub2-efi-ia32-cdboot", "grub2-efi-x64", "grub2-efi-x64-cdboot", "grub2-pc",
          "grub2-pc-modules", "grub2-tools", "isomd5sum", "rpm-ostree", "shim-ia32", "shim-x64", "squashfs-tools",
          "syslinux", "syslinux-nonlinux", "xorriso"})

x8664LegacyBootPackageSet == Only({"dracut-config-generic", "grub2-pc"})

x8664UEFIBootPackageSet == Only({"dracut-config-generic", "grub2-efi-x64", "shim-x64"})

aarch64UEFIBootPackageSet ==
    Only({"dracut-config-generic", "efibootmgr", "grub2-efi-aa64", "grub2-tools", "shim-aa64"})

ppc64leLegacyBootPackageSet ==
    Only({"dracut-config-generic", "powerpc-utils", "grub2-ppc64le", "grub2-ppc64le-modules"})

s390xLegacyBootPackageSet == Only({"dracut-config-generic", "s390utils-base"})

x8664EdgeCommitPackageSet == Only({"grub2", "grub2-efi-x64", "efibootmgr", "shim-x64", "iwl-firmware"})

aarch64EdgeCommitPackageSet == Only({"grub2-efi-aa64", "efibootmgr", "shim-aa64", "iwl-firmware"})

distroSets(name) ==
    CASE name = buildPkgsKey -> distroBuildPackageSet
      [] name = edgeBuildPkgsKey -> edgeBuildPackageSet
      [] OTHER -> R86!NoPackages

archSets(arch, name) ==
    CASE arch = X86_64 /\ name = buildPkgsKey -> x8664BuildPackageSet
      [] arch = X86_64 /\ name = bootLegacyPkgsKey -> x8664LegacyBootPackageSet
      [] arch = X86_64 /\ name = bootUEFIPkgsKey -> x8664UEFIBootPackageSet
      [] arch = X86_64 /\ name = edgePkgsKey -> x8664EdgeCommitPackageSet
      [] arch = Aarch64 /\ name = bootUEFIPkgsKey -> aarch64UEFIBootPackageSet
      [] arch = Aarch64 /\ name = edgePkgsKey -> aarch64EdgeCommitPackageSet
      [] arch = Ppc64le /\ name = buildPkgsKey -> ppc64leBuildPackageSet
      [] arch = Ppc64le /\ name = bootLegacyPkgsKey -> ppc64leLegacyBootPackageSet
      [] arch = S390x /\ name = bootLegacyPkgsKey -> s390xLegacyBootPackageSet
      [] OTHER -> R86!NoPackages

(***************************************************************************)
(* Package sets of image types.                                            *)
(***************************************************************************)
qcow2CommonPackageSet ==
    R86!PackageSet(
        {"@core", "authselect-compat", "chrony", "cloud-init", "dnf", "dosfstools", "insights-client",
         "NetworkManager", "nfs-utils", "subscription-manager-cockpit", "tar"},
        {"iwl-firmware", "libertas-firmware", "alsa-firmware", "alsa-lib", "biosdevname", "dracut-config-rescue",
         "firewalld", "langpacks-en", "nss", "plymouth", "rng-tools", "udisks2"})

vhdCommonPackageSet ==
    R86!PackageSet({"@core", "langpacks-en", "selinux-policy-targeted", "chrony", "WALinuxAgent", "cloud-init", "gdisk"},
                   {"dracut-config-rescue", "rng-tools"})

vmdkCommonPackageSet ==
    R86!PackageSet({"@core", "chrony", "firewalld", "langpacks-en", "selinux-policy-targeted"},
                   {"dracut-config-rescue", "rng-tools"})

openstackCommonPackageSet ==
    R86!PackageSet({"@core", "langpacks-en", "selinux-policy-targeted", "cloud-init"},
                   {"dracut-config-rescue", "rng-tools"})

ec2CommonPackageSet ==
    R86!PackageSet(
        {"@core", "authselect-compat", "chrony", "cloud-init", "dracut-config-generic", "gdisk", "grub2",
         "insights-client", "langpacks-en", "NetworkManager", "NetworkManager-cloud-setup", "tar"},
        {"iwl-firmware", "libertas-firmware", "alsa-firmware", "biosdevname", "firewalld", "plymouth"})

rhelEc2PackageSet ==
    R86!AppendSet(ec2CommonPackageSet, R86!PackageSet({"rh-amazon-rhui-client"}, {"alsa-lib"}))

rhelEc2HaPackageSet ==
    R86!AppendSet(ec2CommonPackageSet, R86!PackageSet({"pacemaker", "rh-amazon-rhui-client-ha"}, {"alsa-lib"}))

rhelEc2SapPackageSet ==
    R86!Includes(ec2CommonPackageSet,
                 {"nfs-utils", "tuned-profiles-sap-hana", "rh-amazon-rhui-client-sap-bundle-e4s"})

edgeCommitPackageSet ==
    R86!PackageSet(
        {"dracut-config-generic", "chrony", "systemd", "rpm-ostree", "e2fsprogs", "dosfstools", "xz", "firewalld",
         "NetworkManager", "openssh-server", "policycoreutils", "selinux-policy-targeted", "tar", "fwupd",
         "greenboot", "greenboot-grub2", "greenboot-rpm-ostree-grub2", "greenboot-reboot", "greenboot-status"},
        {"rng-tools"})

installerPackageSet ==
    Only({"alsa-firmware", "anaconda", "anaconda-dracut", "biosdevname", "dnf", "dracut-config-generic",
          "dracut-network", "efibootmgr", "gdisk", "grub2-efi-ia32-cdboot", "grub2-efi-x64-cdboot", "grub2-tools",
          "iwl-firmware", "kernel", "nfs-utils", "openssh-server", "ostree", "plymouth", "prefixdevname", "rng-tools",
          "rpm-ostree", "selinux-policy-targeted", "shim-ia32", "shim-x64", "syslinux", "systemd", "tar", "udisks2",
          "xfsprogs", "xz"})

edgeInstallerPackageSet == installerPackageSet

bareMetalPackageSet ==
    Only({"@core", "authselect-compat", "chrony", "dnf", "dosfstools", "insights-client", "iwl-firmware",
          "NetworkManager", "nfs-utils", "policycoreutils", "selinux-policy-targeted",
          "subscription-manager-cockpit", "tar"})

imageSets(t, name) ==
    LET set == IF name \in DOMAIN t.packageSets THEN t.packageSets[name] ELSE ""
    IN  CASE set = "" -> R86!NoPackages
          [] set = "ec2Build" -> ec2BuildPackageSet
          [] set = "edgeBuild" -> edgeBuildPackageSet
          [] set = "installerBuild" -> x8664InstallerBuildPackageSet
          [] set = "edgeInstallerBuild" -> R86!AppendSet(x8664InstallerBuildPackageSet, edgeBuildPackageSet)
          [] set = "qcow2Common" -> qcow2CommonPackageSet
          [] set = "vhdCommon" -> vhdCommonPackageSet
          [] set = "vmdkCommon" -> vmdkCommonPackageSet
          [] set = "openstackCommon" -> openstackCommonPackageSet
          [] set = "ec2Common" -> ec2CommonPackageSet
          [] set = "rhelEc2" -> rhelEc2PackageSet
          [] set = "rhelEc2Ha" -> rhelEc2HaPackageSet
          [] set = "rhelEc2Sap" -> rhelEc2SapPackageSet
          [] set = "edgeCommit" -> edgeCommitPackageSet
          [] set = "container" -> Only({"httpd"})
          [] set = "installer" -> installerPackageSet
          [] set = "edgeInstaller" -> edgeInstallerPackageSet
          [] set = "bareMetal" -> bareMetalPackageSet
          [] set = "tar" -> R86!PackageSet({"policycoreutils", "selinux-policy-targeted"}, {"rng-tools"})

(***************************************************************************)
(* The sets that are depsolved: first those of the same name are merged,   *)
(* then the flags of the image type add to the build root and to the       *)
(* operating system.                                                       *)
(***************************************************************************)
archAndDistro(t, name) == R86!AppendSet(archSets(t.arch.name, name), distroSets(name))

mergedSets(t, name) == R86!AppendSet(imageSets(t, name), archAndDistro(t, name))

legacyBootSets(t) ==
    IF t.bootable /\ R86!getBootType(t) \in {"legacy", "hybrid"} THEN archAndDistro(t, bootLegacyPkgsKey)
    ELSE R86!NoPackages

uefiBootSets(t) ==
    IF t.bootable /\ R86!supportsUEFI(t) THEN archAndDistro(t, bootUEFIPkgsKey) ELSE R86!NoPackages

ostreeSets(t, name) == IF t.rpmOstree THEN archAndDistro(t, name) ELSE R86!NoPackages

PackageSets(t, bp) ==
    [name \in DOMAIN t.packageSets \cup {osPkgsKey, buildPkgsKey, blueprintPkgsKey} |->
        CASE name = blueprintPkgsKey -> Only(R86!blueprintPackages(bp))
          [] name = buildPkgsKey -> R86!AppendSet(mergedSets(t, name), ostreeSets(t, edgeBuildPkgsKey))
          [] name = osPkgsKey ->
                R86!Includes(R86!AppendSet(R86!AppendSet(mergedSets(t, name), ostreeSets(t, edgePkgsKey)),
                                           R86!AppendSet(legacyBootSets(t), uefiBootSets(t))),
                             {GetKernel(bp.c).Name})
          [] OTHER -> mergedSets(t, name)]

-----------------------------------------------------------------------------
(***************************************************************************)
(* Options of stages.                                                      *)
(***************************************************************************)
dracutStageOptions(kernelVer) ==
    NewDracutStage(kernelVer, {"anaconda", "rngd", "plymouth", "prefixdevname", "nfs", "biosdevname"})

bootISOMonoStageOptions(kernelVer, arch) ==
    LET label == R86!isolabel(isolabelTmpl, arch)
    IN  [kernel |-> kernelVer, isolabel |-> label, label |-> label, ks |-> R86!kspath,
         architectures |-> {"IA32", "X64"}, vendor |-> "redhat", isolinux |-> TRUE]

xorrisofsStageOptions(filename, arch) ==
    [filename |-> filename, volid |-> R86!isolabel(isolabelTmpl, arch), efi |-> "images/efiboot.img", isolinux |-> TRUE]

grub2StageOptions(pt, kernel, kernelVer, uefi, legacy) ==
    R86!grub2StageOptions(pt, kernel, kernelVer, uefi, legacy, "redhat", FALSE)

grub2InstStageOptions(filename, pt, platform) ==
    [filename |-> filename, platform |-> platform, location |-> 1, number |-> R86!BootPartitionIndex(pt),
     path |-> "/boot/grub2"]

-----------------------------------------------------------------------------
(***************************************************************************)
(* Pipelines that several image types have.                                *)
(***************************************************************************)
kernelVerStr(specs, kernelName) == R86!kernelVerStr(specs, kernelName)

buildPipeline(specs) == R86!buildPipeline(specs)

osPipeline(t, c, options, packages, bpPackages) == R86!osPipeline(t, c, options, packages, bpPackages)

bootloaderConfigStage(t, pt, kernel, kernelVer) ==
    IF t.arch.name = S390x THEN NewZiplStage
    ELSE NewGRUB2Stage(grub2StageOptions(pt, kernel, kernelVer, R86!supportsUEFI(t), t.arch.legacy))

bootloaderInstStage(filename, pt, arch, kernelVer) ==
    CASE arch.legacy # "" -> <<NewGrub2InstStage(grub2InstStageOptions(filename, pt, arch.legacy))>>
      [] arch.legacy = "" /\ arch.name = S390x -> <<NewZiplInstStage(R86!ziplInstStageOptions(kernelVer, pt))>>
      [] OTHER -> <<>>

mkfsStages(pt, device) == R86!mkfsStages(pt, device)

liveImagePipeline(input, filename, pt, arch, kernelVer) ==
    Pipeline("image",
        <<NewTruncateStage(filename), NewSfdiskStage(R86!sfdiskStageOptions(pt), Loopback(filename))>>
          \o mkfsStages(pt, Loopback(filename))
          \o <<NewCopyStage(R86!WholeTree, R86!copyPipelineTreeInputs(input), R86!copyFSTreeOptions(pt))>>
          \o bootloaderInstStage(filename, pt, arch, kernelVer))

xzArchivePipeline(input, inputFilename, filename) == R86!xzArchivePipeline(input, inputFilename, filename)

qemuPipeline(input, inputFilename, filename, format) == R86!qemuPipeline(input, inputFilename, filename, format)

tarStage(source, filename) == R86!tarStage(source, filename)

(***************************************************************************)
(* Disk images.  The kernel command line is written before the kernel is   *)
(* installed, on every architecture.                                       *)
(***************************************************************************)
customKernel(c, specs) == kernelVerStr(specs[blueprintPkgsKey], GetKernel(c).Name)

bootableTree(t, c, specs, pt, tree) ==
    AddStages(tree, <<NewFSTabStage(R86!FSTabStageOptionsV2(pt)),
                      bootloaderConfigStage(t, pt, GetKernel(c), customKernel(c, specs)),
                      NewSELinuxStage(R86!selinuxStageOptions(FALSE))>>)

prependKernelCmdlineStage(p) == [p EXCEPT !.Stages = <<NewKernelCmdlineStage>> \o @]

osTree(t, c, options, specs) == osPipeline(t, c, options, specs[osPkgsKey], specs[blueprintPkgsKey])

qemuImagePipelines(t, c, specs, pt, tree, format) ==
    <<buildPipeline(specs[buildPkgsKey]),
      bootableTree(t, c, specs, pt, tree),
      liveImagePipeline("os", "disk.img", pt, t.arch, customKernel(c, specs)),
      qemuPipeline("image", "disk.img", t.filename, format)>>

qcow2Pipelines(t, c, options, specs) ==
    LET tree == AddStages(prependKernelCmdlineStage(osTree(t, c, options, specs)),
                          When(~options.Subscription, <<NewRHSMStage>>))
    IN  qemuImagePipelines(t, c, specs, R86!getPartitionTable(t, GetFilesystems(c)), tree, "qcow2")

vhdPipelines(t, c, options, specs) ==
    qemuImagePipelines(t, c, specs, R86!getPartitionTable(t, GetFilesystems(c)),
                       prependKernelCmdlineStage(osTree(t, c, options, specs)), "vpc")

vmdkPipelines(t, c, options, specs) ==
    qemuImagePipelines(t, c, specs, R86!getPartitionTable(t, GetFilesystems(c)),
                       prependKernelCmdlineStage(osTree(t, c, options, specs)), "vmdk")

openstackPipelines(t, c, options, specs) ==
    qemuImagePipelines(t, c, specs, R86!getPartitionTable(t, GetFilesystems(c)),
                       prependKernelCmdlineStage(osTree(t, c, options, specs)), "qcow2")

(***************************************************************************)
(* Images for EC2.                                                         *)
(***************************************************************************)
ec2Services(t, c) == R86!ec2Services(t, c)

ec2BaseTreePipeline(t, c, options, packages, bpPackages, pt) ==
    Pipeline("os",
        <<NewRPMStage(R86!rpmStageInputs(R86!osPackages(packages, bpPackages))),
          NewFixBLSStage(R86!ec2FixBLSPrefix(pt)), NewLocaleStage, NewKeymapStage>>
          \o When(HasHostname(c), <<NewHostnameStage>>)
          \o <<NewTimezoneStage, NewChronyStage>>
          \o R86!usersStages(c)
          \o ec2Services(t, c)
          \o <<IF options.Subscription THEN NewFirstBootStage ELSE NewRHSMStage>>)

ec2X86_64BaseTreePipeline(t, c, options, packages, bpPackages, pt) ==
    AddStages(ec2BaseTreePipeline(t, c, options, packages, bpPackages, pt), <<NewDracutConfStage>>)

ec2Tree(t, c, options, specs, pt) ==
    CASE t.arch.name = X86_64 -> ec2X86_64BaseTreePipeline(t, c, options, specs[osPkgsKey], specs[blueprintPkgsKey], pt)
      [] t.arch.name = Aarch64 -> ec2BaseTreePipeline(t, c, options, specs[osPkgsKey], specs[blueprintPkgsKey], pt)

ec2CommonPipelines(t, c, options, specs, diskfile) ==
    LET pt == R86!getPartitionTable(t, GetFilesystems(c))
    IN  <<buildPipeline(specs[buildPkgsKey]),
          bootableTree(t, c, specs, pt, prependKernelCmdlineStage(ec2Tree(t, c, options, specs, pt))),
          liveImagePipeline("os", diskfile, pt, t.arch, customKernel(c, specs))>>

sapStages == R86!sapStages

ec2SapPipelines(t, c, options, specs, diskfile) ==
    LET pt == R86!getPartitionTable(t, GetFilesystems(c))
        tree == prependKernelCmdlineStage(AddStages(ec2Tree(t, c, options, specs, pt), sapStages))
    IN  <<buildPipeline(specs[buildPkgsKey]),
          bootableTree(t, c, specs, pt, tree),
          liveImagePipeline("os", diskfile, pt, t.arch, customKernel(c, specs))>>

ec2Pipelines(t, c, options, specs) == ec2CommonPipelines(t, c, options, specs, t.filename)

rhelEc2Pipelines(t, c, options, specs) ==
    Append(ec2CommonPipelines(t, c, options, specs, "image.raw"), xzArchivePipeline("image", "image.raw", t.filename))

rhelEc2SapPipelines(t, c, options, specs) ==
    Append(ec2SapPipelines(t, c, options, specs, "image.raw"), xzArchivePipeline("image", "image.raw", t.filename))

(***************************************************************************)
(* Archives, commits and containers.                                       *)
(***************************************************************************)
labelledTree(t, c, options, specs) ==
    AddStages(osTree(t, c, options, specs), <<NewSELinuxStage(R86!selinuxStageOptions(FALSE))>>)

tarPipelines(t, c, options, specs) ==
    <<buildPipeline(specs[buildPkgsKey]),
      labelledTree(t, c, options, specs),
      Pipeline("root-tar", <<tarStage("os", "root.tar.xz")>>)>>

ostreeTreePipeline(t, c, options, packages, bpPackages) ==
    R86!ostreeTreePipeline(t, c, [options EXCEPT !.Parent = ""], packages, bpPackages)

ostreeCommitPipeline(options) == R86!ostreeCommitPipeline(options)

edgeCorePipelines(t, c, options, specs) ==
    <<buildPipeline(specs[buildPkgsKey]),
      ostreeTreePipeline(t, c, options, specs[osPkgsKey], specs[blueprintPkgsKey]),
      ostreeCommitPipeline(options)>>

edgeCommitPipelines(t, c, options, specs) ==
    Append(edgeCorePipelines(t, c, options, specs), Pipeline("commit-archive", <<tarStage("ostree-commit", t.filename)>>))

htmlRepo == "/var/www/html/repo"

containerTreePipeline(packages) ==
    Pipeline("container-tree",
        <<NewRPMStage(R86!rpmStageInputs(packages)), NewLocaleStage, NewOSTreeInitStage(htmlRepo),
          NewOSTreePullStage(htmlRepo, R86!ostreePullStageInputs("org.osbuild.pipeline", "ostree-commit"))>>)

containerPipeline(t) ==
    Pipeline("container", <<NewOCIArchiveStage(t.filename, <<"httpd">>, NewTreeInput("container-tree"))>>)

edgeContainerPipelines(t, c, options, specs) ==
    edgeCorePipelines(t, c, options, specs)
      \o <<containerTreePipeline(specs[containerPkgsKey]), containerPipeline(t)>>

(***************************************************************************)
(* Installers: the payload comes into the tree of the installer, and the   *)
(* kickstart file names it there.                                          *)
(***************************************************************************)
ostreePayloadStages(options) == R86!ostreePayloadStages(options)

anacondaTreePipeline(packages, kernelVer, payloadStages) ==
    Pipeline("anaconda-tree",
        <<NewRPMStage(R86!rpmStageInputs(packages))>>
          \o payloadStages
          \o <<NewBuildstampStage, NewLocaleStage, NewUsersStage([root |-> "", install |-> ""]), NewAnacondaStage,
               NewLoraxScriptStage, dracutStageOptions(kernelVer)>>)

bootISOTreePipeline(kernelVer, arch, ksOptions) ==
    Pipeline("bootiso-tree",
        <<NewBootISOMonoStage(bootISOMonoStageOptions(kernelVer, arch), R86!bootISOMonoStageInputs),
          NewKickstartStage(ksOptions), NewDiscinfoStage>>)

bootISOPipeline(filename, arch) ==
    Pipeline("bootiso",
        <<NewXorrisofsStage(xorrisofsStageOptions(filename, arch), R86!xorrisofsStageInputs("bootiso-tree")),
          NewImplantisomd5Stage(filename)>>)

InInstaller(path) == [on |-> "installer", path |-> path]

edgeInstallerPipelines(t, c, options, specs) ==
    LET kernelVer == kernelVerStr(specs[installerPkgsKey], "kernel")
    IN  <<buildPipeline(specs[buildPkgsKey]),
          anacondaTreePipeline(specs[installerPkgsKey], kernelVer, ostreePayloadStages(options)),
          bootISOTreePipeline(kernelVer, t.arch.name, R86!ostreeKickstartStageOptions(InInstaller(R86!ostreeRepoPath))),
          bootISOPipeline(t.filename, t.arch.name)>>

tarInstallerPipelines(t, c, options, specs) ==
    LET kernelVer == kernelVerStr(specs[installerPkgsKey], "kernel")
    IN  <<buildPipeline(specs[buildPkgsKey]),
          labelledTree(t, c, options, specs),
          anacondaTreePipeline(specs[installerPkgsKey], kernelVer, <<tarStage("os", R86!tarPath)>>),
          bootISOTreePipeline(kernelVer, t.arch.name, R86!tarKickstartStageOptions(InInstaller(R86!tarPath))),
          bootISOPipeline(t.filename, t.arch.name)>>

-----------------------------------------------------------------------------
(***************************************************************************)
(* The image types of newDistro.                                           *)
(***************************************************************************)
rd == [name |-> "rhel-90-beta", vendor |-> "redhat", isolabelTmpl |-> isolabelTmpl]

architecture(name) == R86!architecture(rd, name)

edgeServices ==
    {"NetworkManager.service", "firewalld.service", "sshd.service", "greenboot-grub2-set-counter",
     "greenboot-grub2-set-success", "greenboot-healthcheck", "greenboot-rpm-ostree-grub2-check-fallback",
     "greenboot-status", "greenboot-task-runner", "redboot-auto-reboot", "redboot-task-runner"}

edgeCommitImgType == [R86!edgeCommitImgType EXCEPT !.enabledServices = edgeServices]

edgeOCIImgType == [R86!edgeOCIImgType EXCEPT !.enabledServices = edgeServices]

edgeInstallerImgType == [R86!edgeInstallerImgType EXCEPT !.enabledServices = edgeServices]

Packages(set) == [packages |-> set]

qcow2ImgType == [R86!qcow2ImgType EXCEPT !.packageSets = Packages("qcow2Common")]

vhdImgType == [R86!vhdImgType EXCEPT !.packageSets = Packages("vhdCommon")]

vmdkImgType == [R86!vmdkImgType EXCEPT !.packageSets = Packages("vmdkCommon")]

openstackImgType == [R86!openstackImgType EXCEPT !.packageSets = Packages("openstackCommon")]

amiImgTypeX86_64 == R86!amiImgTypeX86_64

amiImgTypeAarch64 == R86!amiImgTypeAarch64

ec2ImgTypeX86_64 == R86!ec2ImgTypeX86_64

ec2ImgTypeAarch64 == R86!ec2ImgTypeAarch64

ec2HaImgTypeX86_64 == R86!ec2HaImgTypeX86_64

ec2SapImgTypeX86_64 == R86!ec2SapImgTypeX86_64

tarImgType == [R86!tarImgType EXCEPT !.packageSets = Packages("tar")]

tarInstallerImgTypeX86_64 ==
    [R86!tarInstallerImgTypeX86_64 EXCEPT
        !.packageSets = [build |-> "installerBuild", packages |-> "bareMetal", installer |-> "installer"]]

imageTypes(arch) ==
    CASE arch = X86_64 ->
            {qcow2ImgType, vhdImgType, vmdkImgType, openstackImgType, amiImgTypeX86_64, ec2ImgTypeX86_64,
             ec2HaImgTypeX86_64, ec2SapImgTypeX86_64, tarImgType, tarInstallerImgTypeX86_64, edgeCommitImgType,
             edgeInstallerImgType, edgeOCIImgType}
      [] arch = Aarch64 ->
            {qcow2ImgType, openstackImgType, amiImgTypeAarch64, ec2ImgTypeAarch64, tarImgType, edgeCommitImgType,
             edgeOCIImgType}
      [] arch \in {Ppc64le, S390x} -> {qcow2ImgType, tarImgType}

GetImageType(arch, name) ==
    LET t == CHOOSE t \in imageTypes(arch) : t.name = name \/ name \in t.nameAliases
    IN  [field \in DOMAIN t \cup {"arch"} |-> IF field = "arch" THEN architecture(arch) ELSE t[field]]

-----------------------------------------------------------------------------
(***************************************************************************)
(* The checks of a request, and the manifest of one that passes them.  A   *)
(* parent commit is a source only of an installer.                         *)
(***************************************************************************)
isMountpointAllowed(m) == R86!isMountpointAllowed(m)

checkOptions(t, c, options) ==
    /\ t.bootISO /\ t.rpmOstree => options.Parent # "" /\ c = NoCustomizations
    /\ ~(GetKernel(c).Append /\ t.rpmOstree)
    /\ ~(GetFilesystems(c) # <<>> /\ t.rpmOstree)
    /\ \A m \in ToSet(GetFilesystems(c)) : isMountpointAllowed(m)

pipelines(t, c, options, specs) ==
    CASE t.pipelines = "qcow2" -> qcow2Pipelines(t, c, options, specs)
      [] t.pipelines = "vhd" -> vhdPipelines(t, c, options, specs)
      [] t.pipelines = "vmdk" -> vmdkPipelines(t, c, options, specs)
      [] t.pipelines = "openstack" -> openstackPipelines(t, c, options, specs)
      [] t.pipelines = "ec2" -> ec2Pipelines(t, c, options, specs)
      [] t.pipelines = "rhelEc2" -> rhelEc2Pipelines(t, c, options, specs)
      [] t.pipelines = "rhelEc2Sap" -> rhelEc2SapPipelines(t, c, options, specs)
      [] t.pipelines = "tar" -> tarPipelines(t, c, options, specs)
      [] t.pipelines = "tarInstaller" -> tarInstallerPipelines(t, c, options, specs)
      [] t.pipelines = "edgeCommit" -> edgeCommitPipelines(t, c, options, specs)
      [] t.pipelines = "edgeContainer" -> edgeContainerPipelines(t, c, options, specs)
      [] t.pipelines = "edgeInstaller" -> edgeInstallerPipelines(t, c, options, specs)

sources(specs, commits) == R86!sources(specs, commits)

Manifest(t, c, options, specs) ==
    [pipelines |-> pipelines(t, c, options, specs),
     sources |-> sources(specs, IF t.bootISO /\ R86!Pulls(options) THEN {options.Parent} ELSE {})]
=============================================================================
