------------------------------- MODULE Osbuild -------------------------------
(***************************************************************************)
(* The manifests that composer hands to osbuild (internal/osbuild2):       *)
(* pipelines of stages, and the constructors of the stages.                *)
(*                                                                         *)
(* A stage keeps what a build or the machine that boots its result can     *)
(* stumble over: the options that name packages, units, kernels, files and *)
(* places on the disk, and its inputs.  The files of configuration that a  *)
(* stage only writes have no options here.                                 *)
(*                                                                         *)
(* What a tree holds is a set of facts, each a triple of strings.          *)
(***************************************************************************)
EXTENDS Sequences, FiniteSets

(***************************************************************************)
(* Facts about a tree.  A kernel is known by its version, which is all     *)
(* that kernelVerStr keeps of a package.                                   *)
(***************************************************************************)
Pkg(p) == <<"package", p, "">>
Unit(u) == <<"unit", u, "">>
File(f) == <<"file", f, "">>
Kernel(version) == <<"kernel", version, "">>
Initramfs(version) == <<"initramfs", version, "">>
Repo(path) == <<"repository", path, "">>
Commit(path) == <<"commit", path, "">>
Tree == <<"tree", "/", "">>

(***************************************************************************)
(* Facts about the sources of a manifest: rpms to download, commits to     *)
(* pull.                                                                   *)
(***************************************************************************)
Source == "org.osbuild.source"
Rpm(spec) == <<"rpm", spec[1], spec[2]>>
OSTreeCommit(c) == <<"ostree", c, "">>

NoKernel == ""
NoOptions == <<>>

(***************************************************************************)
(* An input is a pipeline, or the sources, and what is taken from there.   *)
(***************************************************************************)
Stage(type, options, inputs) == [type |-> type, options |-> options, inputs |-> inputs]

Pipeline(name, stages) == [Name |-> name, Stages |-> stages]

\* the stages that AddStage adds when a condition holds, else it is given nil
When(condition, stages) == IF condition THEN stages ELSE <<>>

AddStages(p, stages) == [p EXCEPT !.Stages = @ \o stages]

Loopback(filename) == [filename |-> filename]

NewTreeInput(pipeline) == {<<pipeline, Tree>>}

NewFilesInputReferencesPipeline(pipeline, filename) == {<<pipeline, File(filename)>>}

NewOSTreeCheckoutInput(origin, name) == {<<origin, OSTreeCommit(name)>>}

-----------------------------------------------------------------------------
(***************************************************************************)
(* Stages that fill and configure the tree of an operating system.         *)
(***************************************************************************)
NewRPMStage(inputs) == Stage("rpm", NoOptions, inputs)
NewFixBLSStage(prefix) == Stage("fix-bls", [prefix |-> prefix], {})
NewLocaleStage == Stage("locale", NoOptions, {})
NewKeymapStage == Stage("keymap", NoOptions, {})
NewHostnameStage == Stage("hostname", NoOptions, {})
NewTimezoneStage == Stage("timezone", NoOptions, {})
NewChronyStage == Stage("chrony", NoOptions, {})
NewGroupsStage == Stage("groups", NoOptions, {})
NewUsersStage(users) == Stage("users", [users |-> users], {})
NewSystemdStage(units) == Stage("systemd", [units |-> units], {})
NewFirewallStage == Stage("firewall", NoOptions, {})
NewSysconfigStage == Stage("sysconfig", NoOptions, {})
NewFirstBootStage == Stage("first-boot", NoOptions, {})
NewSystemdLogindStage == Stage("systemd-logind", NoOptions, {})
NewCloudInitStage == Stage("cloud-init", NoOptions, {})
NewModprobeStage == Stage("modprobe", NoOptions, {})
NewDracutConfStage == Stage("dracut.conf", NoOptions, {})
NewSystemdUnitStage(unit) == Stage("systemd.unit", [units |-> {unit}], {})
NewAuthselectStage == Stage("authselect", NoOptions, {})
NewRHSMStage == Stage("rhsm", NoOptions, {})
NewSELinuxConfigStage == Stage("selinux.config", NoOptions, {})
NewTunedStage(profile) == Stage("tuned", [profile |-> profile], {})
NewTmpfilesdStage == Stage("tmpfilesd", NoOptions, {})
NewPamLimitsConfStage == Stage("pam.limits.conf", NoOptions, {})
NewSysctldStage == Stage("sysctld", NoOptions, {})
NewDNFConfigStage == Stage("dnf.config", NoOptions, {})
NewFSTabStage(mounts) == Stage("fstab", [mounts |-> mounts], {})
NewKernelCmdlineStage == Stage("kernel-cmdline", NoOptions, {})
NewGRUB2Stage(options) == Stage("grub2", options, {})
NewZiplStage == Stage("zipl", NoOptions, {})
NewSELinuxStage(labels) == Stage("selinux", [labels |-> labels], {})

(***************************************************************************)
(* Stages that make a disk image.                                          *)
(***************************************************************************)
NewTruncateStage(filename) == Stage("truncate", [filename |-> filename], {})
NewSfdiskStage(partitions, device) == Stage("sfdisk", [filename |-> device.filename, partitions |-> partitions], {})
NewMkfsXfsStage(device) == Stage("mkfs.xfs", device, {})
NewMkfsFATStage(device) == Stage("mkfs.fat", device, {})
NewMkfsBtrfsStage(device) == Stage("mkfs.btrfs", device, {})
NewMkfsExt4Stage(device) == Stage("mkfs.ext4", device, {})
NewCopyStage(paths, inputs, mounts) == Stage("copy", [paths |-> paths, mounts |-> mounts], inputs)
NewCopyStageSimple(paths, inputs) == Stage("copy", [paths |-> paths, mounts |-> {}], inputs)
NewGrub2InstStage(options) == Stage("grub2.inst", options, {})
NewZiplInstStage(options) == Stage("zipl.inst", options, {})
NewQEMUStage(filename, format, inputs) == Stage("qemu", [filename |-> filename, format |-> format], inputs)
NewXzStage(filename, inputs) == Stage("xz", [filename |-> filename], inputs)
NewTarStage(filename, inputs) == Stage("tar", [filename |-> filename], inputs)

(***************************************************************************)
(* Stages about commits.                                                   *)
(***************************************************************************)
NewOSTreeInitStage(path) == Stage("ostree.init", [path |-> path], {})
OSTreeInitFsStage == Stage("ostree.init-fs", NoOptions, {})
NewOSTreePullStage(repo, inputs) == Stage("ostree.pull", [repo |-> repo], inputs)
NewOSTreePasswdStage(origin, name) == Stage("ostree.passwd", NoOptions, NewOSTreeCheckoutInput(origin, name))
NewOSTreePrepTreeStage == Stage("ostree.preptree", NoOptions, {})
NewOSTreeCommitStage(parent, inputs) == Stage("ostree.commit", [parent |-> parent], inputs)
NewOSTreeOsInitStage(osname) == Stage("ostree.os-init", [osname |-> osname], {})
NewOSTreeConfigStage(repo) == Stage("ostree.config", [repo |-> repo], {})
NewOSTreeDeployStage(osname, mounts) == Stage("ostree.deploy", [osname |-> osname, mounts |-> mounts], {})
NewOSTreeFillvarStage(osname) == Stage("ostree.fillvar", [osname |-> osname], {})
NewOSTreeSelinuxStage(osname) == Stage("ostree.selinux", [osname |-> osname], {})

(***************************************************************************)
(* Stages that make a container or an installer.                           *)
(***************************************************************************)
NewMkdirStage(paths) == Stage("mkdir", [paths |-> paths], {})
NewChmodStage(path) == Stage("chmod", [path |-> path], {})
NewNginxConfigStage(path, root) == Stage("nginx.conf", [path |-> path, root |-> root], {})
NewOCIArchiveStage(filename, cmd, inputs) == Stage("oci-archive", [filename |-> filename, cmd |-> cmd], inputs)
NewBuildstampStage == Stage("buildstamp", NoOptions, {})
NewAnacondaStage == Stage("anaconda", NoOptions, {})
NewLoraxScriptStage == Stage("lorax-script", NoOptions, {})
NewDracutStage(kernel, modules) == Stage("dracut", [kernel |-> kernel, modules |-> modules], {})
NewBootISOMonoStage(options, inputs) == Stage("bootiso.mono", options, inputs)
NewGrubISOStage(options) == Stage("grub.iso", options, {})
NewKickstartStage(options) == Stage("kickstart", options, {})
NewDiscinfoStage == Stage("discinfo", NoOptions, {})
NewXorrisofsStage(options, inputs) == Stage("xorrisofs", options, inputs)
NewImplantisomd5Stage(filename) == Stage("implantisomd5", [filename |-> filename], {})
=============================================================================
